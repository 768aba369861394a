--------------------------- MODULE AssetPurgeProofs ---------------------------
(***************************************************************************)
(* What holds of assets and their files for every set of assets, paths and *)
(* purges, and any number of failing calls and crashes: no row loses its   *)
(* bytes, a quarantined file of a row has somebody who will put it back,   *)
(* and a start repairs what a crash has left.                              *)
(***************************************************************************)
EXTENDS AssetPurge, TLAPS

\* An upload in progress has its bytes and nobody else's claims: its identity
\* is out, its row is not. A name that is still to be given has no residue.
Uploads ==
  /\ rows \cup Seeded \subseteq used
  /\ \A a \in Assets \ (Clones \cup used) : Staged(PathOf[a]) \notin disk
  /\ upload # None => /\ upload \in used \ (rows \cup Clones \cup Seeded)
                      /\ File(PathOf[upload]) \in disk /\ Staged(PathOf[upload]) \notin disk
  /\ clone # None => clone \in Clones \ used
  /\ view \subseteq Samples

\* The paths a purge is still to delete, is working on or has staged.
Touched(q) ==
  q.paths \cup q.stages \cup {p \in {q.path} : q.at \in {"look", "decide"}}

\* What a purge touches is named by its targets and, from the look at the
\* survivors on, by no other row; when it commits, its targets have no rows.
Claims(q) ==
  /\ q.ids \subseteq used \ {upload}
  /\ Touched(q) \subseteq Of(q.ids)
  /\ \A a \in rows \ q.ids : PathOf[a] \in Touched(q) => PathOf[a] \in Samples
  /\ q.at = "commit" => q.ids \cap rows = {}

Targeted == \A x \in Purges : Claims(purge[x])

\* The sweep and the repair run alone.
Quiet == phase # "ready" => upload = None /\ \A x \in Purges : purge[x].at = "idle"

\* The repair has every quarantined file before it.
Listed == phase = "boot" => \A p \in Paths : Staged(p) \in disk => Staged(p) \in list

\* A purge that will delete the rows of a staged file, or put the file back.
Holds(q, p) == \/ q.at \in {"stage", "look", "decide", "delete"} /\ p \in q.stages
               \/ q.at = "undo" /\ p \in q.paths

\* As long as no call has failed, somebody holds the quarantined file of a row.
Held ==
  phase \in {"ready", "sweep"} /\ faults = 0 =>
    \A a \in rows : Quarantined(a) =>
      PathOf[a] \in Samples \/ \E x \in Purges : Holds(purge[x], PathOf[a])

\* The sweep has begun when nothing of a row was quarantined.
Whole == SweepsWhenWhole /\ phase = "sweep" => \A a \in rows : ~ Quarantined(a)

\* Whether the rows keep their bytes depends on when the sweep may begin.
Kept == SweepsWhenWhole => RowsKeepTheirBytes

IInv ==
  /\ TypeOK /\ Uploads /\ Targeted /\ Quiet /\ Listed /\ Single /\ Held /\ Whole /\ Kept

-----------------------------------------------------------------------------
(* Types.                                                                  *)

\* A purge step gives its request a record of the right type.
LEMMA RequestsStayTyped ==
  ASSUME TypeOK, Targeted, NEW x \in Purges,
         PurgeStep(x) \/ \E t \in {"trash"} \cup Assets : PurgeTargets(x, t)
  PROVE  purge' \in [Purges -> Requests]
<1> USE DEF TypeOK, Set, At
<1>1. purge[x] \in Requests
  OBVIOUS
<1>2. ASSUME NEW r \in Requests, purge' = [purge EXCEPT ![x] = r]
      PROVE  purge' \in [Purges -> Requests]
  BY <1>2
<1>3. Idle \in Requests
  BY DEF Idle, Requests
<1>4. ASSUME NEW t \in {"trash"} \cup Assets, PurgeTargets(x, t)
      PROVE  purge' \in [Purges -> Requests]
  <2>1. [Idle EXCEPT !.at = "survivors", !.target = t, !.ids = Requested(t)] \in Requests
    BY DEF Idle, Requests, Requested
  <2> QED
    BY <1>2, <1>4, <2>1 DEF PurgeTargets
<1>5. CASE PurgeSurvivors(x)
  <2>1. PathsToDelete(purge[x].ids) \subseteq Paths
    BY <1>1, AssetsAssumption DEF PathsToDelete, Of, Requests
  <2>2. [purge[x] EXCEPT !.at = "stage", !.paths = PathsToDelete(purge[x].ids)] \in Requests
    BY <1>1, <2>1 DEF Requests
  <2> QED
    BY <1>2, <1>5, <2>2 DEF PurgeSurvivors
<1>6. CASE StageBegin(x)
  <2>1. ASSUME NEW p \in purge[x].paths
        PROVE  [purge[x] EXCEPT !.at = "look", !.path = p, !.paths = @ \ {p}] \in Requests
    BY <1>1 DEF Requests
  <2>2. [purge[x] EXCEPT !.at = "delete"] \in Requests
    BY <1>1 DEF Requests
  <2> QED
    BY <1>2, <1>6, <2>1, <2>2 DEF StageBegin
<1>7. CASE StageLook(x)
  <2>1. PICK n \in {"file", "staged"} :
          purge' = [purge EXCEPT ![x] = [purge[x] EXCEPT
                 !.looked = @ \cup {n},
                 !.saw = IF <<purge[x].path, n>> \in disk THEN @ \cup {n} ELSE @,
                 !.at = IF purge[x].looked = {} THEN "look" ELSE "decide"]]
    BY <1>7 DEF StageLook
  <2>2. [purge[x] EXCEPT
                 !.looked = @ \cup {n},
                 !.saw = IF <<purge[x].path, n>> \in disk THEN @ \cup {n} ELSE @,
                 !.at = IF purge[x].looked = {} THEN "look" ELSE "decide"] \in Requests
    BY <1>1 DEF Requests
  <2> QED
    BY <1>2, <2>1, <2>2
<1>8. CASE StageRename(x)
  <2>1. StageFailed(x) \in Requests
    BY <1>1 DEF Requests, StageFailed, StageClosed
  <2>2. ASSUME NEW S \in SUBSET Paths
        PROVE  StageDone(x, S) \in Requests
    BY <1>1 DEF Requests, StageDone, StageClosed
  <2>3. purge[x].path \in Paths
    BY <1>1, <1>8, AssetsAssumption DEF StageRename, Targeted, Claims, Touched, Of, Requests
  <2>4. \/ purge' = [purge EXCEPT ![x] = StageFailed(x)]
        \/ purge' = [purge EXCEPT ![x] = StageDone(x, {})]
        \/ purge' = [purge EXCEPT ![x] = StageDone(x, {purge[x].path})]
    BY <1>8 DEF StageRename, Native
  <2> QED
    BY <1>2, <2>1, <2>2, <2>3, <2>4
<1>9. CASE PurgeDelete(x)
  <2>1. /\ [purge[x] EXCEPT !.at = "commit", !.paths = purge[x].stages] \in Requests
        /\ [purge[x] EXCEPT !.at = "undo", !.paths = purge[x].stages, !.error = "rows"] \in Requests
    BY <1>1 DEF Requests
  <2> QED
    BY <1>2, <1>9, <2>1 DEF PurgeDelete
<1>10. CASE PurgeUndo(x)
  <2>1. ASSUME NEW p \in Paths
        PROVE  /\ [purge[x] EXCEPT !.paths = @ \ {p}] \in Requests
               /\ [[purge[x] EXCEPT !.paths = @ \ {p}] EXCEPT !.failed = TRUE] \in Requests
    BY <1>1 DEF Requests
  <2>2. PICK p \in purge[x].paths :
          \/ purge' = [purge EXCEPT ![x] = [purge[x] EXCEPT !.paths = @ \ {p}]]
          \/ purge' = [purge EXCEPT ![x] =
                         [[purge[x] EXCEPT !.paths = @ \ {p}] EXCEPT !.failed = TRUE]]
    BY <1>10, Zenon DEF PurgeUndo, RollBack, Native
  <2>3. p \in Paths
    BY <1>1, <2>2 DEF Requests
  <2> QED
    BY <1>2, <2>1, <2>2, <2>3
<1>11. CASE PurgeCommit(x)
  <2>1. ASSUME NEW p \in Paths
        PROVE  [purge[x] EXCEPT !.paths = @ \ {p}] \in Requests
    BY <1>1 DEF Requests
  <2>2. PICK p \in purge[x].paths :
          \/ purge' = [purge EXCEPT ![x] = [purge[x] EXCEPT !.paths = @ \ {p}]]
          \/ purge' = [purge EXCEPT ![x] = Idle]
    BY <1>11, Zenon DEF PurgeCommit, Native
  <2>3. p \in Paths
    BY <1>1, <2>2 DEF Requests
  <2> QED
    BY <1>2, <1>3, <2>1, <2>2, <2>3
<1>12. CASE PurgeUndone(x) \/ PurgeDone(x)
  BY <1>2, <1>3, <1>12 DEF PurgeUndone, PurgeDone
<1> QED
  BY <1>4, <1>5, <1>6, <1>7, <1>8, <1>9, <1>10, <1>11, <1>12 DEF PurgeStep


-----------------------------------------------------------------------------
(* What a step may do.                                                     *)

\* A step of a purge that is neither its beginning nor its look at the
\* survivors narrows what it touches; it commits when it has deleted its rows.
LEMMA PurgeForms ==
  ASSUME TypeOK, NEW x \in Purges, PurgeStep(x)
  PROVE  /\ phase = "ready" /\ purge[x].at # "idle"
         /\ UNCHANGED <<used, upload, clone, view, phase, list, crashes>>
         /\ \A y \in Purges \ {x} : purge'[y] = purge[y]
         /\ \/ purge'[x] = Idle /\ rows' = rows
            \/ PurgeSurvivors(x)
            \/ /\ purge'[x].ids = purge[x].ids
               /\ Touched(purge'[x]) \subseteq Touched(purge[x])
               /\ \/ rows' = rows /\ (purge'[x].at = "commit" => purge[x].at = "commit")
                  \/ rows' = rows \ purge[x].ids
<1> USE DEF At, Set
<1>1. purge \in [Purges -> Requests] /\ purge[x] \in Requests
  BY DEF TypeOK
<1>2. ASSUME NEW r, purge' = [purge EXCEPT ![x] = r]
      PROVE  purge'[x] = r /\ \A y \in Purges \ {x} : purge'[y] = purge[y]
  BY <1>1, <1>2
<1>3. CASE PurgeSurvivors(x)
  BY <1>1, <1>2, <1>3 DEF PurgeSurvivors
<1>4. CASE StageBegin(x)
  <2>1. ASSUME NEW p \in purge[x].paths,
               NEW r, r = [purge[x] EXCEPT !.at = "look", !.path = p, !.paths = @ \ {p}]
        PROVE  r.ids = purge[x].ids /\ r.at # "commit" /\ Touched(r) \subseteq Touched(purge[x])
    BY <1>1, <2>1 DEF Touched, Requests
  <2>2. ASSUME NEW r, r = [purge[x] EXCEPT !.at = "delete"]
        PROVE  r.ids = purge[x].ids /\ r.at # "commit" /\ Touched(r) \subseteq Touched(purge[x])
    BY <1>1, <2>2 DEF Touched, Requests
  <2>3. /\ phase = "ready" /\ purge[x].at = "stage" /\ rows' = rows
        /\ UNCHANGED <<used, upload, clone, view, phase, list, crashes>>
    BY <1>4 DEF StageBegin
  <2> QED
    BY <1>2, <1>4, <2>1, <2>2, <2>3 DEF StageBegin
<1>5. CASE StageLook(x)
  BY <1>1, <1>5 DEF StageLook, Touched, Requests
<1>6. CASE StageRename(x)
  <2>1. \/ purge' = [purge EXCEPT ![x] = StageFailed(x)]
        \/ purge' = [purge EXCEPT ![x] = StageDone(x, {})]
        \/ purge' = [purge EXCEPT ![x] = StageDone(x, {purge[x].path})]
    BY <1>6 DEF StageRename, Native
  <2>2. /\ phase = "ready" /\ purge[x].at = "decide" /\ rows' = rows
        /\ UNCHANGED <<used, upload, clone, view, phase, list, crashes>>
    BY <1>6 DEF StageRename
  <2>3. ASSUME NEW r \in {StageFailed(x), StageDone(x, {}), StageDone(x, {purge[x].path})}
        PROVE  /\ r.ids = purge[x].ids /\ r.at # "commit"
               /\ Touched(r) \subseteq Touched(purge[x])
    <3>1. CASE r = StageFailed(x)
      <4>1. /\ r.ids = purge[x].ids /\ r.at = "undo"
            /\ r.paths = purge[x].stages /\ r.stages = purge[x].stages
        BY <1>1, <3>1 DEF StageFailed, StageClosed, Requests
      <4> QED
        BY <4>1 DEF Touched
    <3>2. ASSUME NEW S \in {{}, {purge[x].path}}, r = StageDone(x, S)
          PROVE  /\ r.ids = purge[x].ids /\ r.at # "commit"
                 /\ Touched(r) \subseteq Touched(purge[x])
      <4>1. /\ r.ids = purge[x].ids /\ r.at = "stage"
            /\ r.paths = purge[x].paths /\ r.stages = purge[x].stages \cup S
        BY <1>1, <3>2 DEF StageDone, StageClosed, Requests
      <4> QED
        BY <2>2, <3>2, <4>1 DEF Touched
    <3> QED
      BY <2>3, <3>1, <3>2
  <2> QED
    BY <1>2, <2>1, <2>2, <2>3
<1>7. CASE PurgeDelete(x)
  <2>1. ASSUME NEW r, r = [purge[x] EXCEPT !.at = "commit", !.paths = purge[x].stages]
        PROVE  r.ids = purge[x].ids /\ Touched(r) \subseteq Touched(purge[x])
    BY <1>1, <2>1 DEF Touched, Requests
  <2>2. ASSUME NEW r, r = [purge[x] EXCEPT !.at = "undo", !.paths = purge[x].stages,
                                           !.error = "rows"]
        PROVE  r.ids = purge[x].ids /\ r.at # "commit" /\ Touched(r) \subseteq Touched(purge[x])
    BY <1>1, <2>2 DEF Touched, Requests
  <2>3. /\ phase = "ready" /\ purge[x].at = "delete"
        /\ UNCHANGED <<used, upload, clone, view, phase, list, crashes>>
    BY <1>7 DEF PurgeDelete
  <2> QED
    BY <1>2, <1>7, <2>1, <2>2, <2>3 DEF PurgeDelete
<1>8. CASE PurgeUndo(x)
  <2>1. PICK p \in purge[x].paths :
          \/ purge' = [purge EXCEPT ![x] = [purge[x] EXCEPT !.paths = @ \ {p}]]
          \/ purge' = [purge EXCEPT ![x] =
                         [[purge[x] EXCEPT !.paths = @ \ {p}] EXCEPT !.failed = TRUE]]
    BY <1>8, Zenon DEF PurgeUndo, RollBack, Native
  <2>2. /\ phase = "ready" /\ purge[x].at = "undo" /\ rows' = rows
        /\ UNCHANGED <<used, upload, clone, view, phase, list, crashes>>
    BY <1>8 DEF PurgeUndo
  <2>3. ASSUME NEW r, r = [purge[x] EXCEPT !.paths = @ \ {p}]
        PROVE  r.ids = purge[x].ids /\ r.at # "commit" /\ Touched(r) \subseteq Touched(purge[x])
    BY <1>1, <2>2, <2>3 DEF Touched, Requests
  <2>4. ASSUME NEW r, r = [[purge[x] EXCEPT !.paths = @ \ {p}] EXCEPT !.failed = TRUE]
        PROVE  r.ids = purge[x].ids /\ r.at # "commit" /\ Touched(r) \subseteq Touched(purge[x])
    BY <1>1, <2>2, <2>4 DEF Touched, Requests
  <2> QED
    BY <1>2, <2>1, <2>2, <2>3, <2>4
<1>9. CASE PurgeCommit(x)
  <2>1. PICK p \in purge[x].paths :
          \/ purge' = [purge EXCEPT ![x] = [purge[x] EXCEPT !.paths = @ \ {p}]]
          \/ purge' = [purge EXCEPT ![x] = Idle]
    BY <1>9, Zenon DEF PurgeCommit, Native
  <2>2. /\ phase = "ready" /\ purge[x].at = "commit" /\ rows' = rows
        /\ UNCHANGED <<used, upload, clone, view, phase, list, crashes>>
    BY <1>9 DEF PurgeCommit
  <2> QED
    BY <1>1, <2>1, <2>2 DEF Touched, Requests
<1>10. CASE PurgeUndone(x) \/ PurgeDone(x)
  BY <1>1, <1>2, <1>10 DEF PurgeUndone, PurgeDone
<1> QED
  BY <1>3, <1>4, <1>5, <1>6, <1>7, <1>8, <1>9, <1>10 DEF PurgeStep

\* A purge begins with targets that have rows and touches nothing yet.
LEMMA TargetForms ==
  ASSUME TypeOK, NEW x \in Purges, NEW t \in {"trash"} \cup Assets, PurgeTargets(x, t)
  PROVE  /\ phase = "ready" /\ purge[x].at = "idle" /\ purge'[x].at = "survivors"
         /\ \A y \in Purges \ {x} : purge'[y] = purge[y]
         /\ purge'[x].ids \subseteq rows /\ Touched(purge'[x]) = {}
         /\ purge'[x].stages = {} /\ purge'[x].error = "none"
         /\ UNCHANGED <<rows, trash, used, disk, upload, clone, view, phase, list, faults, crashes>>
<1>1. Requested(t) \subseteq rows
  BY DEF Requested, TypeOK
<1>2. purge' = [purge EXCEPT ![x] = [Idle EXCEPT !.at = "survivors", !.target = t,
                                                !.ids = Requested(t)]]
  BY DEF PurgeTargets, Set
<1>3. /\ \A y \in Purges \ {x} : purge'[y] = purge[y]
      /\ purge'[x].at = "survivors" /\ purge'[x].ids = Requested(t)
      /\ purge'[x].paths = {} /\ purge'[x].stages = {} /\ purge'[x].error = "none"
  BY <1>2 DEF TypeOK, Idle
<1> QED
  BY <1>1, <1>3 DEF PurgeTargets, At, Touched

\* How identities come and go.
LEMMA IdentityForms ==
  ASSUME TypeOK, [Next]_vars
  PROVE  \/ UNCHANGED <<rows, used, upload, clone>>
         \/ \E c \in Clones \ used : clone' = c /\ UNCHANGED <<rows, used, upload, disk, purge>>
         \/ /\ clone # None /\ rows' = rows \cup {clone} /\ used' = used \cup {clone}
            /\ clone' = None /\ UNCHANGED <<upload, disk, purge>>
         \/ \E a \in Assets \ (Clones \cup used) :
              /\ UploadWrite(a) /\ used' = used \cup {a} /\ upload' \in {a, None}
              /\ UNCHANGED <<rows, clone, purge>>
         \/ /\ upload # None /\ upload' = None /\ UNCHANGED <<used, clone, purge>>
            /\ (rows' = rows \cup {upload} /\ disk' = disk) \/ rows' = rows
         \/ /\ \E x \in Purges : PurgeDelete(x) /\ rows' = rows \ purge[x].ids
            /\ UNCHANGED <<used, upload, clone, disk>>
         \/ Crash
<1>1. ASSUME NEW x \in Purges, PurgeStep(x)
      PROVE  \/ UNCHANGED <<rows, used, upload, clone>>
             \/ PurgeDelete(x) /\ rows' = rows \ purge[x].ids /\ UNCHANGED <<used, upload, clone, disk>>
  BY <1>1 DEF PurgeStep, PurgeSurvivors, StageBegin, StageLook, StageRename, PurgeDelete, PurgeUndo,
              PurgeUndone, PurgeCommit, PurgeDone
<1>2. ASSUME NEW a \in Assets, SoftDelete(a) \/ RestoreAsset(a)
      PROVE  UNCHANGED <<rows, used, upload, clone>>
  BY <1>2 DEF SoftDelete, RestoreAsset
<1>3. ASSUME NEW a \in Assets, CloneRead(a)
      PROVE  a \in Clones \ used /\ clone' = a /\ UNCHANGED <<rows, used, upload, disk, purge>>
  BY <1>3 DEF CloneRead
<1>4. ASSUME NEW a \in Assets, UploadWrite(a)
      PROVE  /\ a \in Assets \ (Clones \cup used) /\ used' = used \cup {a} /\ upload' \in {a, None}
             /\ UNCHANGED <<rows, clone, purge>>
  BY <1>4, Zenon DEF UploadWrite, Native
<1>5. CASE CloneCommit
  BY <1>5 DEF CloneCommit
<1>6. CASE UploadRow
  BY <1>6 DEF UploadRow, NoFault
<1>7. ASSUME NEW p \in Paths, ViewMissing(p) \/ ViewRestore(p)
      PROVE  UNCHANGED <<rows, used, upload, clone>>
  BY <1>7 DEF ViewMissing, ViewRestore
<1>8. ASSUME NEW x \in Purges, NEW t \in {"trash"} \cup Assets, PurgeTargets(x, t)
      PROVE  UNCHANGED <<rows, used, upload, clone>>
  BY <1>8 DEF PurgeTargets
<1>9. CASE SweepBegin \/ (\E f \in Files : SweepFile(f)) \/ SweepEnd \/ Boot
  BY <1>9 DEF SweepBegin, SweepFile, SweepEnd, Boot, BootBegin, BootFile, BootEnd
<1>10. CASE UNCHANGED vars
  BY <1>10 DEF vars
<1> QED
  BY <1>1, <1>2, <1>3, <1>4, <1>5, <1>6, <1>7, <1>8, <1>9, <1>10 DEF Next

\* Nothing else moves a purge than its own steps and a crash.
LEMMA PurgeMoves ==
  ASSUME [Next]_vars
  PROVE  \/ UNCHANGED purge
         \/ \E x \in Purges : PurgeStep(x)
         \/ \E x \in Purges, t \in {"trash"} \cup Assets : PurgeTargets(x, t)
         \/ Crash
<1>1. ASSUME NEW a \in Assets, SoftDelete(a) \/ RestoreAsset(a) \/ CloneRead(a) \/ UploadWrite(a)
      PROVE  UNCHANGED purge
  BY <1>1 DEF SoftDelete, RestoreAsset, CloneRead, UploadWrite
<1>2. ASSUME CloneCommit \/ UploadRow
      PROVE  UNCHANGED purge
  BY <1>2 DEF CloneCommit, UploadRow
<1>3. ASSUME NEW p \in Paths, ViewMissing(p) \/ ViewRestore(p)
      PROVE  UNCHANGED purge
  BY <1>3 DEF ViewMissing, ViewRestore
<1>4. ASSUME SweepBegin \/ (\E f \in Files : SweepFile(f)) \/ SweepEnd \/ Boot
      PROVE  UNCHANGED purge
  BY <1>4 DEF SweepBegin, SweepFile, SweepEnd, Boot, BootBegin, BootFile, BootEnd
<1> QED
  BY <1>1, <1>2, <1>3, <1>4 DEF Next, vars

\* A row that appears is the upload's, under a name of its own, or a clone's of
\* a bundled sample; no purge has either among its targets.
LEMMA RowsAppear ==
  ASSUME TypeOK, Uploads, Targeted, [Next]_vars,
         NEW a \in rows' \ rows, NEW x \in Purges
  PROVE  /\ a \in Assets /\ a \notin purge[x].ids
         /\ PathOf[a] \in Samples \/ PathOf[a] \notin Of(purge[x].ids)
<1>1. a \in {upload, clone} \ {None}
  BY IdentityForms DEF Crash
<1>2. Claims(purge[x]) /\ purge[x].ids \subseteq Assets
  BY DEF Targeted, TypeOK, Claims
<1>3. CASE a = clone
  BY <1>1, <1>2, <1>3, TemplatesAreBundled DEF Uploads, Claims, TypeOK
<1>4. CASE a = upload
  <2>1. a \in Assets \ (Clones \cup Seeded) /\ a \notin purge[x].ids
    BY <1>1, <1>2, <1>4 DEF Uploads, Claims, TypeOK
  <2> QED
    BY <1>2, <2>1, UploadPathsAreFresh DEF Of
<1> QED
  BY <1>1, <1>3, <1>4

\* The claims of a purge that narrows what it touches outlive whatever the
\* others do meanwhile.
LEMMA ClaimsNarrow ==
  ASSUME TypeOK, Uploads, Targeted, [Next]_vars, NEW x \in Purges,
         purge'[x].ids = purge[x].ids, Touched(purge'[x]) \subseteq Touched(purge[x]),
         purge'[x].at = "commit" => purge[x].at = "commit" \/ rows' = rows \ purge[x].ids
  PROVE  Claims(purge[x])'
<1>1. Claims(purge[x]) /\ purge[x].ids \subseteq Assets
  BY DEF Targeted, TypeOK, Claims
<1>2. ASSUME NEW a \in rows' \ rows
      PROVE  /\ a \in Assets /\ a \notin purge[x].ids
             /\ PathOf[a] \in Samples \/ PathOf[a] \notin Of(purge[x].ids)
  BY RowsAppear
<1>3. purge[x].ids \subseteq used' \ {upload'}
  <2>1. purge[x].ids \subseteq used \ {upload}
    BY <1>1 DEF Claims
  <2>2. used \subseteq used' /\ (upload' = upload \/ upload' = None \/ upload' \notin used)
    BY IdentityForms DEF Crash
  <2> QED
    BY <1>1, <2>1, <2>2, AssetsAssumption
<1>4. \A a \in rows' \ purge[x].ids : PathOf[a] \in Touched(purge[x]) => PathOf[a] \in Samples
  BY <1>1, <1>2 DEF Claims
<1>5. purge'[x].at = "commit" => purge[x].ids \cap rows' = {}
  BY <1>1, <1>2 DEF Claims
<1>6. Touched(purge[x]) \subseteq Of(purge[x].ids)
  BY <1>1 DEF Claims
<1>7. /\ purge'[x].ids \subseteq used' \ {upload'}
      /\ Touched(purge'[x]) \subseteq Of(purge'[x].ids)
      /\ \A a \in rows' \ purge'[x].ids : PathOf[a] \in Touched(purge'[x]) => PathOf[a] \in Samples
      /\ purge'[x].at = "commit" => purge'[x].ids \cap rows' = {}
  BY <1>3, <1>4, <1>5, <1>6
<1> QED
  BY <1>7 DEF Claims, Touched

LEMMA TargetedKept ==
  ASSUME TypeOK, Uploads, Targeted, [Next]_vars
  PROVE  Targeted'
<1> SUFFICES ASSUME NEW x \in Purges PROVE Claims(purge[x])'
  BY DEF Targeted
<1>1. CASE purge'[x] = purge[x]
  BY <1>1, ClaimsNarrow
<1>2. CASE purge'[x] = Idle
  BY <1>2 DEF Claims, Touched, Idle
<1>3. CASE PurgeStep(x)
  <2>1. CASE PurgeSurvivors(x)
    <3> DEFINE ids == purge[x].ids
               keep == PathsToDelete(ids)
    <3>1. Claims(purge[x]) /\ purge \in [Purges -> Requests] /\ purge[x] \in Requests
      BY DEF Targeted, TypeOK
    <3>2. /\ purge'[x].ids = ids /\ purge'[x].paths = keep
          /\ purge'[x].stages = purge[x].stages /\ purge'[x].at = "stage"
          /\ UNCHANGED <<rows, used, upload>>
      BY <2>1, <3>1 DEF PurgeSurvivors, Set, Requests
    <3>3. keep \subseteq Of(ids) /\ \A a \in rows \ ids : PathOf[a] \notin keep
      BY DEF PathsToDelete, Of
    <3>4. purge[x].stages \subseteq Touched(purge[x])
      BY DEF Touched
    <3> QED
      BY <3>1, <3>2, <3>3, <3>4 DEF Claims, Touched
  <2>2. CASE ~ PurgeSurvivors(x) /\ purge'[x] # Idle
    BY <1>3, <2>2, PurgeForms, ClaimsNarrow
  <2> QED
    BY <1>2, <2>1, <2>2
<1>4. ASSUME NEW t \in {"trash"} \cup Assets, PurgeTargets(x, t)
      PROVE  Claims(purge[x])'
  <2>1. purge'[x].ids \subseteq used' \ {upload'} /\ Touched(purge'[x]) = {}
        /\ purge'[x].at = "survivors"
    BY <1>4, TargetForms, AssetsAssumption DEF Uploads, TypeOK
  <2> QED
    BY <2>1 DEF Claims, Touched
<1>5. CASE Crash
  BY <1>2, <1>5 DEF Crash
<1>6. ASSUME NEW y \in Purges \ {x},
             PurgeStep(y) \/ \E t \in {"trash"} \cup Assets : PurgeTargets(y, t)
      PROVE  purge'[x] = purge[x]
  BY <1>6, PurgeForms, TargetForms
<1> QED
  BY <1>1, <1>3, <1>4, <1>5, <1>6, PurgeMoves

\* What a step may do to the files. A step that moves files moves no rows.
LEMMA DiskForms ==
  ASSUME TypeOK, [Next]_vars, disk' # disk
  PROVE  /\ UNCHANGED <<rows, clone>>
         /\ \/ \E a \in Assets \ (Clones \cup used) :
                 /\ phase = "ready" /\ upload = None /\ used' = used \cup {a}
                 /\ UNCHANGED <<purge, view, phase>>
                 /\ disk' = disk \cup {File(PathOf[a])}
            \/ /\ phase = "ready" /\ upload # None /\ upload' = None
               /\ UNCHANGED <<used, purge, view, phase>>
               /\ disk' = disk \ {File(PathOf[upload])}
            \/ /\ UNCHANGED <<used, upload>>
               /\ \/ \E p \in view : phase = "ready" /\ disk' = disk \cup {File(p)} /\ purge' = purge
                  \/ \E x \in Purges :
                       /\ StageRename(x) /\ phase = "ready" /\ purge[x].at = "decide"
                       /\ purge[x].saw = {"file"}
                       /\ File(purge[x].path) \in disk /\ Staged(purge[x].path) \notin disk
                       /\ disk' = (disk \ {File(purge[x].path)}) \cup {Staged(purge[x].path)}
                  \/ \E p \in Paths :
                       /\ phase = "boot" \/ (phase = "ready" /\ \E x \in Purges : PurgeUndo(x))
                       /\ Staged(p) \in disk /\ File(p) \notin disk
                       /\ disk' = (disk \ {Staged(p)}) \cup {File(p)}
                  \/ \E x \in Purges : \E p \in purge[x].paths :
                       /\ PurgeCommit(x) /\ phase = "ready" /\ purge[x].at = "commit"
                       /\ disk' = disk \ {Staged(p)}
                  \/ \E p \in Paths \ UsedPaths :
                       phase = "boot" /\ purge' = purge /\ disk' = disk \ {Staged(p)}
                  \/ \E f \in Files \ Owned :
                       phase = "sweep" /\ purge' = purge /\ disk' = disk \ {f}
<1>1. ASSUME NEW a \in Assets, SoftDelete(a) \/ RestoreAsset(a) \/ CloneRead(a)
      PROVE  UNCHANGED disk
  BY <1>1 DEF SoftDelete, RestoreAsset, CloneRead
<1>2. ASSUME NEW a \in Assets, UploadWrite(a)
      PROVE  /\ UNCHANGED <<rows, clone, purge, view, phase>>
             /\ a \in Assets \ (Clones \cup used) /\ phase = "ready" /\ upload = None
             /\ used' = used \cup {a} /\ disk' = disk \cup {File(PathOf[a])}
  BY <1>2, Zenon DEF UploadWrite, Native
<1>3. CASE UploadRow
  BY <1>3 DEF UploadRow
<1>4. ASSUME NEW p \in Paths, ViewRestore(p)
      PROVE  /\ UNCHANGED <<rows, clone, used, upload, purge>>
             /\ p \in view /\ phase = "ready" /\ disk' = disk \cup {File(p)}
  BY <1>4, Zenon DEF ViewRestore, Native
<1>5. ASSUME NEW x \in Purges, StageRename(x)
      PROVE  /\ UNCHANGED <<rows, clone, used, upload>>
             /\ phase = "ready" /\ purge[x].at = "decide" /\ purge[x].saw = {"file"}
             /\ File(purge[x].path) \in disk /\ Staged(purge[x].path) \notin disk
             /\ disk' = (disk \ {File(purge[x].path)}) \cup {Staged(purge[x].path)}
  BY <1>5, Zenon DEF StageRename, Native, At
<1>6. ASSUME NEW x \in Purges, PurgeUndo(x)
      PROVE  /\ UNCHANGED <<rows, clone, used, upload>> /\ phase = "ready"
             /\ \E p \in Paths : /\ Staged(p) \in disk /\ File(p) \notin disk
                                 /\ disk' = (disk \ {Staged(p)}) \cup {File(p)}
  <2>1. UNCHANGED <<rows, clone, used, upload>> /\ phase = "ready"
    BY <1>6 DEF PurgeUndo, At
  <2>2. \E p \in purge[x].paths : /\ Staged(p) \in disk /\ File(p) \notin disk
                                 /\ disk' = (disk \ {Staged(p)}) \cup {File(p)}
    BY <1>6, Zenon DEF PurgeUndo, RollBack, Native
  <2>3. purge[x].paths \subseteq Paths
    BY DEF TypeOK, Requests
  <2> QED
    BY <2>1, <2>2, <2>3
<1>7. ASSUME NEW x \in Purges, PurgeCommit(x)
      PROVE  /\ UNCHANGED <<rows, clone, used, upload>> /\ phase = "ready"
             /\ purge[x].at = "commit"
             /\ \E p \in purge[x].paths : disk' = disk \ {Staged(p)}
  BY <1>7, Zenon DEF PurgeCommit, Native, Removed, At
<1>8. ASSUME NEW x \in Purges, PurgeSurvivors(x) \/ StageBegin(x) \/ StageLook(x) \/ PurgeDelete(x)
                               \/ PurgeUndone(x) \/ PurgeDone(x)
      PROVE  UNCHANGED disk
  BY <1>8 DEF PurgeSurvivors, StageBegin, StageLook, PurgeDelete, PurgeUndone, PurgeDone
<1>9. ASSUME NEW f \in Files, SweepFile(f)
      PROVE  /\ UNCHANGED <<rows, clone, used, upload, purge>>
             /\ phase = "sweep" /\ f \notin Owned /\ disk' = disk \ {f}
  BY <1>9, Zenon DEF SweepFile, Native
<1>10. ASSUME NEW p \in Paths, BootFile(p)
       PROVE  /\ UNCHANGED <<rows, clone, used, upload, purge>> /\ phase = "boot"
              /\ \/ /\ Staged(p) \in disk /\ File(p) \notin disk
                    /\ disk' = (disk \ {Staged(p)}) \cup {File(p)}
                 \/ p \notin UsedPaths /\ disk' = disk \ {Staged(p)}
  <2>1. UNCHANGED <<rows, clone, used, upload, purge>> /\ phase = "boot"
    BY <1>10 DEF BootFile
  <2>2. CASE Referenced(p)
    BY <1>10, <2>1, <2>2, Zenon DEF BootFile, RollBack, Native
  <2>3. CASE ~ Referenced(p)
    BY <1>10, <2>1, <2>3, Zenon DEF BootFile, Referenced, Removed, Native
  <2> QED
    BY <2>2, <2>3
<1>11. ASSUME CloneCommit \/ SweepBegin \/ SweepEnd \/ Crash \/ BootBegin \/ BootEnd \/ UNCHANGED vars
       PROVE  UNCHANGED disk
  BY <1>11 DEF CloneCommit, SweepBegin, SweepEnd, Crash, BootBegin, BootEnd, vars
<1>12. ASSUME NEW p \in Paths, ViewMissing(p)
       PROVE  UNCHANGED disk
  BY <1>12 DEF ViewMissing
<1>13. ASSUME NEW x \in Purges, NEW t \in {"trash"} \cup Assets, PurgeTargets(x, t)
       PROVE  UNCHANGED disk
  BY <1>13 DEF PurgeTargets
<1>14. \/ \E a \in Assets : UploadWrite(a)
       \/ UploadRow
       \/ \E p \in Paths : ViewRestore(p) \/ BootFile(p)
       \/ \E x \in Purges : StageRename(x) \/ PurgeUndo(x) \/ PurgeCommit(x)
       \/ \E f \in Files : SweepFile(f)
  BY <1>1, <1>8, <1>11, <1>12, <1>13 DEF Next, Boot, PurgeStep
<1>15. ASSUME NEW a \in Assets, UploadWrite(a)
       PROVE  \E b \in Assets \ (Clones \cup used) :
                 /\ phase = "ready" /\ upload = None /\ used' = used \cup {b}
                 /\ UNCHANGED <<purge, view, phase>>
                 /\ disk' = disk \cup {File(PathOf[b])}
  BY <1>2, <1>15
<1> QED
  BY <1>2, <1>3, <1>4, <1>5, <1>6, <1>7, <1>9, <1>10, <1>14, <1>15

\* A fault is counted once, a crash by itself.
LEMMA FaultForms ==
  ASSUME TypeOK, [Next]_vars
  PROVE  /\ UNCHANGED faults \/ Fault
         /\ UNCHANGED crashes \/ Crash
<1>1. ASSUME NEW a \in Assets, SoftDelete(a) \/ RestoreAsset(a) \/ CloneRead(a)
      PROVE  UNCHANGED <<faults, crashes>>
  BY <1>1 DEF SoftDelete, RestoreAsset, CloneRead
<1>2. ASSUME NEW a \in Assets, UploadWrite(a)
      PROVE  UNCHANGED crashes /\ (UNCHANGED faults \/ Fault)
  BY <1>2, Zenon DEF UploadWrite, Native, NoFault
<1>3. ASSUME CloneCommit \/ UploadRow
      PROVE  UNCHANGED crashes /\ (UNCHANGED faults \/ Fault)
  BY <1>3 DEF CloneCommit, UploadRow, NoFault
<1>4. ASSUME NEW p \in Paths, ViewMissing(p) \/ ViewRestore(p)
      PROVE  UNCHANGED crashes /\ (UNCHANGED faults \/ Fault)
  BY <1>4, Zenon DEF ViewMissing, ViewRestore, Native, NoFault
<1>5. ASSUME NEW x \in Purges, PurgeSurvivors(x) \/ StageBegin(x) \/ StageLook(x) \/ PurgeUndone(x)
                               \/ PurgeDone(x)
      PROVE  UNCHANGED <<faults, crashes>>
  BY <1>5 DEF PurgeSurvivors, StageBegin, StageLook, PurgeUndone, PurgeDone
<1>6. ASSUME NEW x \in Purges, StageRename(x) \/ PurgeDelete(x) \/ PurgeUndo(x) \/ PurgeCommit(x)
      PROVE  UNCHANGED crashes /\ (UNCHANGED faults \/ Fault)
  BY <1>6, Zenon DEF StageRename, PurgeDelete, PurgeUndo, PurgeCommit, RollBack, Native, NoFault
<1>7. ASSUME NEW x \in Purges, NEW t \in {"trash"} \cup Assets, PurgeTargets(x, t)
      PROVE  UNCHANGED <<faults, crashes>>
  BY <1>7 DEF PurgeTargets
<1>8. ASSUME SweepBegin \/ SweepEnd \/ BootBegin \/ BootEnd
      PROVE  UNCHANGED <<faults, crashes>>
  BY <1>8 DEF SweepBegin, SweepEnd, BootBegin, BootEnd
<1>9. ASSUME NEW f \in Files, SweepFile(f)
      PROVE  UNCHANGED crashes /\ (UNCHANGED faults \/ Fault)
  BY <1>9, Zenon DEF SweepFile, Native, NoFault
<1>10. ASSUME NEW p \in Paths, BootFile(p)
       PROVE  UNCHANGED crashes /\ (UNCHANGED faults \/ Fault)
  <2>1. CASE Referenced(p)
    BY <1>10, <2>1, Zenon DEF BootFile, RollBack, Native, NoFault
  <2>2. CASE ~ Referenced(p)
    BY <1>10, <2>2, Zenon DEF BootFile, Native, NoFault
  <2> QED
    BY <2>1, <2>2
<1>11. CASE Crash
  BY <1>11 DEF Crash
<1>12. CASE UNCHANGED vars
  BY <1>12 DEF vars
<1> QED
  BY <1>1, <1>2, <1>3, <1>4, <1>5, <1>6, <1>7, <1>8, <1>9, <1>10, <1>11, <1>12
     DEF Next, PurgeStep, Boot

LEMMA TypeKept ==
  ASSUME TypeOK, Targeted, [Next]_vars
  PROVE  TypeOK'
<1>1. purge' \in [Purges -> Requests]
  <2>1. Idle \in Requests
    BY DEF Idle, Requests
  <2>2. CASE Crash
    BY <2>1, <2>2 DEF Crash
  <2>3. CASE UNCHANGED purge
    BY <2>3 DEF TypeOK
  <2> QED
    BY <2>2, <2>3, PurgeMoves, RequestsStayTyped
<1>2. disk' \subseteq Files
  <2>1. ASSUME NEW p \in Paths PROVE File(p) \in Files /\ Staged(p) \in Files
    BY DEF Files, File, Staged
  <2>2. \A a \in Assets : PathOf[a] \in Paths
    BY AssetsAssumption
  <2>3. \A x \in Purges : /\ purge[x].paths \subseteq Paths
                          /\ purge[x].at = "decide" => purge[x].path \in Paths
    BY <2>2 DEF TypeOK, Requests, Targeted, Claims, Touched, Of
  <2>4. disk \subseteq Files /\ view \subseteq Paths
    BY DEF TypeOK
  <2> QED
    BY <2>1, <2>2, <2>3, <2>4, DiskForms
<1>3. rows' \subseteq Assets /\ used' \subseteq Assets
      /\ upload' \in Assets \cup {None} /\ clone' \in Assets \cup {None}
  <2>1. /\ rows \subseteq Assets /\ used \subseteq Assets /\ Clones \subseteq Assets
        /\ upload \in Assets \cup {None} /\ clone \in Assets \cup {None}
    BY AssetsAssumption DEF TypeOK
  <2>2. CASE Crash
    BY <2>1, <2>2 DEF Crash
  <2> QED
    BY <2>1, <2>2, IdentityForms
<1>4. trash' \subseteq rows'
  <2>1. trash \subseteq rows
    BY DEF TypeOK
  <2>2. ASSUME NEW x \in Purges, PurgeStep(x)
        PROVE  trash' \subseteq rows'
    BY <2>1, <2>2 DEF PurgeStep, PurgeSurvivors, StageBegin, StageLook, StageRename, PurgeDelete,
                     PurgeUndo, PurgeUndone, PurgeCommit, PurgeDone
  <2>3. ASSUME NEW a \in Assets,
               SoftDelete(a) \/ RestoreAsset(a) \/ CloneRead(a) \/ UploadWrite(a)
        PROVE  trash' \subseteq rows'
    BY <2>1, <2>3 DEF SoftDelete, RestoreAsset, CloneRead, UploadWrite
  <2>4. CASE CloneCommit \/ UploadRow
    BY <2>1, <2>4 DEF CloneCommit, UploadRow
  <2>5. ASSUME NEW p \in Paths, ViewMissing(p) \/ ViewRestore(p)
        PROVE  trash' \subseteq rows'
    BY <2>1, <2>5 DEF ViewMissing, ViewRestore
  <2>6. ASSUME NEW x \in Purges, NEW t \in {"trash"} \cup Assets, PurgeTargets(x, t)
        PROVE  trash' \subseteq rows'
    BY <2>1, <2>6 DEF PurgeTargets
  <2>7. CASE SweepBegin \/ (\E f \in Files : SweepFile(f)) \/ SweepEnd \/ Boot \/ Crash
    BY <2>1, <2>7 DEF SweepBegin, SweepFile, SweepEnd, Boot, BootBegin, BootFile, BootEnd, Crash
  <2>8. CASE UNCHANGED vars
    BY <2>1, <2>8 DEF vars
  <2> QED
    BY <2>2, <2>3, <2>4, <2>5, <2>6, <2>7, <2>8 DEF Next
<1>5. view' \subseteq Paths /\ phase' \in Phases /\ list' \subseteq Files
  <2>1. /\ view \subseteq Paths /\ phase \in Phases /\ list \subseteq Files
        /\ disk \subseteq Files
    BY DEF TypeOK
  <2>2. ASSUME NEW x \in Purges, PurgeStep(x)
        PROVE  UNCHANGED <<view, phase, list>>
    BY <2>2, PurgeForms
  <2>3. ASSUME NEW a \in Assets,
               SoftDelete(a) \/ RestoreAsset(a) \/ CloneRead(a) \/ UploadWrite(a)
        PROVE  UNCHANGED <<view, phase, list>>
    BY <2>3 DEF SoftDelete, RestoreAsset, CloneRead, UploadWrite
  <2>4. CASE CloneCommit \/ UploadRow
    BY <2>1, <2>4 DEF CloneCommit, UploadRow
  <2>5. ASSUME NEW p \in Paths, ViewMissing(p) \/ ViewRestore(p)
        PROVE  view' \subseteq Paths /\ UNCHANGED <<phase, list>>
    BY <2>1, <2>5 DEF ViewMissing, ViewRestore
  <2>6. ASSUME NEW x \in Purges, NEW t \in {"trash"} \cup Assets, PurgeTargets(x, t)
        PROVE  UNCHANGED <<view, phase, list>>
    BY <2>6 DEF PurgeTargets
  <2>7. CASE SweepBegin \/ (\E f \in Files : SweepFile(f)) \/ SweepEnd \/ Crash
    BY <2>1, <2>7 DEF SweepBegin, SweepFile, SweepEnd, Crash, Phases
  <2>8. CASE BootBegin \/ BootEnd
    BY <2>1, <2>8 DEF BootBegin, BootEnd, Phases
  <2>9. ASSUME NEW p \in Paths, BootFile(p)
        PROVE  view' = view /\ phase' \in {"boot", "down"} /\ list' \subseteq list
    <3>1. CASE Referenced(p)
      BY <2>9, <3>1, Zenon DEF BootFile, RollBack, Native
    <3>2. CASE ~ Referenced(p)
      BY <2>9, <3>2, Zenon DEF BootFile, Native
    <3> QED
      BY <3>1, <3>2
  <2>10. CASE UNCHANGED vars
    BY <2>1, <2>10 DEF vars
  <2> QED
    BY <2>1, <2>2, <2>3, <2>4, <2>5, <2>6, <2>7, <2>8, <2>9, <2>10 DEF Next, Boot, Phases
<1>6. faults' \in 0 .. MaxFaults /\ crashes' \in 0 .. MaxCrashes
  <2>1. /\ faults \in 0 .. MaxFaults /\ crashes \in 0 .. MaxCrashes
        /\ MaxFaults \in Nat /\ MaxCrashes \in Nat
    BY AssetsAssumption DEF TypeOK
  <2>2. Fault \/ UNCHANGED faults => faults' \in 0 .. MaxFaults
    BY <2>1 DEF Fault
  <2>3. (UNCHANGED faults \/ Fault) /\ (UNCHANGED crashes \/ Crash)
    BY FaultForms
  <2> QED
    BY <2>1, <2>2, <2>3 DEF Crash
<1> QED
  BY <1>1, <1>2, <1>3, <1>4, <1>5, <1>6 DEF TypeOK

-----------------------------------------------------------------------------
(* The invariant, part by part.                                            *)

\* Requests are served by a server that is ready.
LEMMA ReadyForms ==
  ASSUME TypeOK, [Next]_vars, phase # "ready"
  PROVE  Crash \/ UNCHANGED <<rows, trash, used, upload, clone, view, purge>>
<1>1. ~ \E x \in Purges : PurgeStep(x)
  BY PurgeForms
<1>2. ~ \E x \in Purges, t \in {"trash"} \cup Assets : PurgeTargets(x, t)
  BY TargetForms
<1>3. ASSUME NEW a \in Assets, SoftDelete(a) \/ RestoreAsset(a) \/ CloneRead(a) \/ UploadWrite(a)
      PROVE  FALSE
  BY <1>3 DEF SoftDelete, RestoreAsset, CloneRead, UploadWrite
<1>4. ASSUME NEW p \in Paths, ViewMissing(p) \/ ViewRestore(p)
      PROVE  FALSE
  BY <1>4 DEF ViewMissing, ViewRestore
<1>5. ~ (CloneCommit \/ UploadRow \/ SweepBegin)
  BY DEF CloneCommit, UploadRow, SweepBegin
<1>6. (\E f \in Files : SweepFile(f)) \/ SweepEnd \/ Boot
        => UNCHANGED <<rows, trash, used, upload, clone, view, purge>>
  BY DEF SweepFile, SweepEnd, Boot, BootBegin, BootFile, BootEnd
<1>7. UNCHANGED vars => UNCHANGED <<rows, trash, used, upload, clone, view, purge>>
  BY DEF vars
<1> QED
  BY <1>1, <1>2, <1>3, <1>4, <1>5, <1>6, <1>7 DEF Next

\* How the server moves on.
LEMMA PhaseForms ==
  ASSUME TypeOK, [Next]_vars
  PROVE  \/ UNCHANGED <<phase, list>>
         \/ SweepBegin \/ SweepEnd \/ Crash \/ BootBegin \/ BootEnd
         \/ \E f \in Files : SweepFile(f)
         \/ \E p \in Paths : BootFile(p)
<1>1. (\E x \in Purges : PurgeStep(x)) => UNCHANGED <<phase, list>>
  BY PurgeForms
<1>2. ASSUME NEW a \in Assets, SoftDelete(a) \/ RestoreAsset(a) \/ CloneRead(a) \/ UploadWrite(a)
      PROVE  UNCHANGED <<phase, list>>
  BY <1>2 DEF SoftDelete, RestoreAsset, CloneRead, UploadWrite
<1>3. CloneCommit \/ UploadRow => UNCHANGED <<phase, list>>
  BY DEF CloneCommit, UploadRow
<1>4. ASSUME NEW p \in Paths, ViewMissing(p) \/ ViewRestore(p)
      PROVE  UNCHANGED <<phase, list>>
  BY <1>4 DEF ViewMissing, ViewRestore
<1>5. ASSUME NEW x \in Purges, NEW t \in {"trash"} \cup Assets, PurgeTargets(x, t)
      PROVE  UNCHANGED <<phase, list>>
  BY <1>5 DEF PurgeTargets
<1>6. UNCHANGED vars => UNCHANGED <<phase, list>>
  BY DEF vars
<1> QED
  BY <1>1, <1>2, <1>3, <1>4, <1>5, <1>6 DEF Next, Boot

\* Only a purge that stages a file puts it under its quarantine name.
LEMMA StagedAppears ==
  ASSUME TypeOK, [Next]_vars, NEW p, Staged(p) \in disk' \ disk
  PROVE  \E x \in Purges :
           /\ StageRename(x) /\ phase = "ready" /\ purge[x].at = "decide"
           /\ purge[x].path = p /\ UNCHANGED rows
<1>1. \A q : File(q) # Staged(p) /\ (Staged(q) = Staged(p) => q = p)
  BY DEF File, Staged
<1> QED
  BY <1>1, DiskForms

LEMMA QuietKept ==
  ASSUME TypeOK, Quiet, [Next]_vars
  PROVE  Quiet'
<1>1. CASE Crash
  BY <1>1 DEF Crash, Quiet, Idle
<1>2. CASE phase # "ready" /\ ~ Crash
  BY <1>2, ReadyForms DEF Quiet
<1>3. CASE phase = "ready" /\ ~ Crash
  <2>1. phase' = "ready" \/ SweepBegin
    BY <1>3, PhaseForms DEF SweepEnd, BootBegin, BootEnd, BootFile, SweepFile
  <2>2. SweepBegin => Quiet'
    BY DEF SweepBegin, SharedDrained, Quiet
  <2> QED
    BY <2>1, <2>2 DEF Quiet
<1> QED
  BY <1>1, <1>2, <1>3

LEMMA ListedKept ==
  ASSUME TypeOK, Listed, [Next]_vars
  PROVE  Listed'
<1> SUFFICES ASSUME phase' = "boot", NEW q \in Paths, Staged(q) \in disk'
             PROVE  Staged(q) \in list'
  BY DEF Listed
<1>1. CASE UNCHANGED <<phase, list>>
  <2>1. phase = "boot"
    BY <1>1
  <2>2. Staged(q) \in disk
    BY <2>1, StagedAppears
  <2> QED
    BY <1>1, <2>1, <2>2 DEF Listed
<1>2. CASE BootBegin
  BY <1>2 DEF BootBegin
<1>3. ASSUME NEW p \in Paths, BootFile(p)
      PROVE  Staged(q) \in list'
  <2>1. /\ phase = "boot" /\ list' = list \ {Staged(p)}
        /\ \/ disk' = (disk \ {Staged(p)}) \cup {File(p)}
           \/ disk' = disk \ {Staged(p)}
    <3>1. CASE Referenced(p)
      BY <1>3, <3>1, Zenon DEF BootFile, RollBack, Native
    <3>2. CASE ~ Referenced(p)
      BY <1>3, <3>2, Zenon DEF BootFile, Native, Removed
    <3> QED
      BY <3>1, <3>2
  <2>2. Staged(q) \in disk /\ Staged(q) # Staged(p)
    BY <2>1 DEF File, Staged
  <2> QED
    BY <2>1, <2>2 DEF Listed
<1>4. ~ (SweepBegin \/ SweepEnd \/ Crash \/ BootEnd \/ \E f \in Files : SweepFile(f))
  BY DEF SweepBegin, SweepEnd, Crash, BootEnd, SweepFile
<1> QED
  BY <1>1, <1>2, <1>3, <1>4, PhaseForms

\* What a purge stages is none of the upload's, nor of one to come.
LEMMA StagedIsOwn ==
  ASSUME TypeOK, Uploads, Targeted, NEW x \in Purges, purge[x].at = "decide",
         NEW a \in Assets \ (Clones \cup Seeded), a \notin used \/ a = upload
  PROVE  PathOf[a] # purge[x].path
<1>1. purge[x].path \in Of(purge[x].ids) /\ purge[x].ids \subseteq used \ {upload}
  BY DEF Targeted, Claims, Touched
<1> QED
  BY <1>1, UploadPathsAreFresh DEF Of, TypeOK

LEMMA UploadsKept ==
  ASSUME TypeOK, Uploads, Targeted, Quiet, [Next]_vars
  PROVE  Uploads'
<1>1. rows' \cup Seeded \subseteq used'
  BY IdentityForms DEF Uploads, Crash
<1>2. used \subseteq used'
  BY IdentityForms DEF Crash
<1>3. ASSUME NEW a \in Assets \ (Clones \cup used')
      PROVE  Staged(PathOf[a]) \notin disk'
  <2>1. a \in Assets \ (Clones \cup Seeded) /\ a \notin used /\ Staged(PathOf[a]) \notin disk
    BY <1>2 DEF Uploads
  <2> QED
    BY <2>1, StagedAppears, StagedIsOwn
<1>4. ASSUME upload' # None
      PROVE  /\ upload' \in used' \ (rows' \cup Clones \cup Seeded)
             /\ File(PathOf[upload']) \in disk' /\ Staged(PathOf[upload']) \notin disk'
  <2>1. CASE upload' = upload
    <3>1. /\ upload \in Assets \ (Clones \cup Seeded) /\ upload \in used /\ upload \notin rows
          /\ File(PathOf[upload]) \in disk /\ Staged(PathOf[upload]) \notin disk
      BY <1>4, <2>1 DEF Uploads, TypeOK
    <3>2. upload \notin rows'
      BY <1>4, <2>1, <3>1, IdentityForms DEF Uploads, Crash
    <3>3. phase = "ready"
      BY <1>4, <2>1 DEF Quiet
    <3>4. File(PathOf[upload]) \in disk' /\ Staged(PathOf[upload]) \notin disk'
      BY <1>4, <2>1, <3>1, <3>3, DiskForms, StagedIsOwn DEF File, Staged
    <3> QED
      BY <1>2, <2>1, <3>1, <3>2, <3>4
  <2>2. ASSUME NEW a \in Assets \ (Clones \cup used), UploadWrite(a), upload' = a,
               used' = used \cup {a}, UNCHANGED rows
        PROVE  /\ upload' \in used' \ (rows' \cup Clones \cup Seeded)
               /\ File(PathOf[upload']) \in disk' /\ Staged(PathOf[upload']) \notin disk'
    <3>1. disk' = disk \cup {File(PathOf[a])}
      BY <1>4, <2>2, Zenon DEF UploadWrite, Native
    <3> QED
      BY <2>2, <3>1 DEF Uploads, File, Staged
  <2> QED
    BY <1>4, <2>1, <2>2, IdentityForms DEF Crash
<1>5. clone' # None => clone' \in Clones \ used'
  BY IdentityForms DEF Uploads, Crash
<1>6. view' \subseteq Samples
  <2>1. view' \subseteq view \/ \E p \in Samples : view' = view \cup {p}
    <3>1. ASSUME NEW a \in Assets, SoftDelete(a) \/ RestoreAsset(a) \/ CloneRead(a) \/ UploadWrite(a)
          PROVE  UNCHANGED view
      BY <3>1 DEF SoftDelete, RestoreAsset, CloneRead, UploadWrite
    <3>2. ASSUME NEW p \in Paths, ViewMissing(p) \/ ViewRestore(p)
          PROVE  view' \subseteq view \/ \E r \in Samples : view' = view \cup {r}
      BY <3>2 DEF ViewMissing, ViewRestore
    <3>3. CloneCommit \/ UploadRow \/ SweepBegin \/ UNCHANGED vars => UNCHANGED view
      BY DEF CloneCommit, UploadRow, SweepBegin, vars
    <3>4. ASSUME NEW x \in Purges, NEW t \in {"trash"} \cup Assets, PurgeTargets(x, t)
          PROVE  UNCHANGED view
      BY <3>4 DEF PurgeTargets
    <3>5. (\E f \in Files : SweepFile(f)) \/ SweepEnd \/ Boot => UNCHANGED view
      BY DEF SweepFile, SweepEnd, Boot, BootBegin, BootFile, BootEnd
    <3>6. Crash => view' = {}
      BY DEF Crash
    <3> QED
      BY <3>1, <3>2, <3>3, <3>4, <3>5, <3>6, PurgeForms DEF Next
  <2> QED
    BY <2>1 DEF Uploads
<1> QED
  BY <1>1, <1>3, <1>4, <1>5, <1>6 DEF Uploads

LEMMA SingleKept ==
  ASSUME TypeOK, Uploads, Single, [Next]_vars
  PROVE  Single'
<1> SUFFICES ASSUME NEW p \in Paths \ Samples, File(p) \in disk', Staged(p) \in disk'
             PROVE  FALSE
  BY DEF Single
<1>1. CASE Staged(p) \notin disk
  <2>1. PICK x \in Purges : StageRename(x) /\ purge[x].path = p
    BY <1>1, StagedAppears
  <2>2. disk' = (disk \ {File(p)}) \cup {Staged(p)}
    BY <1>1, <2>1, Zenon DEF StageRename, Native
  <2> QED
    BY <2>2 DEF File, Staged
<1>2. CASE Staged(p) \in disk
  <2>1. File(p) \notin disk
    BY <1>2 DEF Single
  <2>2. \A q : (File(q) = File(p) => q = p) /\ (Staged(q) = Staged(p) => q = p) /\ File(p) # Staged(q)
    BY DEF File, Staged
  <2>3. p \notin view /\ \A a \in Assets \ (Clones \cup used) : PathOf[a] # p
    BY <1>2 DEF Uploads
  <2> QED
    BY <1>2, <2>1, <2>2, <2>3, DiskForms
<1> QED
  BY <1>1, <1>2

\* During a sweep no file appears.
LEMMA SweepOnlyRemoves ==
  ASSUME TypeOK, [Next]_vars, phase = "sweep"
  PROVE  disk' \subseteq disk
BY DiskForms

\* One file of the repair is done, or ends the attempt.
LEMMA BootFileForms ==
  ASSUME NEW p \in Paths, BootFile(p)
  PROVE  phase = "boot" /\ phase' \in {"boot", "down"}
<1>1. CASE Referenced(p)
  BY <1>1, Zenon DEF BootFile, RollBack, Native
<1>2. CASE ~ Referenced(p)
  BY <1>2, Zenon DEF BootFile, Native
<1> QED
  BY <1>1, <1>2

LEMMA WholeKept ==
  ASSUME TypeOK, Whole, [Next]_vars
  PROVE  Whole'
<1> SUFFICES ASSUME SweepsWhenWhole, phase' = "sweep", NEW a \in rows'
             PROVE  Staged(PathOf[a]) \notin disk'
  BY DEF Whole, Quarantined
<1>1. CASE SweepBegin
  BY <1>1 DEF SweepBegin, Quarantined
<1>2. CASE phase = "sweep"
  BY <1>2, ReadyForms, SweepOnlyRemoves DEF Whole, Quarantined, Crash
<1>3. phase = "sweep" \/ SweepBegin
  BY PhaseForms, BootFileForms DEF SweepEnd, Crash, BootBegin, BootEnd, SweepFile
<1> QED
  BY <1>1, <1>2, <1>3

\* A row whose bytes are in the profile, under either name, keeps them, unless
\* the sweep takes the quarantined file.
LEMMA BytesStay ==
  ASSUME TypeOK, Uploads, Targeted, Quiet, [Next]_vars,
         NEW a \in rows, PathOf[a] \notin Samples,
         File(PathOf[a]) \in disk \/ Staged(PathOf[a]) \in disk,
         phase = "sweep" => Staged(PathOf[a]) \notin disk
  PROVE  File(PathOf[a]) \in disk' \/ Staged(PathOf[a]) \in disk'
<1> DEFINE p == PathOf[a]
<1>1. \A q : /\ File(q) = File(p) => q = p
             /\ Staged(q) = Staged(p) => q = p
             /\ File(q) # Staged(p) /\ File(p) # Staged(q)
  BY DEF File, Staged
<1>2. upload # None => PathOf[upload] # p
  BY UploadPathsAreFresh DEF Uploads, TypeOK
<1>3. \A x \in Purges : purge[x].at = "commit" => p \notin purge[x].paths
  BY DEF Targeted, Claims, Touched
<1>4. p \in UsedPaths /\ File(p) \in Owned
  BY DEF UsedPaths, Of, Owned
<1> HIDE DEF p
<1>5. File(p) \in disk' \/ Staged(p) \in disk'
  <2>1. CASE disk' = disk
    BY <2>1 DEF p
  <2>2. CASE \E b \in Assets : disk' = disk \cup {File(PathOf[b])}
    BY <2>2 DEF p
  <2>3. CASE upload # None /\ disk' = disk \ {File(PathOf[upload])}
    BY <1>1, <1>2, <2>3 DEF p
  <2>4. CASE \E q \in view : disk' = disk \cup {File(q)}
    BY <2>4 DEF p
  <2>5. CASE \E x \in Purges :
                disk' = (disk \ {File(purge[x].path)}) \cup {Staged(purge[x].path)}
    BY <1>1, <2>5 DEF p
  <2>6. CASE \E q \in Paths : disk' = (disk \ {Staged(q)}) \cup {File(q)}
    BY <1>1, <2>6 DEF p
  <2>7. CASE \E x \in Purges : \E q \in purge[x].paths :
                purge[x].at = "commit" /\ disk' = disk \ {Staged(q)}
    BY <1>1, <1>3, <2>7 DEF p
  <2>8. CASE \E q \in Paths \ UsedPaths : disk' = disk \ {Staged(q)}
    BY <1>1, <1>4, <2>8 DEF p
  <2>9. CASE \E f \in Files \ Owned : phase = "sweep" /\ disk' = disk \ {f}
    BY <1>1, <1>4, <2>9 DEF p
  <2> QED
    BY <2>1, <2>2, <2>3, <2>4, <2>5, <2>6, <2>7, <2>8, <2>9, DiskForms
<1> QED
  BY <1>5 DEF p

\* A row comes with its bytes.
LEMMA BytesCome ==
  ASSUME TypeOK, Uploads, [Next]_vars, NEW a \in rows' \ rows
  PROVE  \/ PathOf[a] \in Samples
         \/ File(PathOf[a]) \in disk' /\ Staged(PathOf[a]) \notin disk'
<1>1. \/ clone # None /\ a = clone
      \/ upload # None /\ a = upload /\ disk' = disk
  BY IdentityForms DEF Crash
<1> QED
  BY <1>1, TemplatesAreBundled DEF Uploads

LEMMA KeptKept ==
  ASSUME TypeOK, Uploads, Targeted, Quiet, Whole, Kept, [Next]_vars
  PROVE  Kept'
<1> SUFFICES ASSUME SweepsWhenWhole, NEW a \in rows', PathOf[a] \notin Samples
             PROVE  File(PathOf[a]) \in disk' \/ Staged(PathOf[a]) \in disk'
  BY DEF Kept, RowsKeepTheirBytes, Quarantined
<1>1. CASE a \notin rows
  BY <1>1, BytesCome
<1>2. CASE a \in rows
  <2>1. File(PathOf[a]) \in disk \/ Staged(PathOf[a]) \in disk
    BY <1>2 DEF Kept, RowsKeepTheirBytes, Quarantined
  <2>2. phase = "sweep" => Staged(PathOf[a]) \notin disk
    BY <1>2 DEF Whole, Quarantined
  <2> QED
    BY <1>2, <2>1, <2>2, BytesStay
<1> QED
  BY <1>1, <1>2

\* While no call fails, who holds a quarantined file goes on holding it until
\* the file is back or its row is gone.
LEMMA HoldsOn ==
  ASSUME TypeOK, Targeted, Single, NEW x \in Purges, PurgeStep(x), UNCHANGED faults,
         NEW p \in Paths \ Samples, Holds(purge[x], p),
         Staged(p) \in disk, Staged(p) \in disk', p \in Of(rows')
  PROVE  Holds(purge'[x], p)
<1> USE DEF Set, At
<1>1. purge \in [Purges -> Requests] /\ purge[x] \in Requests
  BY DEF TypeOK
<1>2. File(p) \notin disk
  BY DEF Single
<1>3. ~ Fault
  BY DEF Fault, TypeOK
<1>4. ASSUME NEW r, purge' = [purge EXCEPT ![x] = r]
      PROVE  purge'[x] = r
  BY <1>1, <1>4
<1>5. CASE StageBegin(x)
  <2>1. purge[x].at = "stage" /\ p \in purge[x].stages
    BY <1>5 DEF StageBegin, Holds
  <2>2. \/ \E q \in purge[x].paths :
             purge'[x] = [purge[x] EXCEPT !.at = "look", !.path = q, !.paths = @ \ {q}]
        \/ purge'[x] = [purge[x] EXCEPT !.at = "delete"]
    BY <1>4, <1>5 DEF StageBegin
  <2>3. CASE purge'[x] = [purge[x] EXCEPT !.at = "delete"]
    BY <1>1, <2>1, <2>3 DEF Requests, Holds
  <2>4. ASSUME NEW q, purge'[x] = [purge[x] EXCEPT !.at = "look", !.path = q, !.paths = @ \ {q}]
        PROVE  Holds(purge'[x], p)
    BY <1>1, <2>1, <2>4 DEF Requests, Holds
  <2> QED
    BY <2>2, <2>3, <2>4
<1>6. CASE StageLook(x)
  <2>1. purge[x].at = "look" /\ p \in purge[x].stages
    BY <1>6 DEF StageLook, Holds
  <2>2. /\ purge'[x].stages = purge[x].stages
        /\ purge'[x].at \in {"look", "decide"}
    BY <1>1, <1>6 DEF StageLook, Requests
  <2> QED
    BY <2>1, <2>2 DEF Holds
<1>7. CASE StageRename(x)
  <2>1. purge[x].at = "decide" /\ p \in purge[x].stages
    BY <1>7 DEF StageRename, Holds
  <2>2. \/ purge' = [purge EXCEPT ![x] = StageFailed(x)]
        \/ purge' = [purge EXCEPT ![x] = StageDone(x, {})]
        \/ purge' = [purge EXCEPT ![x] = StageDone(x, {purge[x].path})]
    BY <1>7 DEF StageRename, Native
  <2>3. ASSUME NEW r, r = StageFailed(x)
        PROVE  r.at = "undo" /\ p \in r.paths
    BY <1>1, <2>1, <2>3 DEF StageFailed, StageClosed, Requests
  <2>4. ASSUME NEW S, NEW r, r = StageDone(x, S)
        PROVE  r.at = "stage" /\ p \in r.stages
    BY <1>1, <2>1, <2>4 DEF StageDone, StageClosed, Requests
  <2> QED
    BY <1>4, <2>2, <2>3, <2>4 DEF Holds
<1>8. CASE PurgeDelete(x)
  <2>1. purge[x].at = "delete" /\ p \in purge[x].stages
    BY <1>8 DEF PurgeDelete, Holds
  <2>2. p \notin Of(rows \ purge[x].ids)
    BY <2>1 DEF Targeted, Claims, Touched, Of
  <2>3. rows' # rows \ purge[x].ids
    BY <2>2
  <2> QED
    BY <1>3, <1>8, <2>3 DEF PurgeDelete
<1>9. CASE PurgeUndo(x)
  <2>1. purge[x].at = "undo" /\ p \in purge[x].paths
    BY <1>9 DEF PurgeUndo, Holds
  <2>2. PICK q \in purge[x].paths :
          LET left == [purge[x] EXCEPT !.paths = @ \ {q}]
          IN RollBack(q, Set(x, left), Set(x, [left EXCEPT !.failed = TRUE]))
    BY <1>9 DEF PurgeUndo
  <2>3. CASE q = p
    <3>1. disk' = (disk \ {Staged(p)}) \cup {File(p)}
      BY <1>2, <1>3, <2>2, <2>3, Zenon DEF RollBack, Native
    <3> QED
      BY <3>1 DEF File, Staged
  <2>4. CASE q # p
    <3>1. \/ purge' = [purge EXCEPT ![x] = [purge[x] EXCEPT !.paths = @ \ {q}]]
          \/ purge' = [purge EXCEPT ![x] =
                         [[purge[x] EXCEPT !.paths = @ \ {q}] EXCEPT !.failed = TRUE]]
      BY <2>2, Zenon DEF RollBack, Native
    <3>2. ASSUME NEW r, r = [purge[x] EXCEPT !.paths = @ \ {q}]
          PROVE  r.at = "undo" /\ p \in r.paths
      BY <1>1, <2>1, <2>4, <3>2 DEF Requests
    <3>3. ASSUME NEW r, r = [[purge[x] EXCEPT !.paths = @ \ {q}] EXCEPT !.failed = TRUE]
          PROVE  r.at = "undo" /\ p \in r.paths
      BY <1>1, <2>1, <2>4, <3>3 DEF Requests
    <3> QED
      BY <1>4, <3>1, <3>2, <3>3 DEF Holds
  <2> QED
    BY <2>3, <2>4
<1>10. ~ (PurgeSurvivors(x) \/ PurgeUndone(x) \/ PurgeCommit(x) \/ PurgeDone(x))
  BY DEF PurgeSurvivors, PurgeUndone, PurgeCommit, PurgeDone, Holds
<1> QED
  BY <1>5, <1>6, <1>7, <1>8, <1>9, <1>10 DEF PurgeStep

\* Who stages a file holds it.
LEMMA StagerHolds ==
  ASSUME TypeOK, NEW x \in Purges, StageRename(x), UNCHANGED faults, disk' # disk
  PROVE  Holds(purge'[x], purge[x].path)
<1>1. purge \in [Purges -> Requests] /\ purge[x] \in Requests
  BY DEF TypeOK
<1>2. ~ Fault
  BY DEF Fault, TypeOK
<1>3. purge' = [purge EXCEPT ![x] = StageDone(x, {purge[x].path})]
  BY <1>2, Zenon DEF StageRename, Native, Set
<1>4. ASSUME NEW r, r = StageDone(x, {purge[x].path})
      PROVE  r.at = "stage" /\ purge[x].path \in r.stages
  BY <1>1, <1>4 DEF StageDone, StageClosed, Requests
<1> QED
  BY <1>1, <1>3, <1>4 DEF Holds

LEMMA HeldKept ==
  ASSUME TypeOK, Uploads, Targeted, Listed, Single, Held, [Next]_vars
  PROVE  Held'
<1> SUFFICES ASSUME phase' \in {"ready", "sweep"}, faults' = 0, NEW a \in rows',
                    Staged(PathOf[a]) \in disk', PathOf[a] \notin Samples
             PROVE  \E x \in Purges : Holds(purge'[x], PathOf[a])
  BY DEF Held, Quarantined, Holds
<1>1. UNCHANGED faults /\ faults = 0
  BY FaultForms DEF Fault, TypeOK
<1>2. a \in rows
  BY BytesCome
<1>3. PathOf[a] \in Paths \ Samples
  BY <1>2, AssetsAssumption DEF TypeOK
<1>4. phase \in {"ready", "sweep"}
  <2>1. CASE BootEnd
    <3>1. phase = "boot" /\ list = {} /\ disk' = disk
      BY <2>1 DEF BootEnd
    <3> QED
      BY <1>3, <3>1 DEF Listed
  <2>2. CASE UNCHANGED phase \/ SweepBegin \/ SweepEnd \/ \E f \in Files : SweepFile(f)
    BY <2>2 DEF SweepBegin, SweepEnd, SweepFile
  <2>3. ~ (Crash \/ BootBegin \/ \E p \in Paths : BootFile(p))
    BY BootFileForms DEF Crash, BootBegin
  <2> QED
    BY <2>1, <2>2, <2>3, PhaseForms
<1>5. CASE Staged(PathOf[a]) \notin disk
  <2>1. PICK x \in Purges : StageRename(x) /\ purge[x].path = PathOf[a]
    BY <1>5, StagedAppears
  <2> QED
    BY <1>1, <1>5, <2>1, StagerHolds
<1>6. CASE Staged(PathOf[a]) \in disk
  <2>1. PICK x \in Purges : Holds(purge[x], PathOf[a])
    BY <1>1, <1>2, <1>3, <1>4, <1>6 DEF Held, Quarantined
  <2>2. CASE purge'[x] = purge[x]
    BY <2>1, <2>2
  <2>3. CASE PurgeStep(x)
    <3>1. PathOf[a] \in Of(rows')
      BY DEF Of
    <3> QED
      BY <1>1, <1>3, <1>6, <2>1, <2>3, <3>1, HoldsOn
  <2>4. ~ \E t \in {"trash"} \cup Assets : PurgeTargets(x, t)
    BY <2>1, TargetForms DEF Holds
  <2>5. ASSUME NEW y \in Purges \ {x},
               PurgeStep(y) \/ \E t \in {"trash"} \cup Assets : PurgeTargets(y, t)
        PROVE  purge'[x] = purge[x]
    BY <2>5, PurgeForms, TargetForms
  <2>6. ~ Crash
    BY DEF Crash
  <2> QED
    BY <2>2, <2>3, <2>4, <2>5, <2>6, PurgeMoves
<1> QED
  BY <1>5, <1>6

-----------------------------------------------------------------------------
(* Theorems.                                                               *)

LEMMA InitHolds == Init => IInv
<1> SUFFICES ASSUME Init PROVE IInv
  OBVIOUS
<1> USE DEF Init
<1>1. TypeOK
  <2>1. Idle \in Requests
    BY DEF Idle, Requests
  <2>2. disk \subseteq Files
    BY AssetsAssumption DEF Files, File
  <2> QED
    BY <2>1, <2>2, AssetsAssumption DEF TypeOK, Phases
<1>2. \A p : Staged(p) \notin disk
  BY DEF File, Staged
<1>3. Uploads
  BY <1>2 DEF Uploads
<1>4. Targeted
  BY DEF Targeted, Claims, Touched, Idle
<1>5. Quiet
  BY DEF Quiet, Idle
<1>6. Listed /\ Single /\ Held /\ Whole
  BY <1>2 DEF Listed, Single, Held, Whole, Quarantined
<1>7. Kept
  BY DEF Kept, RowsKeepTheirBytes
<1> QED
  BY <1>1, <1>3, <1>4, <1>5, <1>6, <1>7 DEF IInv

LEMMA NextHolds == IInv /\ [Next]_vars => IInv'
<1> SUFFICES ASSUME IInv, [Next]_vars PROVE IInv'
  OBVIOUS
<1>1. /\ TypeOK /\ Uploads /\ Targeted /\ Quiet /\ Listed /\ Single /\ Held /\ Whole /\ Kept
  BY DEF IInv
<1>2. TypeOK' /\ Uploads' /\ Targeted'
  BY <1>1, TypeKept, UploadsKept, TargetedKept
<1>3. Quiet' /\ Listed' /\ Single'
  BY <1>1, QuietKept, ListedKept, SingleKept
<1>4. Held' /\ Whole' /\ Kept'
  BY <1>1, HeldKept, WholeKept, KeptKept
<1> QED
  BY <1>2, <1>3, <1>4 DEF IInv

\* The parts of the invariant hold together in every reachable state.
THEOREM InductiveInvariant == Spec => []IInv
BY InitHolds, NextHolds, PTL DEF Spec

\* No row ever loses its bytes, whatever purges, uploads, clones, reads, the
\* start-up repair and crashes do to one another, if no sweep begins while a
\* row's file is quarantined.
THEOREM BytesAreNeverLost ==
  ASSUME SweepsWhenWhole
  PROVE  Spec => []RowsKeepTheirBytes
<1>1. IInv => RowsKeepTheirBytes
  BY DEF IInv, Kept
<1> QED
  BY <1>1, InductiveInvariant, PTL

\* Without that condition the sweep is the only step that takes a row's bytes,
\* and it takes a quarantined file.
OnlyTheSweepTakes ==
  [][\A a \in rows \cap rows' :
       /\ PathOf[a] \notin Samples
       /\ File(PathOf[a]) \in disk \/ Quarantined(a)
       => \/ File(PathOf[a]) \in disk' \/ Quarantined(a)'
          \/ phase = "sweep" /\ Quarantined(a)]_vars

\* Whatever the sweep may do, no purge, upload, clone, repair or crash takes the
\* bytes of a row.
THEOREM OnlyTheSweepLoses == Spec => OnlyTheSweepTakes
<1> DEFINE Takes ==
      \A a \in rows \cap rows' :
        /\ PathOf[a] \notin Samples
        /\ File(PathOf[a]) \in disk \/ Quarantined(a)
        => \/ File(PathOf[a]) \in disk' \/ Quarantined(a)'
           \/ phase = "sweep" /\ Quarantined(a)
<1>1. IInv /\ [Next]_vars => Takes
  <2> SUFFICES ASSUME IInv, [Next]_vars, NEW a \in rows, PathOf[a] \notin Samples,
                      File(PathOf[a]) \in disk \/ Staged(PathOf[a]) \in disk,
                      phase = "sweep" => Staged(PathOf[a]) \notin disk
               PROVE  File(PathOf[a]) \in disk' \/ Staged(PathOf[a]) \in disk'
    BY DEF Quarantined
  <2>1. TypeOK /\ Uploads /\ Targeted /\ Quiet
    BY DEF IInv
  <2> QED
    BY <2>1, BytesStay
<1> QED
  BY <1>1, InductiveInvariant, PTL DEF Spec, OnlyTheSweepTakes

\* Every row has its bytes, and one whose file is quarantined has a purge that
\* will put it back or delete the row, until a call fails or the server stops.
THEOREM FilesStayAccountedFor ==
  ASSUME SweepsWhenWhole
  PROVE  Spec => []FilesAreAccountedFor
<1>1. IInv => QuarantineIsExplained
  <2> SUFFICES ASSUME IInv, NEW a \in rows, Quarantined(a), PathOf[a] \notin Samples,
                      phase \notin {"down", "boot"}, ~ (faults > 0)
               PROVE  \E x \in Purges : purge[x].at # "idle" /\ PathOf[a] \in Of(purge[x].ids)
    BY DEF QuarantineIsExplained
  <2>1. faults = 0 /\ phase \in {"ready", "sweep"}
    BY DEF IInv, TypeOK, Phases
  <2>2. PICK x \in Purges : Holds(purge[x], PathOf[a])
    BY <2>1 DEF IInv, Held
  <2>3. purge[x].at # "idle" /\ PathOf[a] \in Touched(purge[x])
    BY <2>2 DEF Holds, Touched
  <2> QED
    BY <2>3 DEF IInv, Targeted, Claims
<1>2. IInv => FilesAreAccountedFor
  BY <1>1 DEF IInv, Kept, FilesAreAccountedFor
<1> QED
  BY <1>2, InductiveInvariant, PTL

LEMMA RepairStep ==
  ASSUME SweepsWhenWhole, IInv, [Next]_vars, phase = "boot", phase' = "ready"
  PROVE  /\ \A p \in Paths : Staged(p) \notin disk'
         /\ \A a \in rows' : File(PathOf[a]) \in disk' \/ PathOf[a] \in Samples
<1>1. BootEnd
  BY PhaseForms, BootFileForms DEF IInv, SweepBegin, SweepEnd, Crash, BootBegin, SweepFile
<1>2. list = {} /\ UNCHANGED <<disk, rows>>
  BY <1>1 DEF BootEnd
<1>3. \A p \in Paths : Staged(p) \notin disk
  BY <1>2 DEF IInv, Listed
<1>4. \A a \in rows : PathOf[a] \in Paths
  BY AssetsAssumption DEF IInv, TypeOK
<1> QED
  BY <1>2, <1>3, <1>4 DEF IInv, Kept, RowsKeepTheirBytes, Quarantined

\* A start, after whatever crash, brings every row's file back to its path and
\* leaves nothing in quarantine.
THEOREM StartsRepair ==
  ASSUME SweepsWhenWhole
  PROVE  Spec => StartRepairs
<1>1. IInv /\ [Next]_vars =>
        (phase = "boot" /\ phase' = "ready" =>
          /\ \A p \in Paths : Staged(p) \notin disk'
          /\ \A a \in rows' : File(PathOf[a]) \in disk' \/ PathOf[a] \in Samples)
  BY RepairStep
<1> QED
  BY <1>1, InductiveInvariant, PTL DEF Spec, StartRepairs

-----------------------------------------------------------------------------
(* What a purge answers, when it is the only one.                          *)

Freeing == {"stage", "look", "decide", "delete", "commit"}

\* The paths of the targets that no other row names and no bundle holds.
Doomed(q) == Of(q.ids) \ (Samples \cup Of(rows \ q.ids))

\* What a purge has seen missing is missing still.
Looks(q) ==
  /\ q.at \in {"survivors", "stage"} => q.looked = {}
  /\ q.at = "decide" => q.looked = {"file", "staged"}
  /\ q.at \in {"look", "decide"} /\ q.path \notin Samples =>
       \A n \in q.looked \ q.saw : <<q.path, n>> \notin disk

\* A doomed path is still to be staged, or is staged, or has no file.
Frees(q) ==
  q.at \in Freeing =>
    \A p \in Doomed(q) :
      \/ p \in q.paths /\ q.at \in {"stage", "look", "decide"}
      \/ p = q.path /\ q.at \in {"look", "decide"}
      \/ /\ File(p) \notin disk
         /\ Staged(p) \in disk =>
              (q.at = "commit" /\ p \in q.paths) \/ (q.at # "commit" /\ p \in q.stages)

\* The undo has put back what it no longer has before it.
PutsBack(q) ==
  /\ q.error # "none" => q.at = "undo"
  /\ q.error = "rows" /\ ~ q.failed => \A p \in q.stages \ q.paths : File(p) \in disk

Alone(x) == Looks(purge[x]) /\ Frees(purge[x]) /\ PutsBack(purge[x])

\* While a lone purge stands still, nobody gives its paths a file or takes one.
LEMMA OthersLeave ==
  ASSUME IInv, [Next]_vars, NEW x \in Purges, Purges = {x}, ~ PurgeStep(x),
         purge[x].at # "idle", NEW p \in Of(purge[x].ids)
  PROVE  /\ File(p) \in disk => File(p) \in disk'
         /\ p \notin Samples => disk' \cap {File(p), Staged(p)} \subseteq disk
<1>1. TypeOK /\ phase = "ready" /\ Uploads /\ Claims(purge[x])
  BY DEF IInv, Quiet, Targeted
<1>2. \A q : /\ File(q) = File(p) => q = p
             /\ Staged(q) = Staged(p) => q = p
             /\ File(q) # Staged(p) /\ File(p) # Staged(q)
  BY DEF File, Staged
<1>3. ASSUME NEW a \in Assets \ (Clones \cup Seeded), a \notin purge[x].ids
      PROVE  PathOf[a] # p
  BY <1>1, <1>3, UploadPathsAreFresh DEF Of, Claims, TypeOK
<1>4. ASSUME NEW a \in Assets \ (Clones \cup used)
      PROVE  PathOf[a] # p
  BY <1>1, <1>3 DEF Uploads, Claims
<1>5. upload # None => PathOf[upload] # p
  BY <1>1, <1>3 DEF Uploads, Claims, TypeOK
<1>6. ~ \E y \in Purges : StageRename(y) \/ PurgeUndo(y) \/ PurgeCommit(y)
  BY DEF PurgeStep
<1>7. \/ disk' = disk
      \/ \E a \in Assets \ (Clones \cup used) : disk' = disk \cup {File(PathOf[a])}
      \/ upload # None /\ disk' = disk \ {File(PathOf[upload])}
      \/ \E q \in Samples : disk' = disk \cup {File(q)}
  BY <1>1, <1>6, DiskForms DEF Uploads
<1> QED
  BY <1>2, <1>4, <1>5, <1>7

\* Without its own step a lone purge keeps what it knows.
LEMMA StandsStill ==
  ASSUME IInv, [Next]_vars, NEW x \in Purges, Purges = {x}, Alone(x), ~ PurgeStep(x)
  PROVE  Alone(x)'
<1>1. CASE purge'[x] = Idle
  BY <1>1 DEF Alone, Looks, Frees, PutsBack, Idle, Freeing
<1>2. ASSUME NEW t \in {"trash"} \cup Assets, PurgeTargets(x, t)
      PROVE  Alone(x)'
  <2>1. purge'[x] = [Idle EXCEPT !.at = "survivors", !.target = t, !.ids = Requested(t)]
    BY <1>2 DEF PurgeTargets, Set, IInv, TypeOK
  <2>2. purge'[x].at = "survivors" /\ purge'[x].looked = {} /\ purge'[x].error = "none"
    BY <2>1 DEF Idle
  <2> QED
    BY <2>2 DEF Alone, Looks, Frees, PutsBack, Freeing
<1>3. CASE purge' = purge /\ purge[x].at = "idle"
  BY <1>3 DEF Alone, Looks, Frees, PutsBack, Freeing
<1>4. CASE purge' = purge /\ purge[x].at # "idle"
  <2> DEFINE q == purge[x]
  <2>1. ASSUME NEW p \in Of(q.ids)
        PROVE  /\ File(p) \in disk => File(p) \in disk'
               /\ p \notin Samples => disk' \cap {File(p), Staged(p)} \subseteq disk
    BY <1>4, <2>1, OthersLeave
  <2>2. Touched(q) \subseteq Of(q.ids)
    BY DEF IInv, Targeted, Claims
  <2>3. Looks(q)'
    <3>1. ASSUME q.at \in {"look", "decide"}, q.path \notin Samples,
                 NEW n \in q.looked \ q.saw
          PROVE  <<q.path, n>> \notin disk'
      <4>1. q.path \in Of(q.ids) /\ <<q.path, n>> \notin disk
        BY <2>2, <3>1 DEF Alone, Looks, Touched
      <4>2. n \in {"file", "staged"}
        BY DEF IInv, TypeOK, Requests
      <4> QED
        BY <2>1, <3>1, <4>1, <4>2 DEF File, Staged
    <3> QED
      BY <1>4, <3>1 DEF Alone, Looks
  <2>4. Frees(q)'
    <3>1. rows \ q.ids \subseteq rows' \ q.ids
      <4>1. ~ \E y \in Purges : PurgeDelete(y)
        BY DEF PurgeStep
      <4> QED
        BY <4>1, IdentityForms DEF IInv, Crash
    <3>2. Doomed(q)' \subseteq Doomed(q)
      BY <1>4, <3>1 DEF Doomed, Of
    <3>3. ASSUME NEW p \in Doomed(q)
          PROVE  disk' \cap {File(p), Staged(p)} \subseteq disk
      BY <2>1, <3>3 DEF Doomed
    <3> QED
      BY <1>4, <3>2, <3>3 DEF Alone, Frees
  <2>5. PutsBack(q)'
    BY <1>4, <2>1, <2>2 DEF Alone, PutsBack, Touched
  <2> QED
    BY <2>3, <2>4, <2>5 DEF Alone
<1>5. \/ purge' = purge \/ purge'[x] = Idle
      \/ \E t \in {"trash"} \cup Assets : PurgeTargets(x, t)
  BY PurgeMoves DEF Crash
<1> QED
  BY <1>1, <1>2, <1>3, <1>4, <1>5

\* The steps of a lone purge that do not move a file.
LEMMA LooksAtFiles ==
  ASSUME IInv, NEW x \in Purges, Alone(x),
         PurgeSurvivors(x) \/ StageBegin(x) \/ StageLook(x)
  PROVE  Alone(x)'
<1> DEFINE q == purge[x]
<1> USE DEF Set, At
<1>1. purge \in [Purges -> Requests] /\ q \in Requests
  BY DEF IInv, TypeOK
<1>2. UNCHANGED <<rows, disk>>
  BY DEF PurgeSurvivors, StageBegin, StageLook
<1>3. ASSUME NEW r, purge' = [purge EXCEPT ![x] = r]
      PROVE  purge'[x] = r
  BY <1>1, <1>3
<1>4. CASE PurgeSurvivors(x)
  <2>1. /\ q.at = "survivors"
        /\ purge'[x] = [q EXCEPT !.at = "stage", !.paths = PathsToDelete(q.ids)]
    BY <1>3, <1>4 DEF PurgeSurvivors
  <2>2. /\ purge'[x].at = "stage" /\ purge'[x].ids = q.ids /\ purge'[x].looked = q.looked
        /\ purge'[x].paths = PathsToDelete(q.ids) /\ purge'[x].error = q.error
    BY <1>1, <2>1 DEF Requests
  <2>3. Doomed(purge[x])' \subseteq PathsToDelete(q.ids)
    BY <1>2, <2>2 DEF Doomed, PathsToDelete, Of
  <2> QED
    BY <2>1, <2>2, <2>3 DEF Alone, Looks, Frees, PutsBack
<1>5. CASE StageBegin(x)
  <2>1. /\ q.at = "stage"
        /\ \/ \E p \in q.paths :
                purge'[x] = [q EXCEPT !.at = "look", !.path = p, !.paths = @ \ {p}]
           \/ q.paths = {} /\ purge'[x] = [q EXCEPT !.at = "delete"]
    BY <1>3, <1>5 DEF StageBegin
  <2>2. ASSUME NEW p \in q.paths,
               purge'[x] = [q EXCEPT !.at = "look", !.path = p, !.paths = @ \ {p}]
        PROVE  Alone(x)'
    <3>1. /\ purge'[x].at = "look" /\ purge'[x].ids = q.ids /\ purge'[x].looked = q.looked
          /\ purge'[x].paths = q.paths \ {p} /\ purge'[x].path = p
          /\ purge'[x].stages = q.stages /\ purge'[x].error = q.error
      BY <1>1, <2>2 DEF Requests
    <3>2. Doomed(purge[x])' = Doomed(q)
      BY <1>2, <3>1 DEF Doomed, Of
    <3>3. Looks(purge[x])' /\ PutsBack(purge[x])'
      BY <2>1, <3>1 DEF Alone, Looks, PutsBack
    <3>4. Frees(purge[x])'
      BY <1>2, <2>1, <3>1, <3>2 DEF Alone, Frees, Freeing
    <3> QED
      BY <3>3, <3>4 DEF Alone
  <2>3. CASE q.paths = {} /\ purge'[x] = [q EXCEPT !.at = "delete"]
    <3>1. /\ purge'[x].at = "delete" /\ purge'[x].ids = q.ids /\ purge'[x].paths = {}
          /\ purge'[x].stages = q.stages /\ purge'[x].error = q.error
      BY <1>1, <2>3 DEF Requests
    <3>2. Doomed(purge[x])' = Doomed(q)
      BY <1>2, <3>1 DEF Doomed, Of
    <3>3. Looks(purge[x])' /\ PutsBack(purge[x])'
      BY <2>1, <3>1 DEF Alone, Looks, PutsBack
    <3>4. Frees(purge[x])'
      BY <1>2, <2>1, <2>3, <3>1, <3>2 DEF Alone, Frees, Freeing
    <3> QED
      BY <3>3, <3>4 DEF Alone
  <2> QED
    BY <2>1, <2>2, <2>3
<1>6. CASE StageLook(x)
  <2>1. PICK n \in {"file", "staged"} \ q.looked :
          purge'[x] = [q EXCEPT
                 !.looked = @ \cup {n},
                 !.saw = IF <<q.path, n>> \in disk THEN @ \cup {n} ELSE @,
                 !.at = IF q.looked = {} THEN "look" ELSE "decide"]
    BY <1>3, <1>6 DEF StageLook
  <2>2. /\ purge'[x].looked = q.looked \cup {n}
        /\ purge'[x].saw = IF <<q.path, n>> \in disk THEN q.saw \cup {n} ELSE q.saw
        /\ purge'[x].at = IF q.looked = {} THEN "look" ELSE "decide"
        /\ purge'[x].ids = q.ids /\ purge'[x].paths = q.paths /\ purge'[x].path = q.path
        /\ purge'[x].stages = q.stages /\ purge'[x].error = q.error
    BY <1>1, <2>1 DEF Requests
  <2>3. q.at = "look" /\ q.looked \subseteq {"file", "staged"}
    BY <1>1, <1>6 DEF StageLook, Requests
  <2>4. Doomed(purge[x])' = Doomed(q)
    BY <1>2, <2>2 DEF Doomed, Of
  <2>5. Looks(purge[x])'
    BY <1>2, <2>2, <2>3 DEF Alone, Looks
  <2>6. Frees(purge[x])'
    BY <1>2, <2>2, <2>3, <2>4 DEF Alone, Frees, Freeing
  <2>7. PutsBack(purge[x])'
    BY <2>2, <2>3 DEF Alone, PutsBack
  <2> QED
    BY <2>5, <2>6, <2>7 DEF Alone
<1> QED
  BY <1>4, <1>5, <1>6

\* Two names are two files.
LEMMA NamesDiffer ==
  ASSUME NEW p, NEW q
  PROVE  /\ File(p) # Staged(q)
         /\ File(p) = File(q) <=> p = q
         /\ Staged(p) = Staged(q) <=> p = q
BY DEF File, Staged

\* The step that stages a file, or finds nothing to stage.
LEMMA StagesAFile ==
  ASSUME IInv, NEW x \in Purges, Alone(x), StageRename(x)
  PROVE  Alone(x)'
<1> DEFINE q == purge[x]
           p == q.path
<1> USE DEF Set, At
<1>1. purge \in [Purges -> Requests] /\ q \in Requests
  BY DEF IInv, TypeOK
<1>2. q.at = "decide" /\ UNCHANGED rows
  BY DEF StageRename
<1>3. ASSUME NEW r, purge' = [purge EXCEPT ![x] = r]
      PROVE  purge'[x] = r
  BY <1>1, <1>3
<1>4. \/ purge' = [purge EXCEPT ![x] = StageFailed(x)]
      \/ /\ purge' = [purge EXCEPT ![x] = StageDone(x, {p})]
         /\ disk' = (disk \ {File(p)}) \cup {Staged(p)}
      \/ purge' = [purge EXCEPT ![x] = StageDone(x, {p})] /\ q.saw = {"staged"} /\ disk' = disk
      \/ purge' = [purge EXCEPT ![x] = StageDone(x, {})] /\ q.saw = {} /\ disk' = disk
  BY Zenon DEF StageRename, Native
<1>5. CASE purge' = [purge EXCEPT ![x] = StageFailed(x)]
  <2>1. purge'[x] = StageFailed(x)
    BY <1>3, <1>5
  <2>2. purge'[x].at = "undo" /\ purge'[x].error = "staging"
    BY <1>1, <2>1 DEF StageFailed, StageClosed, Requests
  <2> QED
    BY <2>2 DEF Alone, Looks, Frees, PutsBack, Freeing
<1>6. ASSUME NEW S \in {{}, {p}}, purge' = [purge EXCEPT ![x] = StageDone(x, S)],
             \A s \in Doomed(q) \ {p} :
                  /\ File(s) \in disk' => File(s) \in disk
                  /\ Staged(s) \in disk' => Staged(s) \in disk,
             p \in Doomed(q) => File(p) \notin disk' /\ (Staged(p) \in disk' => p \in S)
      PROVE  Alone(x)'
  <2>1. purge'[x] = StageDone(x, S)
    BY <1>3, <1>6
  <2>2. /\ purge'[x].at = "stage" /\ purge'[x].error = q.error /\ purge'[x].looked = {}
        /\ purge'[x].ids = q.ids /\ purge'[x].paths = q.paths
        /\ purge'[x].stages = q.stages \cup S
    BY <1>1, <2>1 DEF StageDone, StageClosed, Requests
  <2>3. Doomed(purge[x])' = Doomed(q)
    BY <1>2, <2>2 DEF Doomed, Of
  <2>4. Looks(purge[x])' /\ PutsBack(purge[x])'
    BY <1>2, <2>2 DEF Alone, Looks, PutsBack
  <2>5. Frees(purge[x])'
    BY <1>2, <1>6, <2>2, <2>3 DEF Alone, Frees, Freeing
  <2> QED
    BY <2>4, <2>5 DEF Alone
<1>7. CASE /\ purge' = [purge EXCEPT ![x] = StageDone(x, {p})]
           /\ disk' = (disk \ {File(p)}) \cup {Staged(p)}
  BY <1>6, <1>7, NamesDiffer
<1>8. ASSUME p \in Doomed(q)
      PROVE  /\ q.saw = {} => Staged(p) \notin disk
             /\ "file" \notin q.saw => File(p) \notin disk
  <2>1. \A n \in {"file", "staged"} \ q.saw : <<p, n>> \notin disk
    BY <1>2, <1>8 DEF Alone, Looks, Doomed
  <2> QED
    BY <2>1 DEF File, Staged
<1>9. CASE purge' = [purge EXCEPT ![x] = StageDone(x, {p})] /\ q.saw = {"staged"} /\ disk' = disk
  BY <1>6, <1>8, <1>9
<1>10. CASE purge' = [purge EXCEPT ![x] = StageDone(x, {})] /\ q.saw = {} /\ disk' = disk
  BY <1>6, <1>8, <1>10
<1> QED
  BY <1>4, <1>5, <1>7, <1>9, <1>10

\* The steps of a lone purge from the deletion of its rows on.
LEMMA DeletesOrUndoes ==
  ASSUME IInv, NEW x \in Purges, Alone(x),
         PurgeDelete(x) \/ PurgeUndo(x) \/ PurgeCommit(x) \/ PurgeUndone(x) \/ PurgeDone(x)
  PROVE  Alone(x)'
<1> DEFINE q == purge[x]
<1> USE DEF Set, At
<1>1. purge \in [Purges -> Requests] /\ q \in Requests
  BY DEF IInv, TypeOK
<1>2. ASSUME NEW r, purge' = [purge EXCEPT ![x] = r]
      PROVE  purge'[x] = r
  BY <1>1, <1>2
<1>3. CASE purge'[x] = Idle
  BY <1>3 DEF Alone, Looks, Frees, PutsBack, Idle, Freeing
<1>4. CASE PurgeDelete(x)
  <2>1. /\ q.at = "delete" /\ disk' = disk
        /\ \/ /\ rows' = rows \ q.ids
              /\ purge'[x] = [q EXCEPT !.at = "commit", !.paths = q.stages]
           \/ purge'[x] = [q EXCEPT !.at = "undo", !.paths = q.stages, !.error = "rows"]
    BY <1>2, <1>4 DEF PurgeDelete
  <2>2. CASE /\ rows' = rows \ q.ids
             /\ purge'[x] = [q EXCEPT !.at = "commit", !.paths = q.stages]
    <3>1. /\ purge'[x].at = "commit" /\ purge'[x].ids = q.ids /\ purge'[x].paths = q.stages
          /\ purge'[x].error = q.error
      BY <1>1, <2>2 DEF Requests
    <3>2. Doomed(purge[x])' = Doomed(q)
      BY <2>2, <3>1 DEF Doomed, Of
    <3>3. Looks(purge[x])' /\ PutsBack(purge[x])'
      BY <2>1, <3>1 DEF Alone, Looks, PutsBack
    <3>4. Frees(purge[x])'
      BY <2>1, <3>1, <3>2 DEF Alone, Frees, Freeing
    <3> QED
      BY <3>3, <3>4 DEF Alone
  <2>3. CASE purge'[x] = [q EXCEPT !.at = "undo", !.paths = q.stages, !.error = "rows"]
    <3>1. /\ purge'[x].at = "undo" /\ purge'[x].paths = q.stages /\ purge'[x].stages = q.stages
      BY <1>1, <2>3 DEF Requests
    <3> QED
      BY <3>1 DEF Alone, Looks, Frees, PutsBack, Freeing
  <2> QED
    BY <2>1, <2>2, <2>3
<1>5. CASE PurgeUndo(x)
  <2>1. q.at = "undo"
    BY <1>5 DEF PurgeUndo
  <2>2. PICK p \in q.paths :
          \/ /\ disk' = (disk \ {Staged(p)}) \cup {File(p)}
             /\ purge' = [purge EXCEPT ![x] = [q EXCEPT !.paths = @ \ {p}]]
          \/ purge' = [purge EXCEPT ![x] = [[q EXCEPT !.paths = @ \ {p}] EXCEPT !.failed = TRUE]]
    BY <1>5, Zenon DEF PurgeUndo, RollBack, Native
  <2>3. CASE /\ disk' = (disk \ {Staged(p)}) \cup {File(p)}
             /\ purge' = [purge EXCEPT ![x] = [q EXCEPT !.paths = @ \ {p}]]
    <3>1. purge'[x] = [q EXCEPT !.paths = @ \ {p}]
      BY <1>2, <2>3
    <3>2. /\ purge'[x].at = "undo" /\ purge'[x].error = q.error /\ purge'[x].failed = q.failed
          /\ purge'[x].paths = q.paths \ {p} /\ purge'[x].stages = q.stages
      BY <1>1, <2>1, <3>1 DEF Requests
    <3>3. File(p) \in disk' /\ \A s : File(s) \in disk => File(s) \in disk'
      BY <2>3, NamesDiffer
    <3>4. PutsBack(purge[x])'
      BY <3>2, <3>3 DEF Alone, PutsBack
    <3> QED
      BY <3>2, <3>4 DEF Alone, Looks, Frees, Freeing
  <2>4. CASE purge' = [purge EXCEPT ![x] = [[q EXCEPT !.paths = @ \ {p}] EXCEPT !.failed = TRUE]]
    <3>1. purge'[x] = [[q EXCEPT !.paths = @ \ {p}] EXCEPT !.failed = TRUE]
      BY <1>2, <2>4
    <3>2. purge'[x].at = "undo" /\ purge'[x].failed = TRUE
      BY <1>1, <2>1, <3>1 DEF Requests
    <3> QED
      BY <3>2 DEF Alone, Looks, Frees, PutsBack, Freeing
  <2> QED
    BY <2>2, <2>3, <2>4
<1>6. CASE PurgeCommit(x)
  <2>1. q.at = "commit" /\ rows' = rows
    BY <1>6 DEF PurgeCommit
  <2>2. PICK p \in q.paths :
          \/ /\ disk' = disk \ {Staged(p)}
             /\ purge' = [purge EXCEPT ![x] = [q EXCEPT !.paths = @ \ {p}]]
          \/ purge' = [purge EXCEPT ![x] = Idle]
    BY <1>6, Zenon DEF PurgeCommit, Native, Removed
  <2>3. CASE /\ disk' = disk \ {Staged(p)}
             /\ purge' = [purge EXCEPT ![x] = [q EXCEPT !.paths = @ \ {p}]]
    <3>1. purge'[x] = [q EXCEPT !.paths = @ \ {p}]
      BY <1>2, <2>3
    <3>2. /\ purge'[x].at = "commit" /\ purge'[x].error = q.error /\ purge'[x].ids = q.ids
          /\ purge'[x].paths = q.paths \ {p}
      BY <1>1, <2>1, <3>1 DEF Requests
    <3>3. Doomed(purge[x])' = Doomed(q)
      BY <2>1, <3>2 DEF Doomed, Of
    <3>4. Looks(purge[x])' /\ PutsBack(purge[x])'
      BY <2>1, <3>2 DEF Alone, Looks, PutsBack
    <3>5. Frees(purge[x])'
      BY <2>1, <2>3, <3>2, <3>3 DEF Alone, Frees, Freeing
    <3> QED
      BY <3>4, <3>5 DEF Alone
  <2> QED
    BY <1>2, <1>3, <2>2, <2>3
<1>7. CASE PurgeUndone(x) \/ PurgeDone(x)
  BY <1>2, <1>3, <1>7 DEF PurgeUndone, PurgeDone
<1> QED
  BY <1>4, <1>5, <1>6, <1>7

LEMMA AloneInit ==
  ASSUME Init, NEW x \in Purges
  PROVE  Alone(x)
BY DEF Init, Idle, Alone, Looks, Frees, PutsBack, Freeing

LEMMA AloneKept ==
  ASSUME IInv, [Next]_vars, NEW x \in Purges, Purges = {x}, Alone(x)
  PROVE  Alone(x)'
<1>1. CASE PurgeStep(x)
  BY <1>1, LooksAtFiles, StagesAFile, DeletesOrUndoes DEF PurgeStep
<1>2. CASE ~ PurgeStep(x)
  BY <1>2, StandsStill
<1> QED
  BY <1>1, <1>2

\* A purge answers with one of three steps.
LEMMA AnswerForms ==
  ASSUME IInv, [Next]_vars, NEW x \in Purges, Answers(x)
  PROVE  \/ PurgeUndone(x) /\ purge[x].at = "undo" /\ purge[x].paths = {}
         \/ PurgeCommit(x) /\ purge[x].at = "commit" /\ purge[x].paths # {}
         \/ PurgeDone(x) /\ purge[x].at = "commit" /\ purge[x].paths = {}
<1> USE DEF Set, At
<1>1. purge \in [Purges -> Requests] /\ purge[x] \in Requests
  BY DEF IInv, TypeOK
<1>2. PurgeStep(x)
  <2>1. ~ Crash
    BY DEF Crash, Answers
  <2>2. purge'[x] # purge[x]
    BY DEF Answers
  <2> QED
    BY <2>1, <2>2, PurgeMoves, PurgeForms, TargetForms DEF IInv, Answers
<1>3. \A r : purge' = [purge EXCEPT ![x] = r] => r.at = "idle"
  BY <1>1 DEF Answers
<1>4. ~ (PurgeSurvivors(x) \/ StageBegin(x) \/ StageLook(x))
  <2>1. ASSUME NEW S PROVE [purge[x] EXCEPT !.at = "stage", !.paths = S].at = "stage"
    BY <1>1 DEF Requests
  <2>2. ASSUME NEW p
        PROVE  [purge[x] EXCEPT !.at = "look", !.path = p, !.paths = @ \ {p}].at = "look"
    BY <1>1 DEF Requests
  <2>3. [purge[x] EXCEPT !.at = "delete"].at = "delete"
    BY <1>1 DEF Requests
  <2>4. ASSUME NEW n
        PROVE  [purge[x] EXCEPT
                 !.looked = @ \cup {n},
                 !.saw = IF <<purge[x].path, n>> \in disk THEN @ \cup {n} ELSE @,
                 !.at = IF purge[x].looked = {} THEN "look" ELSE "decide"].at # "idle"
    BY <1>1 DEF Requests
  <2>5. ~ PurgeSurvivors(x)
    BY <1>3, <2>1, Zenon DEF PurgeSurvivors
  <2>6. ~ StageBegin(x)
    BY <1>3, <2>2, <2>3, Zenon DEF StageBegin
  <2>7. ~ StageLook(x)
    BY <1>3, <2>4, Zenon DEF StageLook
  <2> QED
    BY <2>5, <2>6, <2>7
<1>5. ~ (StageRename(x) \/ PurgeDelete(x) \/ PurgeUndo(x))
  <2>1. StageFailed(x).at = "undo"
    BY <1>1 DEF StageFailed, StageClosed, Requests
  <2>2. ASSUME NEW S PROVE StageDone(x, S).at = "stage"
    BY <1>1 DEF StageDone, StageClosed, Requests
  <2>3. ~ StageRename(x)
    BY <1>3, <2>1, <2>2, Zenon DEF StageRename, Native
  <2>4. /\ [purge[x] EXCEPT !.at = "commit", !.paths = purge[x].stages].at = "commit"
        /\ [purge[x] EXCEPT !.at = "undo", !.paths = purge[x].stages, !.error = "rows"].at = "undo"
    BY <1>1 DEF Requests
  <2>5. ~ PurgeDelete(x)
    BY <1>3, <2>4, Zenon DEF PurgeDelete
  <2>6. ASSUME NEW p, purge[x].at = "undo"
        PROVE  /\ [purge[x] EXCEPT !.paths = @ \ {p}].at = "undo"
               /\ [[purge[x] EXCEPT !.paths = @ \ {p}] EXCEPT !.failed = TRUE].at = "undo"
    BY <1>1, <2>6 DEF Requests
  <2>7. ~ PurgeUndo(x)
    BY <1>3, <2>6, Zenon DEF PurgeUndo, RollBack, Native
  <2> QED
    BY <2>3, <2>5, <2>7
<1>7. PurgeUndone(x) => purge[x].at = "undo" /\ purge[x].paths = {}
  BY DEF PurgeUndone
<1>8. PurgeCommit(x) => purge[x].at = "commit" /\ purge[x].paths # {}
  BY DEF PurgeCommit
<1>9. PurgeDone(x) => purge[x].at = "commit" /\ purge[x].paths = {}
  BY DEF PurgeDone
<1> QED
  BY <1>2, <1>4, <1>5, <1>7, <1>8, <1>9 DEF PurgeStep

\* What a purge promises its caller, and what it leaves to the next start, holds
\* for any number of purges one after the other. Two that overlap may take back
\* from each other what they have answered.
THEOREM PromisesStayKept ==
  ASSUME SweepsWhenWhole, NEW one \in Purges, Purges = {one}
  PROVE  Spec => PromisesHold
<1>1. Spec => []Alone(one)
  <2>1. Init => Alone(one)
    BY AloneInit
  <2>2. IInv /\ Alone(one) /\ [Next]_vars => Alone(one)'
    BY AloneKept
  <2> QED
    BY <2>1, <2>2, InductiveInvariant, PTL DEF Spec
<1>2. IInv /\ Alone(one) /\ [Next]_vars =>
        \A x \in Purges : AnswersRestored(x) =>
          \A a \in purge[x].ids \cap rows :
            PathOf[a] \in purge[x].stages => File(PathOf[a]) \in disk
  <2> SUFFICES ASSUME IInv, Alone(one), [Next]_vars, AnswersRestored(one),
                      NEW p \in purge[one].stages
               PROVE  File(p) \in disk
    OBVIOUS
  <2>1. purge[one].at = "undo"
    BY DEF AnswersRestored, Alone, PutsBack
  <2>2. purge[one].paths = {}
    BY <2>1, AnswerForms DEF AnswersRestored
  <2> QED
    BY <2>2 DEF AnswersRestored, Alone, PutsBack
<1>3. IInv /\ Alone(one) /\ [Next]_vars =>
        \A x \in Purges : AnswersPurged(x) =>
          /\ purge[x].ids \cap rows' = {}
          /\ \A p \in Of(purge[x].ids) \ (Of(rows') \cup Samples) :
               File(p) \notin disk' /\ Staged(p) \notin disk'
  <2> SUFFICES ASSUME IInv, Alone(one), [Next]_vars, AnswersPurged(one)
               PROVE  /\ purge[one].ids \cap rows' = {}
                      /\ \A p \in Of(purge[one].ids) \ (Of(rows') \cup Samples) :
                           File(p) \notin disk' /\ Staged(p) \notin disk'
    OBVIOUS
  <2>1. PurgeDone(one) /\ purge[one].at = "commit" /\ purge[one].paths = {}
    BY AnswerForms DEF AnswersPurged
  <2>2. UNCHANGED <<rows, disk>>
    BY <2>1 DEF PurgeDone
  <2>3. purge[one].ids \cap rows = {}
    BY <2>1 DEF IInv, Targeted, Claims
  <2>4. \A p \in Doomed(purge[one]) : File(p) \notin disk /\ Staged(p) \notin disk
    BY <2>1 DEF Alone, Frees, Freeing
  <2>5. Of(purge[one].ids) \ (Of(rows) \cup Samples) \subseteq Doomed(purge[one])
    BY DEF Doomed, Of
  <2> QED
    BY <2>2, <2>3, <2>4, <2>5
<1>4. Spec => RestoredMeansRestored
  BY <1>1, <1>2, InductiveInvariant, PTL DEF Spec, RestoredMeansRestored
<1>5. Spec => SuccessFreesDisk
  BY <1>1, <1>3, InductiveInvariant, PTL DEF Spec, SuccessFreesDisk
<1>6. Spec => StartRepairs
  BY StartsRepair
<1> QED
  BY <1>4, <1>5, <1>6, PTL DEF PromisesHold, AnswersHold
===============================================================================
