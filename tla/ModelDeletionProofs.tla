------------------------- MODULE ModelDeletionProofs -------------------------
(***************************************************************************)
(* What holds of the deletion of a model for every set of managed files,   *)
(* and for any number of failed steps, lost replies, restarts and further  *)
(* requests: whatever is out of its place is named by a journal that the   *)
(* next server reads, the deletion is atomic, and its answer stays true.   *)
(***************************************************************************)
EXTENDS ModelDeletion, TLAPS

Steps == {"idle"} \cup RequestSteps \cup BootSteps
Hits == {"cleanup", "unwind", "uncommit", "unlisted", "retry", "reinstall"}

\* Where a step knows that the marker or the journal is there, or gone.
UnmarkedSteps == {"plan", "stage", "unstage", "unplan", "backplan", "unjournal", "reunjournal", "dropplan",
                  "xplan", "xstage"}
PlannedSteps == {"stage", "clear", "checkcleared", "remove", "mark"}
\* A journal goes only after the last file it names.
EmptySteps == {"plan", "unplan", "backmark", "backplan", "unmark", "unjournal", "reunmark", "reunjournal",
               "dropmark", "dropplan", "xplan", "xstage"}
XEmptySteps == {"xstage", "xabandon", "xdone", "xwrite", "xend"}

\* Disk d may be found before step p of a request that was told t.
Journaled(d) ==
  /\ d.staged \cap Managed # {} => d.journal # "none"
  /\ External \in d.staged => d.xjournal
  /\ d.marker => d.journal # "none"
Ready(d, p, t) ==
  /\ p \in UnmarkedSteps => ~d.marker
  /\ p \in PlannedSteps => d.journal # "none"
  /\ p \in EmptySteps => d.staged \cap Managed = {}
  /\ p \in XEmptySteps => External \notin d.staged
  /\ p \in {"relist", "xforget"} /\ "file" \in t => External \notin d.staged
  /\ p = "xstage" => d.xjournal
  /\ p \in {"xplan", "xstage", "xabandon"} \/ "file" \in t => kind = "local"
Fits(d, p, t) == d \in Disks /\ p \in Steps /\ Journaled(d) /\ Ready(d, p, t)

IInv == TypeOK /\ Fits(disk, pc, told)

-----------------------------------------------------------------------------
(* The forms of a step.                                                    *)

LEMMA WindowsType == \A d : Windows(d) \subseteq Hits
BY DEF Windows, Hits

LEMMA ToldType == Told \subseteq {"file", "registry"}
BY DEF Told

LEMMA FaultKeeps ==
  ASSUME IInv, NEW d, Fault(d)
  PROVE  disk' = d /\ hit' \subseteq Hits /\ faults' \in 0 .. MaxFaults
<1>1. hit' \subseteq Hits
  BY WindowsType DEF Fault, IInv, TypeOK, Hits
<1>2. faults' \in 0 .. MaxFaults
  BY BoundsAreNat DEF Fault, IInv, TypeOK
<1> QED
  BY <1>1, <1>2 DEF Fault

LEMMA DoneKeeps ==
  ASSUME IInv, NEW d, NEW p, Done(d, p), Fits(d, p, told \cup Told), left' \subseteq Managed
  PROVE  IInv'
<1>1. /\ disk' = d /\ pc' = p /\ told' = told \cup Told /\ told' \subseteq {"file", "registry"}
      /\ UNCHANGED <<kind, old, before, answer, hit, faults, crashes>>
  BY ToldType DEF Done, Goes, IInv, TypeOK
<1>2. TypeOK'
  BY <1>1 DEF IInv, TypeOK, Fits, Steps
<1> QED
  BY <1>1, <1>2 DEF IInv, Fits, Journaled, Ready

LEMMA FailsKeeps ==
  ASSUME IInv, NEW d, NEW p, Fails(d, p), Fits(d, p, told), left' \subseteq Managed
  PROVE  IInv'
<1>1. /\ disk' = d /\ hit' \subseteq Hits /\ faults' \in 0 .. MaxFaults
      /\ pc' = p /\ UNCHANGED <<kind, old, before, told, answer, crashes>>
  BY FaultKeeps DEF Fails, Goes
<1>2. TypeOK'
  BY <1>1 DEF IInv, TypeOK, Fits, Steps, Hits
<1> QED
  BY <1>1, <1>2 DEF IInv, Fits, Journaled, Ready

LEMMA AnswersKeeps ==
  ASSUME IInv, Journaled(disk'), disk' \in Disks,
         NEW a \in {"deleted", "failed", "stuck"}, Answers(a),
         hit' \subseteq Hits, faults' \in 0 .. MaxFaults
  PROVE  IInv'
<1>1. pc' = "idle" /\ answer' = a /\ UNCHANGED <<kind, old, before, left, told, crashes>>
  BY DEF Answers
<1>2. Ready(disk', "idle", told') /\ "idle" \in Steps
  BY <1>1 DEF Ready, Steps, UnmarkedSteps, PlannedSteps, EmptySteps, XEmptySteps, IInv, Fits
<1>3. TypeOK'
  BY <1>1 DEF IInv, TypeOK, Hits
<1>4. Fits(disk', pc', told')
  BY <1>1, <1>2 DEF Fits
<1> QED
  BY <1>1, <1>3, <1>4 DEF IInv, Fits, Journaled, Ready

LEMMA TryKeeps ==
  ASSUME IInv, NEW step, NEW d, NEW p, NEW h, Try(step, d, p, h),
         Fits(d, p, told \cup Told), Fits(disk, h, told), Fits(d, h, told)
  PROVE  IInv'
<1>1. left' \subseteq Managed
  BY DEF Try, IInv, TypeOK
<1> QED
  BY <1>1, DoneKeeps, FailsKeeps DEF Try

LEMMA AnswersFaultKeeps ==
  ASSUME IInv, NEW d \in Disks, Journaled(d), NEW a \in {"deleted", "failed", "stuck"},
         \E e \in {disk, d} : Fault(e) /\ Answers(a)
  PROVE  IInv'
<1>1. PICK e \in {disk, d} : Fault(e) /\ Answers(a)
  OBVIOUS
<1>2. e \in Disks /\ Journaled(e)
  BY <1>1 DEF IInv, Fits
<1>3. disk' = e /\ hit' \subseteq Hits /\ faults' \in 0 .. MaxFaults
  BY <1>1, FaultKeeps
<1> QED
  BY <1>1, <1>2, <1>3, AnswersKeeps

LEMMA TryOrKeeps ==
  ASSUME IInv, NEW step, NEW d, NEW p, NEW a \in {"deleted", "failed", "stuck"},
         TryOr(step, d, p, a), Fits(d, p, told \cup Told)
  PROVE  IInv'
<1>1. CASE Done(d, p) /\ UNCHANGED left
  BY <1>1, DoneKeeps DEF IInv, TypeOK
<1>2. CASE \E e \in {disk, d} : Fault(e) /\ Answers(a)
  BY <1>2, AnswersFaultKeeps DEF Fits
<1> QED
  BY <1>1, <1>2 DEF TryOr

LEMMA LastKeeps ==
  ASSUME IInv, NEW step, NEW d \in Disks, Journaled(d),
         NEW a \in {"deleted", "failed", "stuck"}, NEW b \in {"deleted", "failed", "stuck"},
         Last(step, d, a, b)
  PROVE  IInv'
<1>1. CASE disk' = d /\ Answers(a) /\ UNCHANGED <<hit, faults>>
  BY <1>1, AnswersKeeps DEF IInv, TypeOK, Hits
<1>2. CASE \E e \in {disk, d} : Fault(e) /\ Answers(b)
  BY <1>2, AnswersFaultKeeps
<1> QED
  BY <1>1, <1>2 DEF Last

LEMMA SkipKeeps ==
  ASSUME IInv, NEW step, NEW p, Skip(step, p), Fits(disk, p, told \cup Told)
  PROVE  IInv'
BY DoneKeeps DEF Skip, IInv, TypeOK

-----------------------------------------------------------------------------
(* The steps of the handler and of recovery.                               *)

USE DEF StagedManaged, Steps, RequestSteps, RollbackSteps, BootSteps,
        UnmarkedSteps, PlannedSteps, EmptySteps, XEmptySteps

\* The journal of the external file is written before the rename.
LEMMA StageExternalKeeps == IInv /\ StageExternal => IInv'
<1> SUFFICES ASSUME IInv, StageExternal PROVE IInv'
  OBVIOUS
<1>1. CASE ~disk.xjournal /\ TryOr("xplan", XPlanned(disk), "xstage", "failed")
  <2>1. pc = "xplan"
    BY <1>1 DEF TryOr
  <2>2. Fits(XPlanned(disk), "xstage", told \cup Told)
    BY <2>1, <1>1 DEF XPlanned, IInv, Fits, Disks, Journaled, Ready, Told
  <2> QED
    BY <1>1, <2>2, TryOrKeeps
<1>2. ASSUME pc = "xplan", Answers("failed"), UNCHANGED <<disk, hit, faults>>
      PROVE  IInv'
  BY <1>2, AnswersKeeps DEF IInv, TypeOK, Fits, Hits, Journaled
<1>3. ASSUME pc = "xstage", UNCHANGED left,
             Done(Staged(disk, External), "plan") \/ Fails(disk, "xabandon")
      PROVE  IInv'
  <2>1. Staged(disk, External).staged \cap Managed = disk.staged \cap Managed
    BY ExternalIsNotManaged DEF Staged, IInv, Fits, Disks
  <2>2. Staged(disk, External) \in Disks
    BY DEF Staged, IInv, Fits, Disks
  <2>3. Fits(Staged(disk, External), "plan", told \cup Told) /\ Fits(disk, "xabandon", told)
    BY <2>1, <2>2, <1>3 DEF Staged, IInv, Fits, Disks, Journaled, Ready, Told
  <2> QED
    BY <1>3, <2>3, DoneKeeps, FailsKeeps DEF IInv, TypeOK
<1>4. CASE Last("xabandon", XForgotten(disk), "failed", "failed")
  <2>1. pc = "xabandon"
    BY <1>4 DEF Last
  <2>2. XForgotten(disk) \in Disks /\ Journaled(XForgotten(disk))
    BY <2>1 DEF XForgotten, IInv, Fits, Disks, Journaled, Ready, Told
  <2> QED
    BY <1>4, <2>2, LastKeeps
<1> QED
  BY <1>1, <1>2, <1>3, <1>4 DEF StageExternal

\* The plan goes after the last file is back.
LEMMA UnstageKeeps == IInv /\ Unstage => IInv'
<1> SUFFICES ASSUME IInv, Unstage PROVE IInv'
  OBVIOUS
<1>1. ASSUME NEW f \in disk.staged \cap Managed,
             TryOr("unstage", PutBack(disk, f), "unstage", "failed")
      PROVE  IInv'
  <2>1. pc = "unstage"
    BY <1>1 DEF TryOr
  <2>2. Fits(PutBack(disk, f), "unstage", told \cup Told)
    BY <2>1, <1>1 DEF PutBack, IInv, Fits, Disks, Journaled, Ready, Told
  <2> QED
    BY <1>1, <2>2, TryOrKeeps
<1>2. CASE disk.staged \cap Managed = {} /\ Skip("unstage", "unplan")
  <2>1. pc = "unstage"
    BY <1>2 DEF Skip
  <2>2. Fits(disk, "unplan", told \cup Told)
    BY <2>1, <1>2 DEF IInv, Fits, Disks, Journaled, Ready, Told
  <2> QED
    BY <1>2, <2>2, SkipKeeps
<1>3. CASE Last("unplan", Unplanned(disk), "failed", "failed")
  <2>1. pc = "unplan"
    BY <1>3 DEF Last
  <2>2. Unplanned(disk) \in Disks /\ Journaled(Unplanned(disk))
    BY <2>1 DEF Unplanned, IInv, Fits, Disks, Journaled, Ready, Told
  <2> QED
    BY <1>3, <2>2, LastKeeps
<1> QED
  BY <1>1, <1>2, <1>3 DEF Unstage

\* The marker is written next to a journal that is there.
LEMMA CommitKeeps == IInv /\ Commit => IInv'
<1> SUFFICES ASSUME IInv, Commit PROVE IInv'
  OBVIOUS
<1>1. CASE Try("inspect", disk, "attach", IF disk.journal = "none" THEN "xback" ELSE "rollback")
  <2>1. pc = "inspect"
    BY <1>1 DEF Try
  <2>2. Fits(disk, "attach", told \cup Told)
    BY <2>1 DEF IInv, Fits, Disks, Journaled, Ready, Told
  <2>3. Fits(disk, IF disk.journal = "none" THEN "xback" ELSE "rollback", told)
    BY <2>1 DEF IInv, Fits, Disks, Journaled, Ready, Told
  <2> QED
    BY <1>1, <2>2, <2>3, TryKeeps
<1>2. CASE Try("attach", WithRecovery(disk), "clear", IF disk.journal = "none" THEN "xback" ELSE "rollback")
  <2>1. pc = "attach"
    BY <1>2 DEF Try
  <2>2. Fits(WithRecovery(disk), "clear", told \cup Told)
    BY <2>1 DEF WithRecovery, IInv, Fits, Disks, Journaled, Ready, Told
  <2>3. Fits(disk, IF disk.journal = "none" THEN "xback" ELSE "rollback", told)
    BY <2>1 DEF WithRecovery, IInv, Fits, Disks, Journaled, Ready, Told
  <2>4. Fits(WithRecovery(disk), IF disk.journal = "none" THEN "xback" ELSE "rollback", told)
    BY <2>1 DEF WithRecovery, IInv, Fits, Disks, Journaled, Ready, Told
  <2> QED
    BY <1>2, <2>2, <2>3, <2>4, TryKeeps
<1>3. CASE Try("clear", Cleared(disk), "checkcleared", "rollback")
  <2>1. pc = "clear"
    BY <1>3 DEF Try
  <2>2. Fits(Cleared(disk), "checkcleared", told \cup Told)
    BY <2>1 DEF Cleared, IInv, Fits, Disks, Journaled, Ready, Told
  <2>3. Fits(disk, "rollback", told)
    BY <2>1 DEF Cleared, IInv, Fits, Disks, Journaled, Ready, Told
  <2>4. Fits(Cleared(disk), "rollback", told)
    BY <2>1 DEF Cleared, IInv, Fits, Disks, Journaled, Ready, Told
  <2> QED
    BY <1>3, <2>2, <2>3, <2>4, TryKeeps
<1>4. CASE Try("checkcleared", disk, "remove", "rollback")
  <2>1. pc = "checkcleared"
    BY <1>4 DEF Try
  <2>2. Fits(disk, "remove", told \cup Told)
    BY <2>1 DEF IInv, Fits, Disks, Journaled, Ready, Told
  <2>3. Fits(disk, "rollback", told)
    BY <2>1 DEF IInv, Fits, Disks, Journaled, Ready, Told
  <2> QED
    BY <1>4, <2>2, <2>3, TryKeeps
<1>5. CASE kind = "catalog" /\ Skip("remove", "mark")
  <2>1. pc = "remove"
    BY <1>5 DEF Skip
  <2>2. Fits(disk, "mark", told \cup Told)
    BY <2>1, <1>5 DEF IInv, Fits, Disks, Journaled, Ready, Told
  <2> QED
    BY <1>5, <2>2, SkipKeeps
<1>6. CASE Try("remove", Removed(disk), "mark", "rollback")
  <2>1. pc = "remove"
    BY <1>6 DEF Try
  <2>2. Fits(Removed(disk), "mark", told \cup Told)
    BY <2>1 DEF Removed, IInv, Fits, Disks, Journaled, Ready, Told
  <2>3. Fits(disk, "rollback", told)
    BY <2>1 DEF Removed, IInv, Fits, Disks, Journaled, Ready, Told
  <2>4. Fits(Removed(disk), "rollback", told)
    BY <2>1 DEF Removed, IInv, Fits, Disks, Journaled, Ready, Told
  <2> QED
    BY <1>6, <2>2, <2>3, <2>4, TryKeeps
<1>7. CASE Try("mark", Marked(disk), "checkmarked", "rollback")
  <2>1. pc = "mark"
    BY <1>7 DEF Try
  <2>2. Fits(Marked(disk), "checkmarked", told \cup Told)
    BY <2>1 DEF Marked, IInv, Fits, Disks, Journaled, Ready, Told
  <2>3. Fits(disk, "rollback", told)
    BY <2>1 DEF Marked, IInv, Fits, Disks, Journaled, Ready, Told
  <2>4. Fits(Marked(disk), "rollback", told)
    BY <2>1 DEF Marked, IInv, Fits, Disks, Journaled, Ready, Told
  <2> QED
    BY <1>7, <2>2, <2>3, <2>4, TryKeeps
<1>8. CASE Try("checkmarked", disk, "clean", "rollback")
  <2>1. pc = "checkmarked"
    BY <1>8 DEF Try
  <2>2. Fits(disk, "clean", told \cup Told)
    BY <2>1 DEF IInv, Fits, Disks, Journaled, Ready, Told
  <2>3. Fits(disk, "rollback", told)
    BY <2>1 DEF IInv, Fits, Disks, Journaled, Ready, Told
  <2> QED
    BY <1>8, <2>2, <2>3, TryKeeps
<1> QED
  BY <1>1, <1>2, <1>3, <1>4, <1>5, <1>6, <1>7, <1>8 DEF Commit

\* Marker before journal, journals after files.
LEMMA RollbackKeeps == IInv /\ Rollback => IInv'
<1> SUFFICES ASSUME IInv, Rollback PROVE IInv'
  OBVIOUS
<1>1. ASSUME NEW f \in disk.staged \cap Managed,
             TryBack("rollback", PutBack(disk, f), "rollback")
      PROVE  IInv'
  <2>1. pc = "rollback"
    BY <1>1 DEF TryBack, TryOr
  <2>2. Fits(PutBack(disk, f), "rollback", told \cup Told)
    BY <2>1, <1>1 DEF PutBack, IInv, Fits, Disks, Journaled, Ready, Told
  <2> QED
    BY <1>1, <2>2, TryOrKeeps DEF TryBack
<1>2. CASE disk.staged \cap Managed = {} /\ Skip("rollback", "backmark")
  <2>1. pc = "rollback"
    BY <1>2 DEF Skip
  <2>2. Fits(disk, "backmark", told \cup Told)
    BY <2>1, <1>2 DEF IInv, Fits, Disks, Journaled, Ready, Told
  <2> QED
    BY <1>2, <2>2, SkipKeeps
<1>3. CASE TryBack("backmark", Unmarked(disk), "backplan")
  <2>1. pc = "backmark"
    BY <1>3 DEF TryBack, TryOr
  <2>2. Fits(Unmarked(disk), "backplan", told \cup Told)
    BY <2>1 DEF Unmarked, IInv, Fits, Disks, Journaled, Ready, Told
  <2> QED
    BY <1>3, <2>2, TryOrKeeps DEF TryBack
<1>4. CASE TryBack("backplan", Unplanned(disk), "xback")
  <2>1. pc = "backplan"
    BY <1>4 DEF TryBack, TryOr
  <2>2. Fits(Unplanned(disk), "xback", told \cup Told)
    BY <2>1 DEF Unplanned, IInv, Fits, Disks, Journaled, Ready, Told
  <2> QED
    BY <1>4, <2>2, TryOrKeeps DEF TryBack
<1>5. CASE "file" \in told /\ TryBack("xback", PutBack(disk, External), "relist")
  <2>1. pc = "xback"
    BY <1>5 DEF TryBack, TryOr
  <2>2. Fits(PutBack(disk, External), "relist", told \cup Told)
    BY <2>1, <1>5, ExternalIsNotManaged DEF PutBack, IInv, Fits, Disks, Journaled, Ready, Told
  <2> QED
    BY <1>5, <2>2, TryOrKeeps DEF TryBack
<1>6. CASE "file" \notin told /\ Skip("xback", "relist")
  <2>1. pc = "xback"
    BY <1>6 DEF Skip
  <2>2. Fits(disk, "relist", told \cup Told)
    BY <2>1, <1>6 DEF IInv, Fits, Disks, Journaled, Ready, Told
  <2> QED
    BY <1>6, <2>2, SkipKeeps
<1>7. CASE TryBack("relist", RecordRestored(disk), "xforget")
  <2>1. pc = "relist"
    BY <1>7 DEF TryBack, TryOr
  <2>2. Fits(RecordRestored(disk), "xforget", told \cup Told)
    BY <2>1 DEF RecordRestored, IInv, Fits, Disks, Journaled, Ready, Told, TypeOK
  <2> QED
    BY <1>7, <2>2, TryOrKeeps DEF TryBack
<1>8. ASSUME pc = "relist", disk' = disk, Goes("xforget"), UNCHANGED <<left, told, faults, answer>>,
             hit' = hit \cup IF disk.record # before.record THEN {"unlisted"} ELSE {}
      PROVE  IInv'
  <2>1. Fits(disk, "xforget", told)
    BY <1>8 DEF IInv, Fits, Disks, Journaled, Ready, Told
  <2>2. hit' \subseteq Hits
    BY <1>8 DEF Hits, IInv, TypeOK
  <2>3. TypeOK'
    BY <1>8, <2>2 DEF Goes, IInv, TypeOK, Hits
  <2> QED
    BY <1>8, <2>1, <2>3 DEF Goes, IInv, Fits, Journaled, Ready
<1>9. CASE "file" \in told /\ Try("xforget", XForgotten(disk), "undefault", "undefault")
  <2>1. pc = "xforget"
    BY <1>9 DEF Try
  <2>2. Fits(XForgotten(disk), "undefault", told \cup Told)
    BY <2>1, <1>9 DEF XForgotten, IInv, Fits, Disks, Journaled, Ready, Told
  <2>3. Fits(disk, "undefault", told)
    BY <2>1, <1>9 DEF XForgotten, IInv, Fits, Disks, Journaled, Ready, Told
  <2>4. Fits(XForgotten(disk), "undefault", told)
    BY <2>1, <1>9 DEF XForgotten, IInv, Fits, Disks, Journaled, Ready, Told
  <2> QED
    BY <1>9, <2>2, <2>3, <2>4, TryKeeps
<1>10. CASE Skip("xforget", "undefault")
  <2>1. pc = "xforget"
    BY <1>10 DEF Skip
  <2>2. Fits(disk, "undefault", told \cup Told)
    BY <2>1 DEF IInv, Fits, Disks, Journaled, Ready, Told
  <2> QED
    BY <1>10, <2>2, SkipKeeps
<1>11. CASE Last("undefault", DefaultRestored(disk, before.default), "failed", "stuck")
  <2>1. pc = "undefault"
    BY <1>11 DEF Last
  <2>2. DefaultRestored(disk, before.default) \in Disks /\ Journaled(DefaultRestored(disk, before.default))
    BY <2>1 DEF DefaultRestored, IInv, Fits, Disks, Journaled, Ready, Told, TypeOK
  <2> QED
    BY <1>11, <2>2, LastKeeps
<1> QED
  BY <1>1, <1>2, <1>3, <1>4, <1>5, <1>6, <1>7, <1>8, <1>9, <1>10, <1>11 DEF Rollback

\* A pass over the staged files that leaves a step only when none is left.
LEMMA SweepKeeps ==
  ASSUME IInv, NEW step \in {"clean", "reclean"}, NEW p, NEW h, Sweep(step, p, h),
         disk.staged \cap Managed = {} => Fits(disk, p, told), Fits(disk, h, told)
  PROVE  IInv'
<1>0. pc = step
  BY DEF Sweep
<1>1. \A f : Fits(Unlinked(disk, f), step, told)
  BY <1>0 DEF IInv, Fits, Disks, Journaled, Ready, Unlinked
<1>2. Told = {} /\ Fits(disk, step, told)
  BY <1>0 DEF Told, IInv
<1>3. ASSUME NEW f \in (disk.staged \cap Managed) \ left,
             Done(Unlinked(disk, f), step) /\ UNCHANGED left
      PROVE  IInv'
  BY <1>1, <1>2, <1>3, DoneKeeps DEF IInv, TypeOK
<1>4. ASSUME NEW f \in (disk.staged \cap Managed) \ left, NEW e \in {disk, Unlinked(disk, f)},
             Fails(e, step) /\ left' = left \cup {f}
      PROVE  IInv'
  <2>1. Fits(e, step, told) /\ left' \subseteq Managed
    BY <1>1, <1>2, <1>4 DEF IInv, TypeOK
  <2> QED
    BY <1>4, <2>1, FailsKeeps
<1>5. CASE /\ disk.staged \cap Managed \subseteq left /\ left' = {}
           /\ Done(disk, IF left = {} THEN p ELSE h)
  <2>1. Fits(disk, IF left = {} THEN p ELSE h, told \cup Told)
    BY <1>2, <1>5
  <2> QED
    BY <1>5, <2>1, DoneKeeps
<1> QED
  BY <1>3, <1>4, <1>5 DEF Sweep

\* Taking up a journal keeps what it names with it.
LEMMA WithKeeps ==
  ASSUME NEW d \in Disks, Journaled(d), NEW j \in Journals \cup {NoJournal}
  PROVE  /\ With(d, j) \in Disks
         /\ With(d, j).staged \cap Managed = j.staged
         /\ (External \in With(d, j).staged) = (External \in d.staged)
         /\ j.marker => j.journal # "none"
         /\ Journaled(With(d, j))
<1>1. j.journal \in {"none", "plan", "recovery"} /\ j.marker \in BOOLEAN /\ j.saved \in BOOLEAN
  <2>1. CASE j = NoJournal
    BY <2>1 DEF NoJournal
  <2>2. CASE j \in Journals
    BY <2>2 DEF Journals
  <2> QED
    BY <2>1, <2>2
<1>2. j.staged \subseteq Managed /\ (j.journal = "none" => j.staged = {} /\ ~j.marker)
  <2>1. CASE j = NoJournal
    BY <2>1 DEF NoJournal
  <2>2. CASE j \in Journals
    BY <2>2 DEF Journals
  <2> QED
    BY <2>1, <2>2
<1>3. With(d, j) \in Disks
  BY <1>1, <1>2 DEF With, Disks
<1>4. /\ With(d, j).journal = j.journal /\ With(d, j).marker = j.marker
      /\ With(d, j).xjournal = d.xjournal /\ With(d, j).staged = (d.staged \ Managed) \cup j.staged
  BY DEF With, Disks
<1>5. (External \in With(d, j).staged) = (External \in d.staged)
  BY <1>2, <1>4, ExternalIsNotManaged
<1> QED
  BY <1>2, <1>3, <1>4, <1>5 DEF Journaled

LEMMA JournalType == ASSUME NEW d \in Disks PROVE Journal(d) \subseteq Journals
BY DEF Journal, AtHand, Disks, Journals

LEMMA OpenKeeps == IInv /\ Open => IInv'
<1> SUFFICES ASSUME IInv, Open PROVE IInv'
  OBVIOUS
<1>1. CASE Skip("boot", "bootx")
  <2>1. Fits(disk, "bootx", told \cup Told)
    BY <1>1 DEF Skip, IInv, Fits, Disks, Journaled, Ready, Told
  <2> QED
    BY <1>1, <2>1, SkipKeeps
<1>2. ASSUME NEW j \in old \cup Journal(disk),
             pc = "boot", disk' = With(disk, j), old' = (old \cup Journal(disk)) \ {j},
             pc' = IF j.marker THEN "reclean"
                   ELSE IF j.journal = "recovery" THEN "rerecord" ELSE "putback",
             UNCHANGED <<kind, before, left, told, answer, hit, faults, crashes>>
      PROVE  IInv'
  <2>1. old \cup Journal(disk) \subseteq Journals
    BY JournalType DEF IInv, TypeOK, Fits
  <2>2. With(disk, j) \in Disks /\ Journaled(With(disk, j))
    BY <1>2, <2>1, WithKeeps DEF IInv, Fits
  <2>3. pc' \in {"reclean", "rerecord", "putback"}
    BY <1>2
  <2>4. Fits(disk', pc', told')
    BY <1>2, <2>2, <2>3 DEF IInv, Fits, Ready
  <2>5. TypeOK'
    BY <1>2, <2>1, <2>2, <2>3 DEF IInv, TypeOK
  <2> QED
    BY <1>2, <2>4, <2>5 DEF IInv, Fits, Journaled, Ready
<1> QED
  BY <1>1, <1>2 DEF Open

\* Cleanup.
LEMMA CleanUpKeeps == IInv /\ CleanUp => IInv'
<1> SUFFICES ASSUME IInv, CleanUp PROVE IInv'
  OBVIOUS
<1>1. CASE Sweep("clean", "unmark", "xclean")
  <2>1. pc = "clean"
    BY <1>1 DEF Sweep
  <2>2. disk.staged \cap Managed = {} => Fits(disk, "unmark", told)
    BY <2>1 DEF IInv, Fits, Disks, Journaled, Ready, Told
  <2>3. Fits(disk, "xclean", told)
    BY <2>1 DEF IInv, Fits, Disks, Journaled, Ready, Told
  <2> QED
    BY <1>1, <2>2, <2>3, SweepKeeps
<1>2. CASE Try("unmark", Unmarked(disk), "unjournal", "xclean")
  <2>1. pc = "unmark"
    BY <1>2 DEF Try
  <2>2. Fits(Unmarked(disk), "unjournal", told \cup Told)
    BY <2>1 DEF Unmarked, IInv, Fits, Disks, Journaled, Ready, Told
  <2>3. Fits(disk, "xclean", told)
    BY <2>1 DEF Unmarked, IInv, Fits, Disks, Journaled, Ready, Told
  <2>4. Fits(Unmarked(disk), "xclean", told)
    BY <2>1 DEF Unmarked, IInv, Fits, Disks, Journaled, Ready, Told
  <2> QED
    BY <1>2, <2>2, <2>3, <2>4, TryKeeps
<1>3. CASE Try("unjournal", Unplanned(disk), "xclean", "xclean")
  <2>1. pc = "unjournal"
    BY <1>3 DEF Try
  <2>2. Fits(Unplanned(disk), "xclean", told \cup Told)
    BY <2>1 DEF Unplanned, IInv, Fits, Disks, Journaled, Ready, Told
  <2>3. Fits(disk, "xclean", told)
    BY <2>1 DEF Unplanned, IInv, Fits, Disks, Journaled, Ready, Told
  <2>4. Fits(Unplanned(disk), "xclean", told)
    BY <2>1 DEF Unplanned, IInv, Fits, Disks, Journaled, Ready, Told
  <2> QED
    BY <1>3, <2>2, <2>3, <2>4, TryKeeps
<1>4. CASE "file" \in told /\ TryOr("xclean", Unlinked(disk, External), "xdone", "deleted")
  <2>1. pc = "xclean"
    BY <1>4 DEF TryOr
  <2>2. Fits(Unlinked(disk, External), "xdone", told \cup Told)
    BY <2>1, <1>4, ExternalIsNotManaged DEF Unlinked, IInv, Fits, Disks, Journaled, Ready, Told
  <2> QED
    BY <1>4, <2>2, TryOrKeeps
<1>5. CASE Last("xclean", disk, "deleted", "deleted")
  <2>1. pc = "xclean"
    BY <1>5 DEF Last
  <2>2. disk \in Disks /\ Journaled(disk)
    BY <2>1 DEF IInv, Fits, Disks, Journaled, Ready, Told
  <2> QED
    BY <1>5, <2>2, LastKeeps
<1>6. CASE Last("xdone", XForgotten(disk), "deleted", "deleted")
  <2>1. pc = "xdone"
    BY <1>6 DEF Last
  <2>2. XForgotten(disk) \in Disks /\ Journaled(XForgotten(disk))
    BY <2>1 DEF XForgotten, IInv, Fits, Disks, Journaled, Ready, Told
  <2> QED
    BY <1>6, <2>2, LastKeeps
<1> QED
  BY <1>1, <1>2, <1>3, <1>4, <1>5, <1>6 DEF CleanUp

\* Recovery.
LEMMA ReconcileManagedKeeps == IInv /\ ReconcileManaged => IInv'
<1> SUFFICES ASSUME IInv, ReconcileManaged PROVE IInv'
  OBVIOUS
<1>1. CASE Open
  BY <1>1, OpenKeeps
<1>2. CASE Sweep("reclean", "reunmark", "boot")
  <2>1. pc = "reclean"
    BY <1>2 DEF Sweep
  <2>2. disk.staged \cap Managed = {} => Fits(disk, "reunmark", told)
    BY <2>1 DEF IInv, Fits, Disks, Journaled, Ready, Told
  <2>3. Fits(disk, "boot", told)
    BY <2>1 DEF IInv, Fits, Disks, Journaled, Ready, Told
  <2> QED
    BY <1>2, <2>2, <2>3, SweepKeeps
<1>3. CASE Try("reunmark", Unmarked(disk), "reunjournal", "boot")
  <2>1. pc = "reunmark"
    BY <1>3 DEF Try
  <2>2. Fits(Unmarked(disk), "reunjournal", told \cup Told)
    BY <2>1 DEF Unmarked, IInv, Fits, Disks, Journaled, Ready, Told
  <2>3. Fits(disk, "boot", told)
    BY <2>1 DEF Unmarked, IInv, Fits, Disks, Journaled, Ready, Told
  <2>4. Fits(Unmarked(disk), "boot", told)
    BY <2>1 DEF Unmarked, IInv, Fits, Disks, Journaled, Ready, Told
  <2> QED
    BY <1>3, <2>2, <2>3, <2>4, TryKeeps
<1>4. CASE Try("reunjournal", Unplanned(disk), "boot", "boot")
  <2>1. pc = "reunjournal"
    BY <1>4 DEF Try
  <2>2. Fits(Unplanned(disk), "boot", told \cup Told)
    BY <2>1 DEF Unplanned, IInv, Fits, Disks, Journaled, Ready, Told
  <2>3. Fits(disk, "boot", told)
    BY <2>1 DEF Unplanned, IInv, Fits, Disks, Journaled, Ready, Told
  <2>4. Fits(Unplanned(disk), "boot", told)
    BY <2>1 DEF Unplanned, IInv, Fits, Disks, Journaled, Ready, Told
  <2> QED
    BY <1>4, <2>2, <2>3, <2>4, TryKeeps
<1>5. CASE Try("rerecord", RecordRestored(disk), "redefault", "boot")
  <2>1. pc = "rerecord"
    BY <1>5 DEF Try
  <2>2. Fits(RecordRestored(disk), "redefault", told \cup Told)
    BY <2>1 DEF RecordRestored, IInv, Fits, Disks, Journaled, Ready, Told, TypeOK
  <2>3. Fits(disk, "boot", told)
    BY <2>1 DEF RecordRestored, IInv, Fits, Disks, Journaled, Ready, Told, TypeOK
  <2>4. Fits(RecordRestored(disk), "boot", told)
    BY <2>1 DEF RecordRestored, IInv, Fits, Disks, Journaled, Ready, Told, TypeOK
  <2> QED
    BY <1>5, <2>2, <2>3, <2>4, TryKeeps
<1>6. CASE Try("redefault", DefaultRestored(disk, disk.saved), "putback", "boot")
  <2>1. pc = "redefault"
    BY <1>6 DEF Try
  <2>2. Fits(DefaultRestored(disk, disk.saved), "putback", told \cup Told)
    BY <2>1 DEF DefaultRestored, IInv, Fits, Disks, Journaled, Ready, Told, TypeOK
  <2>3. Fits(disk, "boot", told)
    BY <2>1 DEF DefaultRestored, IInv, Fits, Disks, Journaled, Ready, Told, TypeOK
  <2>4. Fits(DefaultRestored(disk, disk.saved), "boot", told)
    BY <2>1 DEF DefaultRestored, IInv, Fits, Disks, Journaled, Ready, Told, TypeOK
  <2> QED
    BY <1>6, <2>2, <2>3, <2>4, TryKeeps
<1>7. CASE Skip("putback", "boot")
  <2>1. pc = "putback"
    BY <1>7 DEF Skip
  <2>2. Fits(disk, "boot", told \cup Told)
    BY <2>1 DEF IInv, Fits, Disks, Journaled, Ready, Told
  <2> QED
    BY <1>7, <2>2, SkipKeeps
<1>8. ASSUME NEW f \in disk.staged \cap Managed,
             Try("putback", PutBack(disk, f), "putback", "boot")
      PROVE  IInv'
  <2>1. pc = "putback"
    BY <1>8 DEF Try
  <2>2. Fits(PutBack(disk, f), "putback", told \cup Told)
    BY <2>1, <1>8 DEF PutBack, IInv, Fits, Disks, Journaled, Ready, Told
  <2>3. Fits(disk, "boot", told)
    BY <2>1, <1>8 DEF PutBack, IInv, Fits, Disks, Journaled, Ready, Told
  <2>4. Fits(PutBack(disk, f), "boot", told)
    BY <2>1, <1>8 DEF PutBack, IInv, Fits, Disks, Journaled, Ready, Told
  <2> QED
    BY <1>8, <2>2, <2>3, <2>4, TryKeeps
<1>9. CASE disk.staged \cap Managed = {} /\ Skip("putback", "dropmark")
  <2>1. pc = "putback"
    BY <1>9 DEF Skip
  <2>2. Fits(disk, "dropmark", told \cup Told)
    BY <2>1, <1>9 DEF IInv, Fits, Disks, Journaled, Ready, Told
  <2> QED
    BY <1>9, <2>2, SkipKeeps
<1>10. CASE Try("dropmark", Unmarked(disk), "dropplan", "boot")
  <2>1. pc = "dropmark"
    BY <1>10 DEF Try
  <2>2. Fits(Unmarked(disk), "dropplan", told \cup Told)
    BY <2>1 DEF Unmarked, IInv, Fits, Disks, Journaled, Ready, Told
  <2>3. Fits(disk, "boot", told)
    BY <2>1 DEF Unmarked, IInv, Fits, Disks, Journaled, Ready, Told
  <2>4. Fits(Unmarked(disk), "boot", told)
    BY <2>1 DEF Unmarked, IInv, Fits, Disks, Journaled, Ready, Told
  <2> QED
    BY <1>10, <2>2, <2>3, <2>4, TryKeeps
<1>11. CASE Try("dropplan", Unplanned(disk), "boot", "boot")
  <2>1. pc = "dropplan"
    BY <1>11 DEF Try
  <2>2. Fits(Unplanned(disk), "boot", told \cup Told)
    BY <2>1 DEF Unplanned, IInv, Fits, Disks, Journaled, Ready, Told
  <2>3. Fits(disk, "boot", told)
    BY <2>1 DEF Unplanned, IInv, Fits, Disks, Journaled, Ready, Told
  <2>4. Fits(Unplanned(disk), "boot", told)
    BY <2>1 DEF Unplanned, IInv, Fits, Disks, Journaled, Ready, Told
  <2> QED
    BY <1>11, <2>2, <2>3, <2>4, TryKeeps
<1> QED
  BY <1>1, <1>2, <1>3, <1>4, <1>5, <1>6, <1>7, <1>8, <1>9, <1>10, <1>11 DEF ReconcileManaged

\* The external file's journal goes after the file.
LEMMA ReconcileExternalKeeps == IInv /\ ReconcileExternal => IInv'
<1> SUFFICES ASSUME IInv, ReconcileExternal PROVE IInv'
  OBVIOUS
<1>1. CASE Skip("bootx", "idle")
  <2>1. pc = "bootx"
    BY <1>1 DEF Skip
  <2>2. Fits(disk, "idle", told \cup Told)
    BY <2>1 DEF IInv, Fits, Disks, Journaled, Ready, Told
  <2> QED
    BY <1>1, <2>2, SkipKeeps
<1>2. CASE External \in disk.staged /\ disk.record /\ Try("bootx", PutBack(disk, External), "xwrite", "boot")
  <2>1. pc = "bootx"
    BY <1>2 DEF Try
  <2>2. Fits(PutBack(disk, External), "xwrite", told \cup Told)
    BY <2>1, <1>2, ExternalIsNotManaged DEF PutBack, IInv, Fits, Disks, Journaled, Ready, Told
  <2>3. Fits(disk, "boot", told)
    BY <2>1, <1>2, ExternalIsNotManaged DEF PutBack, IInv, Fits, Disks, Journaled, Ready, Told
  <2>4. Fits(PutBack(disk, External), "boot", told)
    BY <2>1, <1>2, ExternalIsNotManaged DEF PutBack, IInv, Fits, Disks, Journaled, Ready, Told
  <2> QED
    BY <1>2, <2>2, <2>3, <2>4, TryKeeps
<1>3. CASE External \in disk.staged /\ ~disk.record /\ Try("bootx", Unlinked(disk, External), "xend", "idle")
  <2>1. pc = "bootx"
    BY <1>3 DEF Try
  <2>2. Fits(Unlinked(disk, External), "xend", told \cup Told)
    BY <2>1, <1>3, ExternalIsNotManaged DEF Unlinked, IInv, Fits, Disks, Journaled, Ready, Told
  <2>3. Fits(disk, "idle", told)
    BY <2>1, <1>3, ExternalIsNotManaged DEF Unlinked, IInv, Fits, Disks, Journaled, Ready, Told
  <2>4. Fits(Unlinked(disk, External), "idle", told)
    BY <2>1, <1>3, ExternalIsNotManaged DEF Unlinked, IInv, Fits, Disks, Journaled, Ready, Told
  <2> QED
    BY <1>3, <2>2, <2>3, <2>4, TryKeeps
<1>4. CASE External \notin disk.staged /\ Skip("bootx", IF disk.record THEN "xwrite" ELSE "xend")
  <2>1. pc = "bootx"
    BY <1>4 DEF Skip
  <2>2. Fits(disk, IF disk.record THEN "xwrite" ELSE "xend", told \cup Told)
    BY <2>1, <1>4 DEF IInv, Fits, Disks, Journaled, Ready, Told
  <2> QED
    BY <1>4, <2>2, SkipKeeps
<1>5. CASE Try("xwrite", disk, "xend", "boot")
  <2>1. pc = "xwrite"
    BY <1>5 DEF Try
  <2>2. Fits(disk, "xend", told \cup Told)
    BY <2>1 DEF IInv, Fits, Disks, Journaled, Ready, Told
  <2>3. Fits(disk, "boot", told)
    BY <2>1 DEF IInv, Fits, Disks, Journaled, Ready, Told
  <2> QED
    BY <1>5, <2>2, <2>3, TryKeeps
<1>6. CASE Try("xend", XForgotten(disk), "idle", "idle")
  <2>1. pc = "xend"
    BY <1>6 DEF Try
  <2>2. Fits(XForgotten(disk), "idle", told \cup Told)
    BY <2>1 DEF XForgotten, IInv, Fits, Disks, Journaled, Ready, Told
  <2>3. Fits(disk, "idle", told)
    BY <2>1 DEF XForgotten, IInv, Fits, Disks, Journaled, Ready, Told
  <2>4. Fits(XForgotten(disk), "idle", told)
    BY <2>1 DEF XForgotten, IInv, Fits, Disks, Journaled, Ready, Told
  <2> QED
    BY <1>6, <2>2, <2>3, <2>4, TryKeeps
<1> QED
  BY <1>1, <1>2, <1>3, <1>4, <1>5, <1>6 DEF ReconcileExternal

\* The plan is durable before the first rename.
LEMMA PlanKeeps == IInv /\ Plan => IInv'
<1> SUFFICES ASSUME IInv, Plan PROVE IInv'
  OBVIOUS
<1>0. pc = "plan"
  BY DEF Plan, Skip
<1>1. Fits(Planned(disk), "stage", told \cup Told)
  BY <1>0 DEF Planned, IInv, Fits, Disks, Journaled, Ready, Told
<1>2. CASE Skip("plan", "inspect")
  <2>1. Fits(disk, "inspect", told \cup Told)
    BY <1>0 DEF IInv, Fits, Disks, Journaled, Ready, Told
  <2> QED
    BY <1>2, <2>1, SkipKeeps
<1>3. CASE Done(Planned(disk), "stage") /\ left' = disk.place \cap Managed
  BY <1>1, <1>3, DoneKeeps
<1>4. CASE \E e \in {disk, Planned(disk)} : Fault(e) /\ Answers("failed")
  BY <1>1, <1>4, AnswersFaultKeeps DEF Fits
<1> QED
  BY <1>2, <1>3, <1>4 DEF Plan

\* Files are renamed under the plan that names them.
LEMMA StageManagedKeeps == IInv /\ StageManaged => IInv'
<1> SUFFICES ASSUME IInv, StageManaged PROVE IInv'
  OBVIOUS
<1>0. pc = "stage"
  BY DEF StageManaged, Skip
<1>1. Fits(disk, "inspect", told \cup Told) /\ Fits(disk, "unstage", told)
  BY <1>0 DEF IInv, Fits, Disks, Journaled, Ready, Told
<1>2. CASE Skip("stage", "inspect")
  BY <1>1, <1>2, SkipKeeps
<1>3. ASSUME NEW f \in left
      PROVE  Fits(Staged(disk, f), "stage", told \cup Told) /\ Fits(Staged(disk, f), "unstage", told)
  <2>1. f \in Managed /\ f # External
    BY <1>3, ExternalIsNotManaged DEF IInv, TypeOK
  <2> QED
    BY <1>0, <2>1 DEF Staged, IInv, Fits, Disks, Journaled, Ready, Told
<1>4. ASSUME NEW f \in left, Done(Staged(disk, f), "stage"), left' = left \ {f}
      PROVE  IInv'
  BY <1>3, <1>4, DoneKeeps DEF IInv, TypeOK
<1>5. ASSUME NEW f \in left, NEW e \in {disk, Staged(disk, f)}, Fails(e, "unstage"), left' = {}
      PROVE  IInv'
  BY <1>1, <1>3, <1>5, FailsKeeps
<1> QED
  BY <1>2, <1>4, <1>5 DEF StageManaged

-----------------------------------------------------------------------------
(* The theorem.                                                            *)

LEMMA InitInv == Init => IInv
<1> SUFFICES ASSUME Init PROVE IInv
  OBVIOUS
<1>1. \A k \in Kinds : FilesOf(k) \subseteq Managed \cup {External}
  BY DEF Kinds, FilesOf
<1>2. TypeOK
  BY <1>1, BoundsAreNat DEF Init, TypeOK, Disks
<1> QED
  BY <1>2 DEF Init, TypeOK, IInv, Fits, Disks, Journaled, Ready

\* A request puts its own journal in the place of the one that was left.
LEMMA BeginKeeps == IInv /\ Begin => IInv'
<1> SUFFICES ASSUME IInv, Begin PROVE IInv'
  OBVIOUS
<1>1. /\ disk' = With(disk, NoJournal) /\ old' = old \cup Journal(disk) /\ before' = disk'
      /\ answer' = "none" /\ told' = {} /\ pc' \in {"xplan", "plan"}
      /\ UNCHANGED <<kind, left, faults, crashes>>
      /\ pc' = "xplan" => kind = "local"
  BY DEF Begin
<1>2. hit' \subseteq Hits
  BY DEF Begin, IInv, TypeOK, Hits
<1>3. disk' \in Disks /\ Journaled(disk') /\ disk'.staged \cap Managed = {} /\ ~disk'.marker
  <2>1. With(disk, NoJournal).marker = FALSE
    BY DEF With, NoJournal, IInv, Fits, Disks
  <2> QED
    BY <1>1, <2>1, WithKeeps DEF IInv, Fits, NoJournal
<1>4. Fits(disk', pc', told')
  BY <1>1, <1>3 DEF Fits, Ready
<1>5. old' \subseteq Journals
  BY <1>1, JournalType DEF IInv, TypeOK, Fits
<1>6. TypeOK'
  BY <1>1, <1>2, <1>3, <1>5 DEF IInv, TypeOK, Hits
<1> QED
  BY <1>1, <1>4, <1>6 DEF IInv, Fits, Journaled, Ready

LEMMA NextInv == IInv /\ [Next]_vars => IInv'
<1> SUFFICES ASSUME IInv, [Next]_vars PROVE IInv'
  OBVIOUS
<1>1. CASE Begin
  BY <1>1, BeginKeeps
<1>2. CASE Server
  BY <1>2, StageExternalKeeps, PlanKeeps, StageManagedKeeps, UnstageKeeps, CommitKeeps,
     RollbackKeeps, CleanUpKeeps, ReconcileManagedKeeps, ReconcileExternalKeeps DEF Server
<1>3. CASE Restart
  <2>1. Fits(disk', pc', told')
    BY <1>3 DEF Restart, IInv, Fits, Disks, Journaled, Ready
  <2>2. crashes' \in 0 .. MaxCrashes
    BY <1>3, BoundsAreNat DEF Restart, IInv, TypeOK
  <2>3. hit' \subseteq Hits
    BY <1>3, WindowsType DEF Restart, IInv, TypeOK, Hits
  <2>4. TypeOK'
    BY <1>3, <2>2, <2>3 DEF Restart, IInv, TypeOK, Hits
  <2> QED
    BY <1>3, <2>1, <2>4 DEF Restart, IInv, Fits, Journaled, Ready
<1>4. ASSUME NEW f \in Managed, Reinstall(f) PROVE IInv'
  <2>1. Fits(disk', pc', told')
    BY <1>4 DEF Reinstall, IInv, Fits, Disks, Journaled, Ready
  <2> QED
    BY <1>4, <2>1 DEF Reinstall, TypeOK, IInv, Fits, Journaled, Ready
<1>5. CASE UNCHANGED vars
  BY <1>5 DEF vars, IInv, TypeOK, Fits, Journaled, Ready
<1> QED
  BY <1>1, <1>2, <1>3, <1>4, <1>5 DEF Next

\* The types of the state, for any files and any bounds.
THEOREM TypeCorrect == Spec => []TypeOK
<1>1. IInv => TypeOK
  BY DEF IInv
<1> QED
  BY <1>1, InitInv, NextInv, PTL DEF Spec

\* A file that the deletion renamed is at every moment named by a journal that
\* a new server will find, and a commit marker belongs to a journal.
THEOREM ResidueJournaled == Spec => []ResidueIsJournaled
<1>1. IInv => ResidueIsJournaled
  BY DEF IInv, Fits, Journaled, ResidueIsJournaled
<1> QED
  BY <1>1, InitInv, NextInv, PTL DEF Spec
-----------------------------------------------------------------------------
(* Atomicity: the deletion is all or nothing, and its answer stays true, as *)
(* long as no failure, restart or further request falls in one of the       *)
(* windows that ModelDeletion names. Fate says of every step what has       *)
(* become of the files, the registry and the settings; at rest it leaves    *)
(* what a new server can decide from journal, marker and registry alone     *)
(* (Resting). Requests may follow one that was committed and not cleaned    *)
(* up: they find nothing to delete, and nothing to bring back (Void).       *)

Whole(d) == d.place \cup d.staged = before.place
SameOwners(d) == d.record = before.record /\ d.default = before.default
Kept(d) == Whole(d) /\ SameOwners(d)
Gone(d) == d.place = {} /\ ~d.record /\ ~d.default
\* There was nothing left to delete, and there still is not.
Void(d) == kind = "catalog" /\ Gone(before) /\ Gone(d)

\* Nothing but files was touched yet, or everything but files is back.
KeptSteps == {"xplan", "xstage", "xabandon", "plan", "stage", "unstage", "unplan",
              "inspect", "attach", "clear", "putback", "dropmark", "dropplan", "xwrite"}
UnattachedSteps == {"xplan", "xstage", "xabandon", "plan", "stage", "unstage", "unplan", "inspect", "attach"}
\* Every file is staged; the snapshot is attached; the commit is durable.
GatheredSteps == {"inspect", "attach", "clear", "checkcleared", "remove", "mark"}
AttachedSteps == {"clear", "checkcleared", "remove", "mark", "rerecord", "redefault"}
CommittedSteps == {"checkmarked", "clean", "unmark", "unjournal", "xclean", "xdone",
                   "reclean", "reunmark", "reunjournal"}
WholeSteps == KeptSteps \cup AttachedSteps \cup RollbackSteps \cup {"checkmarked"}
OwnerSteps == {"xback", "relist", "xforget", "undefault"}

\* What a new server finds.
Resting(d) ==
  /\ d.journal = "none" => Kept(d) \/ Gone(d)
  /\ d.journal = "plan" => Kept(d) /\ ~d.marker
  /\ d.journal = "recovery" => IF d.marker THEN Gone(d) ELSE Whole(d) /\ d.saved = before.default

Fate(d, p) ==
  /\ p \in KeptSteps => SameOwners(d)
  /\ p \in WholeSteps => Whole(d)
  /\ p \in UnattachedSteps => d.journal # "recovery" /\ ~d.marker
  /\ p \in GatheredSteps => d.place = {}
  /\ p \in AttachedSteps => d.journal = "recovery" /\ ~d.marker
  /\ p \in {"checkcleared", "remove", "mark"} => ~d.default
  /\ p = "mark" => ~d.record
  /\ p \in CommittedSteps => Gone(d)
  /\ p \in {"checkmarked", "clean", "unmark", "reclean", "reunmark"} => d.marker /\ d.journal = "recovery"
  /\ p \in {"xclean", "xdone"} => d.journal = "none" \/ (d.journal = "recovery" /\ d.marker)
  /\ p \in {"rollback", "backmark", "backplan"} => d.journal = "recovery" \/ (SameOwners(d) /\ ~d.marker)
  /\ p \in OwnerSteps => d.journal = "none" \/ (d.journal = "recovery" /\ ~d.marker /\ SameOwners(d))
  /\ p \in {"xforget", "undefault", "redefault"} => d.record = before.record
  /\ p \in {"putback", "dropmark", "dropplan"} => ~d.marker
  /\ p \in {"bootx", "xwrite", "xend"} => d.journal = "none" /\ (Kept(d) \/ Gone(d))
  /\ p \in {"idle", "boot"} => Resting(d)
  /\ p \in {"xplan", "xstage"} => External \in d.place
  /\ p = "plan" => External \notin d.place
  /\ p \in WholeSteps /\ d.journal = "recovery" => d.saved = before.default

\* What was answered binds every later step, until the next request.
Promised(d, p, a) ==
  /\ p \in RequestSteps => a = "none"
  /\ a = "deleted" => Void(d) \/
       /\ Gone(d)
       /\ d.journal = "none" \/ (d.journal = "recovery" /\ (d.marker \/ p = "reunjournal"))
       /\ p \notin {"rerecord", "redefault", "putback", "dropmark", "dropplan", "xwrite"}
  /\ a = "failed" => Void(d) \/
       /\ Kept(d) /\ ~d.marker
       /\ p \notin {"reclean", "reunmark", "reunjournal"}

\* What other requests left was committed, or has nothing to bring back.
Harmless(o) == IF o.marker THEN o.journal = "recovery"
               ELSE o.staged = {} /\ (o.journal = "recovery" => ~o.saved)
Behind(d, os) == os # {} => Void(d) /\ \A o \in os : Harmless(o)

\* Nothing is on the disk that was not there when the request arrived.
Bound(d) ==
  /\ d.place \cup d.staged \subseteq FilesOf(kind)
  /\ d.record => before.record
  /\ d.default => before.default

\* Whose files they are.
FilesInv ==
  /\ before.record = (kind # "catalog")
  /\ pc = "stage" => disk.place = left
  /\ "file" \in told => External \in before.place

Fine(d, p) == Fate(d, p) /\ Promised(d, p, answer) /\ Behind(d, old) /\ Bound(d)

AInv == hit = {} => Fine(disk, pc) /\ FilesInv

-----------------------------------------------------------------------------
(* The forms of a step, outside the windows.                               *)

\* A disk that bears the answer out.
Honest(d, a) ==
  /\ a = "deleted" => Gone(d) /\ (d.journal = "none" \/ (d.journal = "recovery" /\ d.marker))
  /\ a = "failed" => Kept(d) /\ ~d.marker
Answerable(d, a) == Resting(d) /\ Honest(d, a) /\ Behind(d, old) /\ Bound(d)

Calm(d) == hit = {} /\ Windows(d) = {}     \* a failure that leaves d is outside the windows

LEMMA CalmMeans ==
  ASSUME NEW d, Calm(d)
  PROVE  /\ hit = {}
         /\ pc \in {"unmark", "unjournal", "reunmark", "reunjournal"} => d.journal = "none" \/ d.marker
         /\ pc \in {"backplan", "xback", "relist", "xforget", "undefault"} /\ d.journal = "none"
              => d.record = before.record /\ d.default = before.default
         /\ pc \in {"rollback", "backmark", "backplan", "xback", "relist", "xforget", "undefault"} => ~d.marker
<1>1. hit = {} /\ Windows(d) = {}
  BY DEF Calm
<1>2. "cleanup" \notin Windows(d) /\ "unwind" \notin Windows(d) /\ "uncommit" \notin Windows(d)
  BY <1>1
<1>3. ~(/\ pc \in {"unmark", "unjournal", "reunmark", "reunjournal"}
        /\ d.journal # "none" /\ ~d.marker)
  BY <1>2 DEF Windows
<1>4. ~(/\ pc \in {"backplan", "xback", "relist", "xforget", "undefault"} /\ d.journal = "none"
        /\ d.record # before.record \/ d.default # before.default)
  BY <1>2 DEF Windows
<1>5. ~(pc \in RollbackSteps /\ d.marker)
  BY <1>2 DEF Windows
<1> QED
  BY <1>1, <1>3, <1>4, <1>5 DEF RollbackSteps

\* Renames lose no file.
LEMMA PutBackWhole ==
  ASSUME NEW d \in Disks, NEW f \in d.staged
  PROVE  PutBack(d, f).place \cup PutBack(d, f).staged = d.place \cup d.staged
BY DEF Disks, PutBack

\* Neither does staging.
LEMMA StagedWhole ==
  ASSUME NEW d \in Disks, NEW f \in d.place
  PROVE  Staged(d, f).place \cup Staged(d, f).staged = d.place \cup d.staged
BY DEF Disks, Staged

\* Outside the windows every step leaves a disk that a new server can settle.
LEMMA AlwaysResting == IInv /\ AInv /\ Calm(disk) => Resting(disk)
<1> SUFFICES ASSUME IInv, AInv, Calm(disk) PROVE Resting(disk)
  OBVIOUS
<1>1. Fate(disk, pc) /\ disk \in Disks /\ before \in Disks /\ Ready(disk, pc, told)
  BY CalmMeans DEF AInv, Fine, IInv, TypeOK, Fits
<1>2. CASE pc \in RollbackSteps
  BY <1>1, <1>2, CalmMeans DEF Fate, Resting, Kept, Whole, SameOwners, Disks, WholeSteps, OwnerSteps
<1>3. CASE pc \in CommittedSteps
  BY <1>1, <1>3, CalmMeans DEF Fate, Resting, Disks, Ready, CommittedSteps, WholeSteps
<1>4. CASE pc \in KeptSteps \cup AttachedSteps
  BY <1>1, <1>4
     DEF Fate, Resting, Kept, Disks, Ready, KeptSteps, AttachedSteps, UnattachedSteps, WholeSteps
<1>5. CASE pc \in {"idle", "boot", "bootx", "xend"}
  BY <1>1, <1>5 DEF Fate, Resting
<1> QED
  BY <1>2, <1>3, <1>4, <1>5 DEF IInv, Fits, CommittedSteps, KeptSteps, AttachedSteps

\* A request that gives up leaves it to that server.
LEMMA StuckFine == IInv /\ AInv /\ Calm(disk) => Answerable(disk, "stuck")
BY AlwaysResting, CalmMeans DEF AInv, Fine, Answerable, Honest

\* What holds of a disk goes on when neither it nor what the request has found
\* changes.
LEMMA DiskGoesOn ==
  ASSUME NEW d, UNCHANGED <<kind, before>>
  PROVE  /\ Whole(d)' = Whole(d) /\ SameOwners(d)' = SameOwners(d) /\ Kept(d)' = Kept(d)
         /\ Gone(d)' = Gone(d) /\ Void(d)' = Void(d) /\ Resting(d)' = Resting(d) /\ Bound(d)' = Bound(d)
<1>1. Whole(d)' = Whole(d) /\ SameOwners(d)' = SameOwners(d) /\ Gone(d)' = Gone(d)
  BY DEF Whole, SameOwners, Gone
<1>2. Gone(before)' = Gone(before)
  BY DEF Gone
<1>3. Void(d)' = Void(d) /\ Kept(d)' = Kept(d)
  BY <1>1, <1>2 DEF Void, Kept
<1>4. Resting(d)' = Resting(d)
  BY <1>1, <1>3 DEF Resting
<1>5. Bound(d)' = Bound(d)
  BY DEF Bound, FilesOf
<1> QED
  BY <1>1, <1>3, <1>4, <1>5

\* So does the fate of a step.
LEMMA FateGoesOn ==
  ASSUME NEW d, NEW p, disk' = d, pc' = p, UNCHANGED <<kind, before>>, Fate(d, p)
  PROVE  Fate(disk, pc)'
<1>1. Fate(d, p)' = Fate(d, p)
  BY DiskGoesOn DEF Fate
<1> QED
  BY <1>1

\* So do the promise of an answer, and what other requests left.
LEMMA FineMoves ==
  ASSUME NEW d, NEW p, NEW a, NEW os, disk' = d, pc' = p, answer' = a, old' = os,
         UNCHANGED <<kind, before>>, Fate(d, p), Promised(d, p, a), Behind(d, os), Bound(d)
  PROVE  Fine(disk, pc)'
<1>1. Fate(disk, pc)'
  BY FateGoesOn
<1>2. Promised(d, p, a)' = Promised(d, p, a)
  BY DiskGoesOn DEF Promised
<1>3. Behind(d, os)' = Behind(d, os)
  BY DiskGoesOn DEF Behind, Harmless
<1>4. Bound(d)' = Bound(d)
  BY DiskGoesOn
<1>5. Promised(disk, pc, answer)' /\ Behind(disk, old)' /\ Bound(disk)'
  BY <1>2, <1>3, <1>4
<1> QED
  BY <1>1, <1>5 DEF Fine

LEMMA FineGoesOn ==
  ASSUME NEW d, NEW p, disk' = d, pc' = p, UNCHANGED <<kind, before, old, answer>>, Fine(d, p)
  PROVE  Fine(disk, pc)'
BY FineMoves DEF Fine

\* A step that succeeds.
LEMMA DoneFine ==
  ASSUME AInv, NEW d, NEW p, Done(d, p), hit = {} => Fine(d, p), p = "stage" => d.place = left'
  PROVE  AInv'
<1>1. /\ disk' = d /\ pc' = p /\ UNCHANGED <<kind, old, before, answer, hit>>
      /\ told' = told \cup Told
  BY DEF Done, Goes
<1> SUFFICES ASSUME hit' = {} PROVE Fine(disk, pc)' /\ FilesInv'
  BY DEF AInv
<1>2. Fine(disk, pc)'
  BY <1>1, FineGoesOn
<1>3. "file" \in told' => External \in before.place
  <2>1. pc = "xstage" => External \in before.place
    BY <1>1 DEF AInv, Fine, Fate, Whole, WholeSteps, KeptSteps
  <2> QED
    BY <1>1, <2>1 DEF AInv, FilesInv, Told
<1>4. FilesInv'
  BY <1>1, <1>3 DEF AInv, FilesInv
<1> QED
  BY <1>2, <1>4

\* A step that fails outside the windows.
LEMMA FailsFine ==
  ASSUME AInv, NEW d, NEW p, Fails(d, p), Calm(d) => Fine(d, p), p # "stage"
  PROVE  AInv'
<1>1. /\ disk' = d /\ pc' = p /\ UNCHANGED <<kind, old, before, answer, told>>
      /\ hit' = hit \cup Windows(d)
  BY DEF Fails, Fault, Goes
<1>2. hit' = {} => Calm(d)
  BY <1>1 DEF Calm
<1> SUFFICES ASSUME hit' = {} PROVE Fine(disk, pc)' /\ FilesInv'
  BY DEF AInv
<1>3. Fine(disk, pc)'
  BY <1>1, <1>2, FineGoesOn
<1>4. FilesInv'
  BY <1>1, <1>2 DEF AInv, Calm, FilesInv
<1> QED
  BY <1>3, <1>4

\* A step that answers.
LEMMA AnswersFine ==
  ASSUME AInv, NEW d, disk' = d, NEW a, Answers(a), hit' = {} => hit = {} /\ Answerable(d, a)
  PROVE  AInv'
<1> SUFFICES ASSUME hit' = {} PROVE Fine(disk, pc)' /\ FilesInv'
  BY DEF AInv
<1>1. pc' = "idle" /\ answer' = a /\ UNCHANGED <<kind, old, before, left, told>>
  BY DEF Answers
<1>2. Fate(d, "idle")
  BY DEF Answerable, Fate, Resting, KeptSteps, UnattachedSteps, GatheredSteps,
         AttachedSteps, CommittedSteps, WholeSteps, OwnerSteps
<1>3. Promised(d, "idle", a)
  BY DEF Answerable, Promised, Honest, RequestSteps, RollbackSteps
<1>4. Fine(disk, pc)'
  BY <1>1, <1>2, <1>3, FineMoves DEF Answerable
<1>5. FilesInv'
  BY <1>1 DEF FilesInv, AInv
<1> QED
  BY <1>4, <1>5

\* A failed step that answers.
LEMMA AnswersFaultFine ==
  ASSUME AInv, NEW d, NEW a, \E e \in {disk, d} : Fault(e) /\ Answers(a),
         Calm(disk) => Answerable(disk, a), Calm(d) => Answerable(d, a)
  PROVE  AInv'
<1>1. PICK e \in {disk, d} : Fault(e) /\ Answers(a)
  OBVIOUS
<1>2. disk' = e /\ (hit' = {} => Calm(e)) /\ (Calm(e) => hit = {} /\ Answerable(e, a))
  BY <1>1 DEF Fault, Calm
<1> QED
  BY <1>1, <1>2, AnswersFine

\* The same for the forms that ModelDeletion builds its steps from.
LEMMA TryFine ==
  ASSUME AInv, NEW step, NEW d, NEW p, NEW h, Try(step, d, p, h), p # "stage", h # "stage",
         hit = {} => Fine(d, p), Calm(disk) => Fine(disk, h), Calm(d) => Fine(d, h)
  PROVE  AInv'
BY DoneFine, FailsFine DEF Try

LEMMA TryOrFine ==
  ASSUME AInv, NEW step, NEW d, NEW p, NEW a, TryOr(step, d, p, a), p # "stage",
         hit = {} => Fine(d, p), Calm(disk) => Answerable(disk, a), Calm(d) => Answerable(d, a)
  PROVE  AInv'
<1>1. CASE Done(d, p)
  BY <1>1, DoneFine
<1>2. CASE \E e \in {disk, d} : Fault(e) /\ Answers(a)
  BY <1>2, AnswersFaultFine
<1> QED
  BY <1>1, <1>2 DEF TryOr

LEMMA LastFine ==
  ASSUME AInv, NEW step, NEW d, NEW a, NEW b, Last(step, d, a, b),
         hit = {} => Answerable(d, a), Calm(disk) => Answerable(disk, b), Calm(d) => Answerable(d, b)
  PROVE  AInv'
<1>1. CASE disk' = d /\ Answers(a) /\ UNCHANGED hit
  BY <1>1, AnswersFine
<1>2. CASE \E e \in {disk, d} : Fault(e) /\ Answers(b)
  BY <1>2, AnswersFaultFine
<1> QED
  BY <1>1, <1>2 DEF Last

LEMMA SkipFine ==
  ASSUME AInv, NEW step, NEW p, Skip(step, p), hit = {} => Fine(disk, p), p # "stage"
  PROVE  AInv'
BY DoneFine DEF Skip

-----------------------------------------------------------------------------
(* The steps of the handler and of recovery.                               *)

USE DEF KeptSteps, UnattachedSteps, GatheredSteps, AttachedSteps, CommittedSteps, WholeSteps, OwnerSteps

\* The external file: staged or back, the owners untouched.
LEMMA StageExternalFine == IInv /\ AInv /\ StageExternal => AInv'
<1> SUFFICES ASSUME IInv, AInv, StageExternal PROVE AInv'
  OBVIOUS
<1>1. CASE ~disk.xjournal /\ TryOr("xplan", XPlanned(disk), "xstage", "failed")
  <2>1. pc = "xplan"
    BY <1>1 DEF TryOr
  <2>2. hit = {} => Fine(XPlanned(disk), "xstage")
    BY <2>1, <1>1
       DEF AInv, Fine, Fate, Promised, Behind, Bound, FilesInv, Kept, Gone, Void, Whole, SameOwners, IInv,
           Fits, Disks, XPlanned
  <2>3. Calm(disk) => Answerable(disk, "failed")
    BY <2>1, <1>1, CalmMeans
       DEF AInv, Fine, Fate, Promised, Behind, Bound, FilesInv, Kept, Gone, Void, Whole, SameOwners, IInv,
           Fits, Disks, Answerable, Honest, Resting
  <2>4. Calm(XPlanned(disk)) => Answerable(XPlanned(disk), "failed")
    BY <2>1, <1>1, CalmMeans
       DEF AInv, Fine, Fate, Promised, Behind, Bound, FilesInv, Kept, Gone, Void, Whole, SameOwners, IInv,
           Fits, Disks, Answerable, Honest, Resting, XPlanned
  <2> QED
    BY <1>1, <2>2, <2>3, <2>4, TryOrFine
<1>2. ASSUME pc = "xplan", Answers("failed"), UNCHANGED <<disk, hit, faults>>
      PROVE  AInv'
  <2>1. hit = {} => Answerable(disk, "failed")
    BY <1>2
       DEF AInv, Fine, Fate, Promised, Behind, Bound, FilesInv, Kept, Gone, Void, Whole, SameOwners, IInv,
           Fits, Disks, Answerable, Honest, Resting, Ready
  <2> QED
    BY <1>2, <2>1, AnswersFine
<1>3. ASSUME pc = "xstage", UNCHANGED left,
             Done(Staged(disk, External), "plan") \/ Fails(disk, "xabandon")
      PROVE  AInv'
  <2>1. hit = {} => Staged(disk, External).place \cup Staged(disk, External).staged
                      = disk.place \cup disk.staged
    BY <1>3, StagedWhole DEF AInv, Fine, Fate, IInv, Fits
  <2>2. hit = {} => Fine(Staged(disk, External), "plan")
    BY <1>3, <2>1
       DEF AInv, Fine, Fate, Promised, Behind, Bound, FilesInv, Kept, Gone, Void, Whole, SameOwners, IInv,
           Fits, Disks, Staged
  <2>3. Calm(disk) => Fine(disk, "xabandon")
    BY <1>3, CalmMeans
       DEF AInv, Fine, Fate, Promised, Behind, Bound, FilesInv, Kept, Gone, Void, Whole, SameOwners, IInv,
           Fits, Disks
  <2> QED
    BY <1>3, <2>2, <2>3, DoneFine, FailsFine
<1>4. CASE Last("xabandon", XForgotten(disk), "failed", "failed")
  <2>1. pc = "xabandon"
    BY <1>4 DEF Last
  <2>2. hit = {} => Answerable(XForgotten(disk), "failed")
    BY <2>1
       DEF AInv, Fine, Fate, Promised, Behind, Bound, FilesInv, Kept, Gone, Void, Whole, SameOwners, IInv,
           Fits, Disks, Answerable, Honest, Resting, XForgotten
  <2>3. Calm(disk) => Answerable(disk, "failed")
    BY <2>1, CalmMeans
       DEF AInv, Fine, Fate, Promised, Behind, Bound, FilesInv, Kept, Gone, Void, Whole, SameOwners, IInv,
           Fits, Disks, Answerable, Honest, Resting
  <2>4. Calm(XForgotten(disk)) => Answerable(XForgotten(disk), "failed")
    BY <2>1, CalmMeans
       DEF AInv, Fine, Fate, Promised, Behind, Bound, FilesInv, Kept, Gone, Void, Whole, SameOwners, IInv,
           Fits, Disks, Answerable, Honest, Resting, XForgotten
  <2> QED
    BY <1>4, <2>2, <2>3, <2>4, LastFine
<1> QED
  BY <1>1, <1>2, <1>3, <1>4 DEF StageExternal

\* Staging that failed leaves a plan at most.
LEMMA UnstageFine == IInv /\ AInv /\ Unstage => AInv'
<1> SUFFICES ASSUME IInv, AInv, Unstage PROVE AInv'
  OBVIOUS
<1>1. ASSUME NEW f \in disk.staged \cap Managed,
             TryOr("unstage", PutBack(disk, f), "unstage", "failed")
      PROVE  AInv'
  <2>1. pc = "unstage"
    BY <1>1 DEF TryOr
  <2>2. PutBack(disk, f).place \cup PutBack(disk, f).staged = disk.place \cup disk.staged
    BY <2>1, <1>1, PutBackWhole DEF IInv, Fits
  <2>3. hit = {} => Fine(PutBack(disk, f), "unstage")
    BY <2>1, <1>1, <2>2
       DEF AInv, Fine, Fate, Promised, Behind, Bound, FilesInv, Kept, Gone, Void, Whole, SameOwners, IInv,
           Fits, Disks, PutBack
  <2>4. Calm(disk) => Answerable(disk, "failed")
    BY <2>1, <1>1, <2>2, CalmMeans
       DEF AInv, Fine, Fate, Promised, Behind, Bound, FilesInv, Kept, Gone, Void, Whole, SameOwners, IInv,
           Fits, Disks, Answerable, Honest, Resting
  <2>5. Calm(PutBack(disk, f)) => Answerable(PutBack(disk, f), "failed")
    BY <2>1, <1>1, <2>2, CalmMeans
       DEF AInv, Fine, Fate, Promised, Behind, Bound, FilesInv, Kept, Gone, Void, Whole, SameOwners, IInv,
           Fits, Disks, Answerable, Honest, Resting, PutBack
  <2> QED
    BY <1>1, <2>3, <2>4, <2>5, TryOrFine
<1>2. CASE disk.staged \cap Managed = {} /\ Skip("unstage", "unplan")
  <2>1. pc = "unstage"
    BY <1>2 DEF Skip
  <2>2. hit = {} => Fine(disk, "unplan")
    BY <2>1, <1>2
       DEF AInv, Fine, Fate, Promised, Behind, Bound, FilesInv, Kept, Gone, Void, Whole, SameOwners, IInv,
           Fits, Disks
  <2> QED
    BY <1>2, <2>2, SkipFine
<1>3. CASE Last("unplan", Unplanned(disk), "failed", "failed")
  <2>1. pc = "unplan"
    BY <1>3 DEF Last
  <2>2. hit = {} => Answerable(Unplanned(disk), "failed")
    BY <2>1
       DEF AInv, Fine, Fate, Promised, Behind, Bound, FilesInv, Kept, Gone, Void, Whole, SameOwners, IInv,
           Fits, Disks, Answerable, Honest, Resting, Unplanned
  <2>3. Calm(disk) => Answerable(disk, "failed")
    BY <2>1, CalmMeans
       DEF AInv, Fine, Fate, Promised, Behind, Bound, FilesInv, Kept, Gone, Void, Whole, SameOwners, IInv,
           Fits, Disks, Answerable, Honest, Resting
  <2>4. Calm(Unplanned(disk)) => Answerable(Unplanned(disk), "failed")
    BY <2>1, CalmMeans
       DEF AInv, Fine, Fate, Promised, Behind, Bound, FilesInv, Kept, Gone, Void, Whole, SameOwners, IInv,
           Fits, Disks, Answerable, Honest, Resting, Unplanned
  <2> QED
    BY <1>3, <2>2, <2>3, <2>4, LastFine
<1> QED
  BY <1>1, <1>2, <1>3 DEF Unstage

\* Every file is staged before an owner changes, every owner before the marker.
LEMMA CommitFine == IInv /\ AInv /\ Commit => AInv'
<1> SUFFICES ASSUME IInv, AInv, Commit PROVE AInv'
  OBVIOUS
<1>1. CASE Try("inspect", disk, "attach", IF disk.journal = "none" THEN "xback" ELSE "rollback")
  <2>1. pc = "inspect"
    BY <1>1 DEF Try
  <2>2. hit = {} => Fine(disk, "attach")
    BY <2>1
       DEF AInv, Fine, Fate, Promised, Behind, Bound, FilesInv, Kept, Gone, Void, Whole, SameOwners, IInv,
           Fits, Disks
  <2>3. Calm(disk) => Fine(disk, IF disk.journal = "none" THEN "xback" ELSE "rollback")
    BY <2>1, CalmMeans
       DEF AInv, Fine, Fate, Promised, Behind, Bound, FilesInv, Kept, Gone, Void, Whole, SameOwners, IInv,
           Fits, Disks
  <2> QED
    BY <1>1, <2>2, <2>3, TryFine
<1>2. CASE Try("attach", WithRecovery(disk), "clear", IF disk.journal = "none" THEN "xback" ELSE "rollback")
  <2>1. pc = "attach"
    BY <1>2 DEF Try
  <2>2. hit = {} => Fine(WithRecovery(disk), "clear")
    BY <2>1
       DEF AInv, Fine, Fate, Promised, Behind, Bound, FilesInv, Kept, Gone, Void, Whole, SameOwners, IInv,
           Fits, Disks, WithRecovery
  <2>3. Calm(disk) => Fine(disk, IF disk.journal = "none" THEN "xback" ELSE "rollback")
    BY <2>1, CalmMeans
       DEF AInv, Fine, Fate, Promised, Behind, Bound, FilesInv, Kept, Gone, Void, Whole, SameOwners, IInv,
           Fits, Disks
  <2>4. Calm(WithRecovery(disk)) => Fine(WithRecovery(disk), IF disk.journal = "none" THEN "xback" ELSE "rollback")
    BY <2>1, CalmMeans
       DEF AInv, Fine, Fate, Promised, Behind, Bound, FilesInv, Kept, Gone, Void, Whole, SameOwners, IInv,
           Fits, Disks, WithRecovery
  <2> QED
    BY <1>2, <2>2, <2>3, <2>4, TryFine
<1>3. CASE Try("clear", Cleared(disk), "checkcleared", "rollback")
  <2>1. pc = "clear"
    BY <1>3 DEF Try
  <2>2. hit = {} => Fine(Cleared(disk), "checkcleared")
    BY <2>1
       DEF AInv, Fine, Fate, Promised, Behind, Bound, FilesInv, Kept, Gone, Void, Whole, SameOwners, IInv,
           Fits, Disks, Cleared
  <2>3. Calm(disk) => Fine(disk, "rollback")
    BY <2>1, CalmMeans
       DEF AInv, Fine, Fate, Promised, Behind, Bound, FilesInv, Kept, Gone, Void, Whole, SameOwners, IInv,
           Fits, Disks
  <2>4. Calm(Cleared(disk)) => Fine(Cleared(disk), "rollback")
    BY <2>1, CalmMeans
       DEF AInv, Fine, Fate, Promised, Behind, Bound, FilesInv, Kept, Gone, Void, Whole, SameOwners, IInv,
           Fits, Disks, Cleared
  <2> QED
    BY <1>3, <2>2, <2>3, <2>4, TryFine
<1>4. CASE Try("checkcleared", disk, "remove", "rollback")
  <2>1. pc = "checkcleared"
    BY <1>4 DEF Try
  <2>2. hit = {} => Fine(disk, "remove")
    BY <2>1
       DEF AInv, Fine, Fate, Promised, Behind, Bound, FilesInv, Kept, Gone, Void, Whole, SameOwners, IInv,
           Fits, Disks
  <2>3. Calm(disk) => Fine(disk, "rollback")
    BY <2>1, CalmMeans
       DEF AInv, Fine, Fate, Promised, Behind, Bound, FilesInv, Kept, Gone, Void, Whole, SameOwners, IInv,
           Fits, Disks
  <2> QED
    BY <1>4, <2>2, <2>3, TryFine
<1>5. CASE kind = "catalog" /\ Skip("remove", "mark")
  <2>1. pc = "remove"
    BY <1>5 DEF Skip
  <2>2. hit = {} => Fine(disk, "mark")
    BY <2>1, <1>5
       DEF AInv, Fine, Fate, Promised, Behind, Bound, FilesInv, Kept, Gone, Void, Whole, SameOwners, IInv,
           Fits, Disks
  <2> QED
    BY <1>5, <2>2, SkipFine
<1>6. CASE Try("remove", Removed(disk), "mark", "rollback")
  <2>1. pc = "remove"
    BY <1>6 DEF Try
  <2>2. hit = {} => Fine(Removed(disk), "mark")
    BY <2>1
       DEF AInv, Fine, Fate, Promised, Behind, Bound, FilesInv, Kept, Gone, Void, Whole, SameOwners, IInv,
           Fits, Disks, Removed
  <2>3. Calm(disk) => Fine(disk, "rollback")
    BY <2>1, CalmMeans
       DEF AInv, Fine, Fate, Promised, Behind, Bound, FilesInv, Kept, Gone, Void, Whole, SameOwners, IInv,
           Fits, Disks
  <2>4. Calm(Removed(disk)) => Fine(Removed(disk), "rollback")
    BY <2>1, CalmMeans
       DEF AInv, Fine, Fate, Promised, Behind, Bound, FilesInv, Kept, Gone, Void, Whole, SameOwners, IInv,
           Fits, Disks, Removed
  <2> QED
    BY <1>6, <2>2, <2>3, <2>4, TryFine
<1>7. CASE Try("mark", Marked(disk), "checkmarked", "rollback")
  <2>1. pc = "mark"
    BY <1>7 DEF Try
  <2>2. hit = {} => Fine(Marked(disk), "checkmarked")
    BY <2>1
       DEF AInv, Fine, Fate, Promised, Behind, Bound, FilesInv, Kept, Gone, Void, Whole, SameOwners, IInv,
           Fits, Disks, Marked
  <2>3. Calm(disk) => Fine(disk, "rollback")
    BY <2>1, CalmMeans
       DEF AInv, Fine, Fate, Promised, Behind, Bound, FilesInv, Kept, Gone, Void, Whole, SameOwners, IInv,
           Fits, Disks
  <2>4. Calm(Marked(disk)) => Fine(Marked(disk), "rollback")
    BY <2>1, CalmMeans
       DEF AInv, Fine, Fate, Promised, Behind, Bound, FilesInv, Kept, Gone, Void, Whole, SameOwners, IInv,
           Fits, Disks, Marked
  <2> QED
    BY <1>7, <2>2, <2>3, <2>4, TryFine
<1>8. CASE Try("checkmarked", disk, "clean", "rollback")
  <2>1. pc = "checkmarked"
    BY <1>8 DEF Try
  <2>2. hit = {} => Fine(disk, "clean")
    BY <2>1
       DEF AInv, Fine, Fate, Promised, Behind, Bound, FilesInv, Kept, Gone, Void, Whole, SameOwners, IInv,
           Fits, Disks
  <2>3. Calm(disk) => Fine(disk, "rollback")
    BY <2>1, CalmMeans
       DEF AInv, Fine, Fate, Promised, Behind, Bound, FilesInv, Kept, Gone, Void, Whole, SameOwners, IInv,
           Fits, Disks
  <2> QED
    BY <1>8, <2>2, <2>3, TryFine
<1> QED
  BY <1>1, <1>2, <1>3, <1>4, <1>5, <1>6, <1>7, <1>8 DEF Commit

\* Without a marker, files and owners come back.
LEMMA RollbackFine == IInv /\ AInv /\ Rollback => AInv'
<1> SUFFICES ASSUME IInv, AInv, Rollback PROVE AInv'
  OBVIOUS
<1>1. ASSUME NEW f \in disk.staged \cap Managed,
             TryBack("rollback", PutBack(disk, f), "rollback")
      PROVE  AInv'
  <2>1. pc = "rollback"
    BY <1>1 DEF TryBack, TryOr
  <2>2. PutBack(disk, f).place \cup PutBack(disk, f).staged = disk.place \cup disk.staged
    BY <2>1, <1>1, PutBackWhole DEF IInv, Fits
  <2>3. hit = {} => Fine(PutBack(disk, f), "rollback")
    BY <2>1, <1>1, <2>2
       DEF AInv, Fine, Fate, Promised, Behind, Bound, FilesInv, Kept, Gone, Void, Whole, SameOwners, IInv,
           Fits, Disks, PutBack
  <2>4. Calm(disk) => Answerable(disk, "stuck")
    BY StuckFine
  <2>5. Calm(PutBack(disk, f)) => Answerable(PutBack(disk, f), "stuck")
    BY <2>1, <1>1, <2>2, CalmMeans
       DEF AInv, Fine, Fate, Promised, Behind, Bound, FilesInv, Kept, Gone, Void, Whole, SameOwners, IInv,
           Fits, Disks, Answerable, Honest, Resting, PutBack
  <2> QED
    BY <1>1, <2>3, <2>4, <2>5, TryOrFine DEF TryBack
<1>2. CASE disk.staged \cap Managed = {} /\ Skip("rollback", "backmark")
  <2>1. pc = "rollback"
    BY <1>2 DEF Skip
  <2>2. hit = {} => Fine(disk, "backmark")
    BY <2>1, <1>2
       DEF AInv, Fine, Fate, Promised, Behind, Bound, FilesInv, Kept, Gone, Void, Whole, SameOwners, IInv,
           Fits, Disks
  <2> QED
    BY <1>2, <2>2, SkipFine
<1>3. CASE TryBack("backmark", Unmarked(disk), "backplan")
  <2>1. pc = "backmark"
    BY <1>3 DEF TryBack, TryOr
  <2>2. hit = {} => Fine(Unmarked(disk), "backplan")
    BY <2>1
       DEF AInv, Fine, Fate, Promised, Behind, Bound, FilesInv, Kept, Gone, Void, Whole, SameOwners, IInv,
           Fits, Disks, Unmarked
  <2>3. Calm(disk) => Answerable(disk, "stuck")
    BY StuckFine
  <2>4. Calm(Unmarked(disk)) => Answerable(Unmarked(disk), "stuck")
    BY <2>1, CalmMeans
       DEF AInv, Fine, Fate, Promised, Behind, Bound, FilesInv, Kept, Gone, Void, Whole, SameOwners, IInv,
           Fits, Disks, Answerable, Honest, Resting, Unmarked
  <2> QED
    BY <1>3, <2>2, <2>3, <2>4, TryOrFine DEF TryBack
<1>4. CASE TryBack("backplan", Unplanned(disk), "xback")
  <2>1. pc = "backplan"
    BY <1>4 DEF TryBack, TryOr
  <2>2. hit = {} => Fine(Unplanned(disk), "xback")
    BY <2>1
       DEF AInv, Fine, Fate, Promised, Behind, Bound, FilesInv, Kept, Gone, Void, Whole, SameOwners, IInv,
           Fits, Disks, Unplanned
  <2>3. Calm(disk) => Answerable(disk, "stuck")
    BY StuckFine
  <2>4. Calm(Unplanned(disk)) => Answerable(Unplanned(disk), "stuck")
    BY <2>1, CalmMeans
       DEF AInv, Fine, Fate, Promised, Behind, Bound, FilesInv, Kept, Gone, Void, Whole, SameOwners, IInv,
           Fits, Disks, Answerable, Honest, Resting, Unplanned
  <2> QED
    BY <1>4, <2>2, <2>3, <2>4, TryOrFine DEF TryBack
<1>5. CASE "file" \in told /\ TryBack("xback", PutBack(disk, External), "relist")
  <2>1. pc = "xback"
    BY <1>5 DEF TryBack, TryOr
  <2>2. hit = {} => PutBack(disk, External).place \cup PutBack(disk, External).staged = disk.place \cup disk.staged
    BY <2>1, <1>5, ExternalIsNotManaged
       DEF AInv, Fine, Fate, Promised, Behind, Bound, FilesInv, Kept, Gone, Void, Whole, SameOwners, IInv,
           Fits, Disks, PutBack
  <2>3. hit = {} => Fine(PutBack(disk, External), "relist")
    BY <2>1, <1>5, ExternalIsNotManaged, <2>2
       DEF AInv, Fine, Fate, Promised, Behind, Bound, FilesInv, Kept, Gone, Void, Whole, SameOwners, IInv,
           Fits, Disks, PutBack, Ready, Journaled
  <2>4. Calm(disk) => Answerable(disk, "stuck")
    BY StuckFine
  <2>5. Calm(PutBack(disk, External)) => Answerable(PutBack(disk, External), "stuck")
    BY <2>1, <2>3, CalmMeans DEF Fine, Fate, Answerable, Honest, Resting, Kept, SameOwners
  <2> QED
    BY <1>5, <2>3, <2>4, <2>5, TryOrFine DEF TryBack
<1>6. CASE "file" \notin told /\ Skip("xback", "relist")
  <2>1. pc = "xback"
    BY <1>6 DEF Skip
  <2>2. hit = {} => Fine(disk, "relist")
    BY <2>1, <1>6
       DEF AInv, Fine, Fate, Promised, Behind, Bound, FilesInv, Kept, Gone, Void, Whole, SameOwners, IInv,
           Fits, Disks
  <2> QED
    BY <1>6, <2>2, SkipFine
<1>7. CASE TryBack("relist", RecordRestored(disk), "xforget")
  <2>1. pc = "relist"
    BY <1>7 DEF TryBack, TryOr
  <2>2. hit = {} => Fine(RecordRestored(disk), "xforget")
    BY <2>1
       DEF AInv, Fine, Fate, Promised, Behind, Bound, FilesInv, Kept, Gone, Void, Whole, SameOwners, IInv,
           Fits, Disks, TypeOK, RecordRestored
  <2>3. Calm(disk) => Answerable(disk, "stuck")
    BY StuckFine
  <2>4. Calm(RecordRestored(disk)) => Answerable(RecordRestored(disk), "stuck")
    BY <2>1, CalmMeans
       DEF AInv, Fine, Fate, Promised, Behind, Bound, FilesInv, Kept, Gone, Void, Whole, SameOwners, IInv,
           Fits, Disks, Answerable, Honest, Resting, TypeOK, RecordRestored
  <2> QED
    BY <1>7, <2>2, <2>3, <2>4, TryOrFine DEF TryBack
<1>8. ASSUME pc = "relist", disk' = disk, Goes("xforget"), UNCHANGED <<left, told, faults, answer>>,
             hit' = hit \cup IF disk.record # before.record THEN {"unlisted"} ELSE {}
      PROVE  AInv'
  <2> SUFFICES ASSUME hit' = {} PROVE Fine(disk, pc)' /\ FilesInv'
    BY DEF AInv
  <2>1. hit = {} /\ disk.record = before.record
    BY <1>8
  <2>2. Fine(disk, "xforget")
    BY <1>8, <2>1
       DEF AInv, Fine, Fate, Promised, Behind, Bound, FilesInv, Kept, Gone, Void, Whole, SameOwners, IInv,
           Fits, Disks
  <2>3. Fine(disk, pc)'
    BY <1>8, <2>2, FineGoesOn DEF Goes
  <2> QED
    BY <1>8, <2>1, <2>3 DEF Goes, AInv, FilesInv
<1>9. CASE "file" \in told /\ Try("xforget", XForgotten(disk), "undefault", "undefault")
  <2>1. pc = "xforget"
    BY <1>9 DEF Try
  <2>2. hit = {} => Fine(XForgotten(disk), "undefault")
    BY <2>1, <1>9
       DEF AInv, Fine, Fate, Promised, Behind, Bound, FilesInv, Kept, Gone, Void, Whole, SameOwners, IInv,
           Fits, Disks, XForgotten
  <2>3. Calm(disk) => Fine(disk, "undefault")
    BY <2>1, <1>9, CalmMeans
       DEF AInv, Fine, Fate, Promised, Behind, Bound, FilesInv, Kept, Gone, Void, Whole, SameOwners, IInv,
           Fits, Disks
  <2>4. Calm(XForgotten(disk)) => Fine(XForgotten(disk), "undefault")
    BY <2>1, <1>9, CalmMeans
       DEF AInv, Fine, Fate, Promised, Behind, Bound, FilesInv, Kept, Gone, Void, Whole, SameOwners, IInv,
           Fits, Disks, XForgotten
  <2> QED
    BY <1>9, <2>2, <2>3, <2>4, TryFine
<1>10. CASE Skip("xforget", "undefault")
  <2>1. pc = "xforget"
    BY <1>10 DEF Skip
  <2>2. hit = {} => Fine(disk, "undefault")
    BY <2>1
       DEF AInv, Fine, Fate, Promised, Behind, Bound, FilesInv, Kept, Gone, Void, Whole, SameOwners, IInv,
           Fits, Disks
  <2> QED
    BY <1>10, <2>2, SkipFine
<1>11. CASE Last("undefault", DefaultRestored(disk, before.default), "failed", "stuck")
  <2>1. pc = "undefault"
    BY <1>11 DEF Last
  <2>2. hit = {} => Answerable(DefaultRestored(disk, before.default), "failed")
    BY <2>1
       DEF AInv, Fine, Fate, Promised, Behind, Bound, FilesInv, Kept, Gone, Void, Whole, SameOwners, IInv,
           Fits, Disks, Answerable, Honest, Resting, TypeOK, DefaultRestored, Ready, Journaled
  <2>3. Calm(disk) => Answerable(disk, "stuck")
    BY StuckFine
  <2>4. Calm(DefaultRestored(disk, before.default)) => Answerable(DefaultRestored(disk, before.default), "stuck")
    BY <2>1, CalmMeans
       DEF AInv, Fine, Fate, Promised, Behind, Bound, FilesInv, Kept, Gone, Void, Whole, SameOwners, IInv,
           Fits, Disks, Answerable, Honest, Resting, TypeOK, DefaultRestored, Ready, Journaled
  <2> QED
    BY <1>11, <2>2, <2>3, <2>4, LastFine
<1> QED
  BY <1>1, <1>2, <1>3, <1>4, <1>5, <1>6, <1>7, <1>8, <1>9, <1>10, <1>11 DEF Rollback

\* A committed deletion only loses what is already gone.
LEMMA CleanUpFine == IInv /\ AInv /\ CleanUp => AInv'
<1> SUFFICES ASSUME IInv, AInv, CleanUp PROVE AInv'
  OBVIOUS
<1>1. CASE Sweep("clean", "unmark", "xclean")
  <2>1. pc = "clean"
    BY <1>1 DEF Sweep
  <2>2. \A f : hit = {} => Fine(Unlinked(disk, f), "clean")
    BY <2>1
       DEF AInv, Fine, Fate, Promised, Behind, Bound, FilesInv, Kept, Gone, Void, Whole, SameOwners, IInv,
           Fits, Disks, Unlinked
  <2>3. hit = {} => Fine(disk, "unmark") /\ Fine(disk, "xclean") /\ Fine(disk, "clean")
    BY <2>1
       DEF AInv, Fine, Fate, Promised, Behind, Bound, FilesInv, Kept, Gone, Void, Whole, SameOwners, IInv,
           Fits, Disks, Resting
  <2>4. \A d : Calm(d) => hit = {}
    BY CalmMeans
  <2>5. ASSUME NEW f, Done(Unlinked(disk, f), "clean") PROVE AInv'
    BY <2>2, <2>5, DoneFine
  <2>6. ASSUME NEW f, NEW e \in {disk, Unlinked(disk, f)}, Fails(e, "clean") PROVE AInv'
    BY <2>2, <2>3, <2>4, <2>6, FailsFine
  <2>7. ASSUME Done(disk, IF left = {} THEN "unmark" ELSE "xclean") PROVE AInv'
    BY <2>3, <2>7, DoneFine
  <2> QED
    BY <1>1, <2>5, <2>6, <2>7 DEF Sweep
<1>2. CASE Try("unmark", Unmarked(disk), "unjournal", "xclean")
  <2>1. pc = "unmark"
    BY <1>2 DEF Try
  <2>2. hit = {} => Fine(Unmarked(disk), "unjournal")
    BY <2>1
       DEF AInv, Fine, Fate, Promised, Behind, Bound, FilesInv, Kept, Gone, Void, Whole, SameOwners, IInv,
           Fits, Disks, Unmarked
  <2>3. Calm(disk) => Fine(disk, "xclean")
    BY <2>1, CalmMeans
       DEF AInv, Fine, Fate, Promised, Behind, Bound, FilesInv, Kept, Gone, Void, Whole, SameOwners, IInv,
           Fits, Disks
  <2>4. Calm(Unmarked(disk)) => Fine(Unmarked(disk), "xclean")
    BY <2>1, CalmMeans
       DEF AInv, Fine, Fate, Promised, Behind, Bound, FilesInv, Kept, Gone, Void, Whole, SameOwners, IInv,
           Fits, Disks, Unmarked
  <2> QED
    BY <1>2, <2>2, <2>3, <2>4, TryFine
<1>3. CASE Try("unjournal", Unplanned(disk), "xclean", "xclean")
  <2>1. pc = "unjournal"
    BY <1>3 DEF Try
  <2>2. hit = {} => Fine(Unplanned(disk), "xclean")
    BY <2>1
       DEF AInv, Fine, Fate, Promised, Behind, Bound, FilesInv, Kept, Gone, Void, Whole, SameOwners, IInv,
           Fits, Disks, Unplanned
  <2>3. Calm(disk) => Fine(disk, "xclean")
    BY <2>1, CalmMeans
       DEF AInv, Fine, Fate, Promised, Behind, Bound, FilesInv, Kept, Gone, Void, Whole, SameOwners, IInv,
           Fits, Disks, Ready
  <2>4. Calm(Unplanned(disk)) => Fine(Unplanned(disk), "xclean")
    BY <2>1, CalmMeans
       DEF AInv, Fine, Fate, Promised, Behind, Bound, FilesInv, Kept, Gone, Void, Whole, SameOwners, IInv,
           Fits, Disks, Ready, Unplanned
  <2> QED
    BY <1>3, <2>2, <2>3, <2>4, TryFine
<1>4. CASE "file" \in told /\ TryOr("xclean", Unlinked(disk, External), "xdone", "deleted")
  <2>1. pc = "xclean"
    BY <1>4 DEF TryOr
  <2>2. hit = {} => Fine(Unlinked(disk, External), "xdone")
    BY <2>1, <1>4, ExternalIsNotManaged
       DEF AInv, Fine, Fate, Promised, Behind, Bound, FilesInv, Kept, Gone, Void, Whole, SameOwners, IInv,
           Fits, Disks, Unlinked, Ready, Journaled
  <2>3. Calm(disk) => Answerable(disk, "deleted")
    BY <2>1, <1>4, ExternalIsNotManaged, CalmMeans
       DEF AInv, Fine, Fate, Promised, Behind, Bound, FilesInv, Kept, Gone, Void, Whole, SameOwners, IInv,
           Fits, Disks, Answerable, Honest, Resting, Ready, Journaled
  <2>4. Calm(Unlinked(disk, External)) => Answerable(Unlinked(disk, External), "deleted")
    BY <2>1, <1>4, ExternalIsNotManaged, CalmMeans
       DEF AInv, Fine, Fate, Promised, Behind, Bound, FilesInv, Kept, Gone, Void, Whole, SameOwners, IInv,
           Fits, Disks, Answerable, Honest, Resting, Unlinked, Ready, Journaled
  <2> QED
    BY <1>4, <2>2, <2>3, <2>4, TryOrFine
<1>5. CASE Last("xclean", disk, "deleted", "deleted")
  <2>1. pc = "xclean"
    BY <1>5 DEF Last
  <2>2. hit = {} => Answerable(disk, "deleted")
    BY <2>1
       DEF AInv, Fine, Fate, Promised, Behind, Bound, FilesInv, Kept, Gone, Void, Whole, SameOwners, IInv,
           Fits, Disks, Answerable, Honest, Resting
  <2>3. Calm(disk) => Answerable(disk, "deleted")
    BY <2>1, CalmMeans
       DEF AInv, Fine, Fate, Promised, Behind, Bound, FilesInv, Kept, Gone, Void, Whole, SameOwners, IInv,
           Fits, Disks, Answerable, Honest, Resting
  <2> QED
    BY <1>5, <2>2, <2>3, LastFine
<1>6. CASE Last("xdone", XForgotten(disk), "deleted", "deleted")
  <2>1. pc = "xdone"
    BY <1>6 DEF Last
  <2>2. hit = {} => Answerable(XForgotten(disk), "deleted")
    BY <2>1
       DEF AInv, Fine, Fate, Promised, Behind, Bound, FilesInv, Kept, Gone, Void, Whole, SameOwners, IInv,
           Fits, Disks, Answerable, Honest, Resting, XForgotten
  <2>3. Calm(disk) => Answerable(disk, "deleted")
    BY <2>1, CalmMeans
       DEF AInv, Fine, Fate, Promised, Behind, Bound, FilesInv, Kept, Gone, Void, Whole, SameOwners, IInv,
           Fits, Disks, Answerable, Honest, Resting
  <2>4. Calm(XForgotten(disk)) => Answerable(XForgotten(disk), "deleted")
    BY <2>1, CalmMeans
       DEF AInv, Fine, Fate, Promised, Behind, Bound, FilesInv, Kept, Gone, Void, Whole, SameOwners, IInv,
           Fits, Disks, Answerable, Honest, Resting, XForgotten
  <2> QED
    BY <1>6, <2>2, <2>3, <2>4, LastFine
<1> QED
  BY <1>1, <1>2, <1>3, <1>4, <1>5, <1>6 DEF CleanUp

\* A new server takes up what was committed, or what changed nothing.
LEMMA OpenFine == IInv /\ AInv /\ Open => AInv'
<1> SUFFICES ASSUME IInv, AInv, Open PROVE AInv'
  OBVIOUS
<1>1. CASE old \cup Journal(disk) = {} /\ Skip("boot", "bootx")
  <2>1. pc = "boot" /\ disk.journal = "none"
    BY <1>1 DEF Skip, Journal
  <2>2. hit = {} => Fine(disk, "bootx")
    BY <2>1
       DEF AInv, Fine, Fate, Promised, Resting, Kept, IInv, Fits, Disks, Journaled
  <2> QED
    BY <1>1, <2>2, SkipFine
<1>2. ASSUME NEW j \in old \cup Journal(disk),
             pc = "boot", disk' = With(disk, j), old' = (old \cup Journal(disk)) \ {j},
             pc' = IF j.marker THEN "reclean"
                   ELSE IF j.journal = "recovery" THEN "rerecord" ELSE "putback",
             UNCHANGED <<kind, before, left, told, answer, hit, faults, crashes>>
      PROVE  AInv'
  <2> SUFFICES ASSUME hit = {} PROVE Fine(disk, pc)' /\ FilesInv'
    BY <1>2 DEF AInv
  <2>1. Fine(disk, "boot") /\ disk \in Disks /\ Journaled(disk) /\ FilesInv
    BY <1>2 DEF AInv, IInv, Fits
  <2>2. j \in Journals /\ old \cup Journal(disk) \subseteq Journals
    BY <2>1, JournalType DEF IInv, TypeOK
  <2>3. FilesInv'
    BY <1>2, <2>1 DEF FilesInv
  <2>4. DEFINE d == With(disk, j)
  <2>5. /\ d.place = disk.place /\ d.record = disk.record /\ d.default = disk.default
        /\ d.journal = j.journal /\ d.marker = j.marker /\ d.saved = j.saved
        /\ d.staged = (disk.staged \ Managed) \cup j.staged
    BY <2>1 DEF With, Disks
  <2>6. pc' \in {"reclean", "rerecord", "putback"} /\ pc' = IF d.marker THEN "reclean"
                   ELSE IF d.journal = "recovery" THEN "rerecord" ELSE "putback"
    BY <1>2, <2>5
  <2>7. CASE old = {}
    <3>1. j = AtHand(disk) /\ disk.journal # "none"
      BY <1>2, <2>7 DEF Journal
    <3>2. d = disk /\ old' = {}
      <4>1. d.staged = disk.staged
        BY <2>5, <3>1 DEF AtHand
      <4>2. d.journal = disk.journal /\ d.marker = disk.marker /\ d.saved = disk.saved
        BY <2>5, <3>1 DEF AtHand
      <4>3. d = [disk EXCEPT !.journal = d.journal, !.marker = d.marker, !.saved = d.saved,
                             !.staged = d.staged]
        BY <2>1, <2>5 DEF With, Disks
      <4>4. disk = [disk EXCEPT !.journal = disk.journal, !.marker = disk.marker, !.saved = disk.saved,
                                !.staged = disk.staged]
        BY <2>1 DEF Disks
      <4>5. old' = {}
        BY <1>2, <2>7, <3>1 DEF Journal
      <4> QED
        BY <4>1, <4>2, <4>3, <4>4, <4>5
    <3>3. Fate(d, pc') /\ Promised(d, pc', answer) /\ Behind(d, old') /\ Bound(d)
      BY <2>1, <2>6, <3>1, <3>2
         DEF Fine, Fate, Promised, Behind, Resting, Kept, Disks
    <3> QED
      BY <1>2, <2>3, <3>3, FineMoves
  <2>8. CASE old # {}
    <3>1. Void(disk) /\ disk.staged \ Managed = {}
      BY <2>1, <2>8 DEF Fine, Behind, Bound, FilesOf, Void
    <3>2. before \in Disks
      BY DEF IInv, TypeOK
    <3>3. ~disk.marker /\ disk.journal # "none" => disk.staged = {} /\ (disk.journal = "recovery" => ~disk.saved)
      BY <2>1, <3>1, <3>2 DEF Fine, Fate, Resting, Kept, Whole, Void, Gone, Disks
    <3>4. disk.marker => disk.journal = "recovery"
      BY <2>1 DEF Fine, Fate, Resting, Disks, Journaled
    <3>5. \A o \in Journal(disk) : Harmless(o)
      BY <3>3, <3>4 DEF Journal, AtHand, Harmless
    <3>6. \A o \in old : Harmless(o)
      BY <2>1, <2>8 DEF Fine, Behind
    <3>7. Void(d) /\ Behind(d, old')
      BY <1>2, <2>5, <3>1, <3>5, <3>6 DEF Behind, Void, Gone
    <3>8. Harmless(j) /\ j \in Journals
      BY <1>2, <2>2, <3>5, <3>6
    <3>9. j.staged \subseteq Managed /\ d.journal \in {"plan", "recovery"}
      BY <2>2, <2>5 DEF Journals
    <3>10. d.marker => d.journal = "recovery"
      BY <2>5, <3>8 DEF Harmless
    <3>11. ~d.marker => d.staged = {} /\ (d.journal = "recovery" => ~d.saved)
      BY <2>5, <3>1, <3>8 DEF Harmless
    <3>12. Fate(d, pc')
      <4>1. CASE d.marker
        BY <2>6, <3>7, <3>10, <4>1 DEF Fate, Void
      <4>2. CASE ~d.marker
        <5>1. Whole(d) /\ SameOwners(d)
          BY <3>2, <3>7, <3>11, <4>2, <2>1, <2>5 DEF Void, Gone, Whole, SameOwners, Disks
        <5>2. d.journal = "recovery" => d.saved = before.default
          BY <3>2, <3>7, <3>11, <4>2, <2>2, <2>5 DEF Void, Gone, Disks, Journals
        <5> QED
          BY <2>6, <3>9, <4>2, <5>1, <5>2 DEF Fate, Kept
      <4> QED
        BY <4>1, <4>2
    <3>13. Promised(d, pc', answer)
      BY <2>6, <3>7 DEF Promised
    <3>14. Bound(d)
      <4>1. d.staged \subseteq Managed /\ d.place = {}
        BY <2>5, <3>1, <3>9 DEF Void, Gone
      <4> QED
        BY <2>5, <3>7, <4>1 DEF Void, Gone, Bound, FilesOf
    <3> QED
      BY <1>2, <2>3, <3>7, <3>12, <3>13, <3>14, FineMoves
  <2> QED
    BY <2>7, <2>8
<1> QED
  BY <1>1, <1>2 DEF Open

\* Recovery does what the marker says.
LEMMA ReconcileManagedFine == IInv /\ AInv /\ ReconcileManaged => AInv'
<1> SUFFICES ASSUME IInv, AInv, ReconcileManaged PROVE AInv'
  OBVIOUS
<1>1. CASE Open
  BY <1>1, OpenFine
<1>2. CASE Sweep("reclean", "reunmark", "boot")
  <2>1. pc = "reclean"
    BY <1>2 DEF Sweep
  <2>2. \A f : hit = {} => Fine(Unlinked(disk, f), "reclean")
    BY <2>1
       DEF AInv, Fine, Fate, Promised, Behind, Bound, FilesInv, Kept, Gone, Void, Whole, SameOwners, IInv,
           Fits, Disks, Unlinked
  <2>3. hit = {} => Fine(disk, "reunmark") /\ Fine(disk, "boot") /\ Fine(disk, "reclean")
    BY <2>1
       DEF AInv, Fine, Fate, Promised, Behind, Bound, FilesInv, Kept, Gone, Void, Whole, SameOwners, IInv,
           Fits, Disks, Resting
  <2>4. \A d : Calm(d) => hit = {}
    BY CalmMeans
  <2>5. ASSUME NEW f, Done(Unlinked(disk, f), "reclean") PROVE AInv'
    BY <2>2, <2>5, DoneFine
  <2>6. ASSUME NEW f, NEW e \in {disk, Unlinked(disk, f)}, Fails(e, "reclean") PROVE AInv'
    BY <2>2, <2>3, <2>4, <2>6, FailsFine
  <2>7. ASSUME Done(disk, IF left = {} THEN "reunmark" ELSE "boot") PROVE AInv'
    BY <2>3, <2>7, DoneFine
  <2> QED
    BY <1>2, <2>5, <2>6, <2>7 DEF Sweep
<1>3. CASE Try("reunmark", Unmarked(disk), "reunjournal", "boot")
  <2>1. pc = "reunmark"
    BY <1>3 DEF Try
  <2>2. hit = {} => Fine(Unmarked(disk), "reunjournal")
    BY <2>1
       DEF AInv, Fine, Fate, Promised, Behind, Bound, FilesInv, Kept, Gone, Void, Whole, SameOwners, IInv,
           Fits, Disks, Unmarked
  <2>3. Calm(disk) => Fine(disk, "boot")
    BY <2>1, CalmMeans
       DEF AInv, Fine, Fate, Promised, Behind, Bound, FilesInv, Kept, Gone, Void, Whole, SameOwners, IInv,
           Fits, Disks, Resting
  <2>4. Calm(Unmarked(disk)) => Fine(Unmarked(disk), "boot")
    BY <2>1, CalmMeans
       DEF AInv, Fine, Fate, Promised, Behind, Bound, FilesInv, Kept, Gone, Void, Whole, SameOwners, IInv,
           Fits, Disks, Resting, Unmarked
  <2> QED
    BY <1>3, <2>2, <2>3, <2>4, TryFine
<1>4. CASE Try("reunjournal", Unplanned(disk), "boot", "boot")
  <2>1. pc = "reunjournal"
    BY <1>4 DEF Try
  <2>2. hit = {} => Fine(Unplanned(disk), "boot")
    BY <2>1
       DEF AInv, Fine, Fate, Promised, Behind, Bound, FilesInv, Kept, Gone, Void, Whole, SameOwners, IInv,
           Fits, Disks, Resting, Unplanned
  <2>3. Calm(disk) => Fine(disk, "boot")
    BY <2>1, CalmMeans
       DEF AInv, Fine, Fate, Promised, Behind, Bound, FilesInv, Kept, Gone, Void, Whole, SameOwners, IInv,
           Fits, Disks, Resting, Ready
  <2>4. Calm(Unplanned(disk)) => Fine(Unplanned(disk), "boot")
    BY <2>1, CalmMeans
       DEF AInv, Fine, Fate, Promised, Behind, Bound, FilesInv, Kept, Gone, Void, Whole, SameOwners, IInv,
           Fits, Disks, Resting, Ready, Unplanned
  <2> QED
    BY <1>4, <2>2, <2>3, <2>4, TryFine
<1>5. CASE Try("rerecord", RecordRestored(disk), "redefault", "boot")
  <2>1. pc = "rerecord"
    BY <1>5 DEF Try
  <2>2. hit = {} => Fine(RecordRestored(disk), "redefault")
    BY <2>1
       DEF AInv, Fine, Fate, Promised, Behind, Bound, FilesInv, Kept, Gone, Void, Whole, SameOwners, IInv,
           Fits, Disks, TypeOK, RecordRestored
  <2>3. Calm(disk) => Fine(disk, "boot")
    BY <2>1, CalmMeans
       DEF AInv, Fine, Fate, Promised, Behind, Bound, FilesInv, Kept, Gone, Void, Whole, SameOwners, IInv,
           Fits, Disks, Resting
  <2>4. Calm(RecordRestored(disk)) => Fine(RecordRestored(disk), "boot")
    BY <2>1, CalmMeans
       DEF AInv, Fine, Fate, Promised, Behind, Bound, FilesInv, Kept, Gone, Void, Whole, SameOwners, IInv,
           Fits, Disks, Resting, TypeOK, RecordRestored
  <2> QED
    BY <1>5, <2>2, <2>3, <2>4, TryFine
<1>6. CASE Try("redefault", DefaultRestored(disk, disk.saved), "putback", "boot")
  <2>1. pc = "redefault"
    BY <1>6 DEF Try
  <2>2. hit = {} => Fine(DefaultRestored(disk, disk.saved), "putback")
    BY <2>1
       DEF AInv, Fine, Fate, Promised, Behind, Bound, FilesInv, Kept, Gone, Void, Whole, SameOwners, IInv,
           Fits, Disks, TypeOK, DefaultRestored
  <2>3. Calm(disk) => Fine(disk, "boot")
    BY <2>1, CalmMeans
       DEF AInv, Fine, Fate, Promised, Behind, Bound, FilesInv, Kept, Gone, Void, Whole, SameOwners, IInv,
           Fits, Disks, Resting
  <2>4. Calm(DefaultRestored(disk, disk.saved)) => Fine(DefaultRestored(disk, disk.saved), "boot")
    BY <2>1, CalmMeans
       DEF AInv, Fine, Fate, Promised, Behind, Bound, FilesInv, Kept, Gone, Void, Whole, SameOwners, IInv,
           Fits, Disks, Resting, TypeOK, DefaultRestored
  <2> QED
    BY <1>6, <2>2, <2>3, <2>4, TryFine
<1>7. CASE Skip("putback", "boot")
  <2>1. pc = "putback"
    BY <1>7 DEF Skip
  <2>2. hit = {} => Fine(disk, "boot")
    BY <2>1
       DEF AInv, Fine, Fate, Promised, Behind, Bound, FilesInv, Kept, Gone, Void, Whole, SameOwners, IInv,
           Fits, Disks, Resting
  <2> QED
    BY <1>7, <2>2, SkipFine
<1>8. ASSUME NEW f \in disk.staged \cap Managed,
             Try("putback", PutBack(disk, f), "putback", "boot")
      PROVE  AInv'
  <2>1. pc = "putback"
    BY <1>8 DEF Try
  <2>2. PutBack(disk, f).place \cup PutBack(disk, f).staged = disk.place \cup disk.staged
    BY <2>1, <1>8, PutBackWhole DEF IInv, Fits
  <2>3. hit = {} => Fine(PutBack(disk, f), "putback")
    BY <2>1, <1>8, <2>2
       DEF AInv, Fine, Fate, Promised, Behind, Bound, FilesInv, Kept, Gone, Void, Whole, SameOwners, IInv,
           Fits, Disks, PutBack
  <2>4. Calm(disk) => Fine(disk, "boot")
    BY <2>1, <1>8, <2>2, CalmMeans
       DEF AInv, Fine, Fate, Promised, Behind, Bound, FilesInv, Kept, Gone, Void, Whole, SameOwners, IInv,
           Fits, Disks, Resting
  <2>5. Calm(PutBack(disk, f)) => Fine(PutBack(disk, f), "boot")
    BY <2>1, <1>8, <2>2, CalmMeans
       DEF AInv, Fine, Fate, Promised, Behind, Bound, FilesInv, Kept, Gone, Void, Whole, SameOwners, IInv,
           Fits, Disks, Resting, PutBack
  <2> QED
    BY <1>8, <2>3, <2>4, <2>5, TryFine
<1>9. CASE disk.staged \cap Managed = {} /\ Skip("putback", "dropmark")
  <2>1. pc = "putback"
    BY <1>9 DEF Skip
  <2>2. hit = {} => Fine(disk, "dropmark")
    BY <2>1, <1>9
       DEF AInv, Fine, Fate, Promised, Behind, Bound, FilesInv, Kept, Gone, Void, Whole, SameOwners, IInv,
           Fits, Disks
  <2> QED
    BY <1>9, <2>2, SkipFine
<1>10. CASE Try("dropmark", Unmarked(disk), "dropplan", "boot")
  <2>1. pc = "dropmark"
    BY <1>10 DEF Try
  <2>2. hit = {} => Fine(Unmarked(disk), "dropplan")
    BY <2>1
       DEF AInv, Fine, Fate, Promised, Behind, Bound, FilesInv, Kept, Gone, Void, Whole, SameOwners, IInv,
           Fits, Disks, Unmarked
  <2>3. Calm(disk) => Fine(disk, "boot")
    BY <2>1, CalmMeans
       DEF AInv, Fine, Fate, Promised, Behind, Bound, FilesInv, Kept, Gone, Void, Whole, SameOwners, IInv,
           Fits, Disks, Resting
  <2>4. Calm(Unmarked(disk)) => Fine(Unmarked(disk), "boot")
    BY <2>1, CalmMeans
       DEF AInv, Fine, Fate, Promised, Behind, Bound, FilesInv, Kept, Gone, Void, Whole, SameOwners, IInv,
           Fits, Disks, Resting, Unmarked
  <2> QED
    BY <1>10, <2>2, <2>3, <2>4, TryFine
<1>11. CASE Try("dropplan", Unplanned(disk), "boot", "boot")
  <2>1. pc = "dropplan"
    BY <1>11 DEF Try
  <2>2. hit = {} => Fine(Unplanned(disk), "boot")
    BY <2>1
       DEF AInv, Fine, Fate, Promised, Behind, Bound, FilesInv, Kept, Gone, Void, Whole, SameOwners, IInv,
           Fits, Disks, Resting, Unplanned
  <2>3. Calm(disk) => Fine(disk, "boot")
    BY <2>1, CalmMeans
       DEF AInv, Fine, Fate, Promised, Behind, Bound, FilesInv, Kept, Gone, Void, Whole, SameOwners, IInv,
           Fits, Disks, Resting
  <2>4. Calm(Unplanned(disk)) => Fine(Unplanned(disk), "boot")
    BY <2>1, CalmMeans
       DEF AInv, Fine, Fate, Promised, Behind, Bound, FilesInv, Kept, Gone, Void, Whole, SameOwners, IInv,
           Fits, Disks, Resting, Unplanned
  <2> QED
    BY <1>11, <2>2, <2>3, <2>4, TryFine
<1> QED
  BY <1>1, <1>2, <1>3, <1>4, <1>5, <1>6, <1>7, <1>8, <1>9, <1>10, <1>11 DEF ReconcileManaged

\* The registry says whether the external file comes back.
LEMMA ReconcileExternalFine == IInv /\ AInv /\ ReconcileExternal => AInv'
<1> SUFFICES ASSUME IInv, AInv, ReconcileExternal PROVE AInv'
  OBVIOUS
<1>1. CASE Skip("bootx", "idle")
  <2>1. pc = "bootx"
    BY <1>1 DEF Skip
  <2>2. hit = {} => Fine(disk, "idle")
    BY <2>1
       DEF AInv, Fine, Fate, Promised, Behind, Bound, FilesInv, Kept, Gone, Void, Whole, SameOwners, IInv,
           Fits, Disks, Resting
  <2> QED
    BY <1>1, <2>2, SkipFine
<1>2. CASE External \in disk.staged /\ disk.record /\ Try("bootx", PutBack(disk, External), "xwrite", "boot")
  <2>1. pc = "bootx"
    BY <1>2 DEF Try
  <2>2. PutBack(disk, External).place \cup PutBack(disk, External).staged = disk.place \cup disk.staged
    BY <2>1, <1>2, ExternalIsNotManaged, PutBackWhole DEF IInv, Fits
  <2>3. hit = {} => Fine(PutBack(disk, External), "xwrite")
    BY <2>1, <1>2, ExternalIsNotManaged, <2>2
       DEF AInv, Fine, Fate, Promised, Behind, Bound, FilesInv, Kept, Gone, Void, Whole, SameOwners, IInv,
           Fits, Disks, PutBack, Ready, Journaled
  <2>4. Calm(disk) => Fine(disk, "boot")
    BY <2>1, <1>2, ExternalIsNotManaged, <2>2, CalmMeans
       DEF AInv, Fine, Fate, Promised, Behind, Bound, FilesInv, Kept, Gone, Void, Whole, SameOwners, IInv,
           Fits, Disks, Resting, Ready, Journaled
  <2>5. Calm(PutBack(disk, External)) => Fine(PutBack(disk, External), "boot")
    BY <2>1, <1>2, ExternalIsNotManaged, <2>2, CalmMeans
       DEF AInv, Fine, Fate, Promised, Behind, Bound, FilesInv, Kept, Gone, Void, Whole, SameOwners, IInv,
           Fits, Disks, Resting, PutBack, Ready, Journaled
  <2> QED
    BY <1>2, <2>3, <2>4, <2>5, TryFine
<1>3. CASE External \in disk.staged /\ ~disk.record /\ Try("bootx", Unlinked(disk, External), "xend", "idle")
  <2>1. pc = "bootx"
    BY <1>3 DEF Try
  <2>2. hit = {} => Fine(Unlinked(disk, External), "xend")
    BY <2>1, <1>3, ExternalIsNotManaged
       DEF AInv, Fine, Fate, Promised, Behind, Bound, FilesInv, Kept, Gone, Void, Whole, SameOwners, IInv,
           Fits, Disks, Unlinked, Ready, Journaled, FilesOf, Kinds, TypeOK
  <2>3. Calm(disk) => Fine(disk, "idle")
    BY <2>1, <1>3, ExternalIsNotManaged, CalmMeans
       DEF AInv, Fine, Fate, Promised, Behind, Bound, FilesInv, Kept, Gone, Void, Whole, SameOwners, IInv,
           Fits, Disks, Resting, Ready, Journaled, FilesOf, Kinds, TypeOK
  <2>4. Calm(Unlinked(disk, External)) => Fine(Unlinked(disk, External), "idle")
    BY <2>1, <1>3, ExternalIsNotManaged, CalmMeans
       DEF AInv, Fine, Fate, Promised, Behind, Bound, FilesInv, Kept, Gone, Void, Whole, SameOwners, IInv,
           Fits, Disks, Resting, Unlinked, Ready, Journaled, FilesOf, Kinds, TypeOK
  <2> QED
    BY <1>3, <2>2, <2>3, <2>4, TryFine
<1>4. CASE External \notin disk.staged /\ Skip("bootx", IF disk.record THEN "xwrite" ELSE "xend")
  <2>1. pc = "bootx"
    BY <1>4 DEF Skip
  <2>2. hit = {} => Fine(disk, IF disk.record THEN "xwrite" ELSE "xend")
    BY <2>1, <1>4
       DEF AInv, Fine, Fate, Promised, Behind, Bound, FilesInv, Kept, Gone, Void, Whole, SameOwners, IInv,
           Fits, Disks
  <2> QED
    BY <1>4, <2>2, SkipFine
<1>5. CASE Try("xwrite", disk, "xend", "boot")
  <2>1. pc = "xwrite"
    BY <1>5 DEF Try
  <2>2. hit = {} => Fine(disk, "xend")
    BY <2>1
       DEF AInv, Fine, Fate, Promised, Behind, Bound, FilesInv, Kept, Gone, Void, Whole, SameOwners, IInv,
           Fits, Disks
  <2>3. Calm(disk) => Fine(disk, "boot")
    BY <2>1, CalmMeans
       DEF AInv, Fine, Fate, Promised, Behind, Bound, FilesInv, Kept, Gone, Void, Whole, SameOwners, IInv,
           Fits, Disks, Resting
  <2> QED
    BY <1>5, <2>2, <2>3, TryFine
<1>6. CASE Try("xend", XForgotten(disk), "idle", "idle")
  <2>1. pc = "xend"
    BY <1>6 DEF Try
  <2>2. hit = {} => Fine(XForgotten(disk), "idle")
    BY <2>1
       DEF AInv, Fine, Fate, Promised, Behind, Bound, FilesInv, Kept, Gone, Void, Whole, SameOwners, IInv,
           Fits, Disks, Resting, XForgotten
  <2>3. Calm(disk) => Fine(disk, "idle")
    BY <2>1, CalmMeans
       DEF AInv, Fine, Fate, Promised, Behind, Bound, FilesInv, Kept, Gone, Void, Whole, SameOwners, IInv,
           Fits, Disks, Resting
  <2>4. Calm(XForgotten(disk)) => Fine(XForgotten(disk), "idle")
    BY <2>1, CalmMeans
       DEF AInv, Fine, Fate, Promised, Behind, Bound, FilesInv, Kept, Gone, Void, Whole, SameOwners, IInv,
           Fits, Disks, Resting, XForgotten
  <2> QED
    BY <1>6, <2>2, <2>3, <2>4, TryFine
<1> QED
  BY <1>1, <1>2, <1>3, <1>4, <1>5, <1>6 DEF ReconcileExternal

\* The plan is written while everything is in its place.
LEMMA PlanFine == IInv /\ AInv /\ Plan => AInv'
<1> SUFFICES ASSUME IInv, AInv, Plan PROVE AInv'
  OBVIOUS
<1>1. CASE disk.place \cap Managed = {} /\ Skip("plan", "inspect")
  <2>1. pc = "plan"
    BY <1>1 DEF Skip
  <2>2. hit = {} => disk.place = {}
    BY <1>1, <2>1 DEF AInv, Fine, Fate, IInv, Fits, Disks
  <2>3. hit = {} => Fine(disk, "inspect")
    BY <2>1, <2>2
       DEF AInv, Fine, Fate, Promised, Behind, Bound, FilesInv, Kept, Gone, Void, Whole, SameOwners, IInv,
           Fits, Disks
  <2> QED
    BY <1>1, <2>3, SkipFine
<1>2. ASSUME pc = "plan", disk.place \cap Managed # {}, Done(Planned(disk), "stage"), left' = disk.place \cap Managed
      PROVE  AInv'
  <2>1. hit = {} => Fine(Planned(disk), "stage")
    BY <1>2
       DEF AInv, Fine, Fate, Promised, Behind, Bound, FilesInv, Kept, Gone, Void, Whole, SameOwners, IInv,
           Fits, Disks, Planned
  <2>2. hit = {} => disk.place \subseteq Managed
    BY <1>2 DEF AInv, Fine, Fate, IInv, Fits, Disks
  <2>3. Planned(disk).place = disk.place
    BY DEF Planned, IInv, Fits, Disks
  <2>4. CASE hit = {}
    BY <1>2, <2>1, <2>2, <2>3, <2>4, DoneFine
  <2> QED
    BY <1>2, <2>4 DEF AInv, Done
<1>3. ASSUME pc = "plan", disk.place \cap Managed # {},
             \E e \in {disk, Planned(disk)} : Fault(e) /\ Answers("failed")
      PROVE  AInv'
  <2>1. Calm(disk) => Answerable(disk, "failed")
    BY <1>3, CalmMeans
       DEF AInv, Fine, Fate, Promised, Behind, Bound, FilesInv, Kept, Gone, Void, Whole, SameOwners, IInv,
           Fits, Disks, Answerable, Honest, Resting
  <2>2. Calm(Planned(disk)) => Answerable(Planned(disk), "failed")
    BY <1>3, CalmMeans
       DEF AInv, Fine, Fate, Promised, Behind, Bound, FilesInv, Kept, Gone, Void, Whole, SameOwners, IInv,
           Fits, Disks, Answerable, Honest, Resting, Planned
  <2> QED
    BY <1>3, <2>1, <2>2, AnswersFaultFine
<1> QED
  BY <1>1, <1>2, <1>3 DEF Plan

\* What is in its place is what the loop has yet to visit.
LEMMA StageManagedFine == IInv /\ AInv /\ StageManaged => AInv'
<1> SUFFICES ASSUME IInv, AInv, StageManaged PROVE AInv'
  OBVIOUS
<1>1. CASE left = {} /\ Skip("stage", "inspect")
  <2>1. pc = "stage"
    BY <1>1 DEF Skip
  <2>2. hit = {} => disk.place = {}
    BY <1>1, <2>1 DEF AInv, FilesInv
  <2>3. hit = {} => Fine(disk, "inspect")
    BY <2>1, <2>2
       DEF AInv, Fine, Fate, Promised, Behind, Bound, FilesInv, Kept, Gone, Void, Whole, SameOwners, IInv,
           Fits, Disks
  <2> QED
    BY <1>1, <2>3, SkipFine
<1>2. ASSUME NEW f \in left, pc = "stage", hit = {}
      PROVE  /\ Fine(Staged(disk, f), "stage") /\ Fine(Staged(disk, f), "unstage")
             /\ Staged(disk, f).place = left \ {f}
  <2>0. f \in disk.place
    BY <1>2 DEF AInv, FilesInv
  <2>1. Staged(disk, f).place \cup Staged(disk, f).staged = disk.place \cup disk.staged
    BY <2>0, StagedWhole DEF IInv, Fits
  <2>2. Fine(Staged(disk, f), "stage") /\ Fine(Staged(disk, f), "unstage")
    BY <1>2, <2>1
       DEF AInv, Fine, Fate, Promised, Behind, Bound, FilesInv, Kept, Gone, Void, Whole, SameOwners, IInv,
           Fits, Disks, Staged
  <2>3. Staged(disk, f).place = left \ {f}
    BY <1>2 DEF Staged, AInv, FilesInv, IInv, Fits, Disks
  <2> QED
    BY <2>2, <2>3
<1>3. ASSUME NEW f \in left, pc = "stage", Done(Staged(disk, f), "stage"), left' = left \ {f}
      PROVE  AInv'
  <2>1. CASE hit = {}
    BY <1>2, <1>3, <2>1, DoneFine
  <2>2. CASE hit # {}
    BY <1>3, <2>2 DEF AInv, Done
  <2> QED
    BY <2>1, <2>2
<1>4. ASSUME NEW f \in left, NEW e \in {disk, Staged(disk, f)}, pc = "stage", Fails(e, "unstage")
      PROVE  AInv'
  <2>1. hit = {} => Fine(disk, "unstage")
    BY <1>4
       DEF AInv, Fine, Fate, Promised, Behind, Bound, FilesInv, Kept, Gone, Void, Whole, SameOwners, IInv,
           Fits, Disks
  <2>2. Calm(e) => Fine(e, "unstage")
    BY <1>2, <1>4, <2>1 DEF Calm
  <2> QED
    BY <1>4, <2>2, FailsFine
<1> QED
  BY <1>1, <1>3, <1>4 DEF StageManaged

-----------------------------------------------------------------------------
(* The theorems on atomicity.                                              *)

\* At first nothing is staged.
LEMMA InitFine == Init => AInv
<1> SUFFICES ASSUME Init PROVE AInv
  OBVIOUS
<1>0. PICK there \in SUBSET FilesOf(kind), chosen \in BOOLEAN :
        disk = [place |-> there, staged |-> {}, record |-> kind # "catalog", default |-> chosen,
                journal |-> "none", marker |-> FALSE, saved |-> FALSE, xjournal |-> FALSE]
  BY DEF Init
<1>1. /\ disk.place \subseteq FilesOf(kind) /\ disk.staged = {} /\ disk.journal = "none" /\ ~disk.marker
      /\ before = disk /\ pc = "idle" /\ answer = "none" /\ old = {} /\ told = {}
  <2>1. disk.place = there /\ disk.staged = {} /\ disk.journal = "none" /\ disk.marker = FALSE
    BY <1>0
  <2> QED
    BY <2>1 DEF Init
<1>2. before.record = (kind # "catalog")
  BY <1>0, <1>1
<1>3. Fate(disk, pc)
  BY <1>1 DEF Fate, Resting, Kept, Whole, SameOwners
<1>4. Promised(disk, pc, answer) /\ Behind(disk, old) /\ Bound(disk)
  BY <1>1 DEF Promised, Behind, Bound
<1> QED
  BY <1>1, <1>2, <1>3, <1>4 DEF AInv, Fine, FilesInv

\* A request begins on a disk where nothing is staged under its journal; when
\* another one was left, it was committed, and nothing is there any more.
LEMMA BeginFine == IInv /\ AInv /\ Begin => AInv'
<1> SUFFICES ASSUME IInv, AInv, Begin, hit' = {} PROVE Fine(disk, pc)' /\ FilesInv'
  BY DEF AInv
<1>1. /\ disk' = With(disk, NoJournal) /\ old' = old \cup Journal(disk) /\ before' = disk'
      /\ answer' = "none" /\ told' = {} /\ pc' = IF kind = "local" /\ External \in disk.place THEN "xplan" ELSE "plan"
      /\ UNCHANGED <<kind, left>> /\ hit = {} /\ (kind # "catalog" => disk.record)
      /\ ~(~disk.marker /\ (disk.staged # {} \/ disk.journal # "none"))
  BY DEF Begin
<1>2. Fine(disk, "idle") /\ FilesInv /\ disk \in Disks /\ Journaled(disk) /\ before \in Disks /\ kind \in Kinds
  BY <1>1 DEF AInv, Begin, IInv, Fits, TypeOK
<1>3. /\ disk'.place = disk.place /\ disk'.record = disk.record /\ disk'.default = disk.default
      /\ disk'.journal = "none" /\ disk'.marker = FALSE /\ disk'.staged = disk.staged \ Managed
  BY <1>1, <1>2 DEF With, NoJournal, Disks
<1>4. CASE disk.marker
  <2>1. Gone(disk) /\ disk.journal = "recovery" /\ kind = "catalog"
    BY <1>1, <1>2, <1>4 DEF Fine, Fate, Resting, Gone, Journaled, Disks
  <2>2. disk'.staged = {}
    BY <1>2, <1>3, <2>1 DEF Fine, Bound, FilesOf
  <2>3. Harmless(AtHand(disk))
    BY <1>4, <2>1 DEF Harmless, AtHand
  <2>4. \A o \in old' : Harmless(o)
    BY <1>1, <1>2, <2>3 DEF Journal, Fine, Behind
  <2>5. Gone(disk)' /\ Gone(before)' /\ Whole(disk)' /\ SameOwners(disk)'
    BY <1>1, <1>3, <2>1, <2>2 DEF Gone, Whole, SameOwners
  <2>6. Void(disk)'
    BY <1>1, <2>1, <2>5 DEF Void
  <2>7. Behind(disk, old)'
    BY <2>4, <2>6 DEF Behind, Harmless
  <2>8. Fate(disk, pc)'
    BY <1>1, <1>3, <2>1, <2>2, <2>5 DEF Fate, Gone
  <2>9. Promised(disk, pc, answer)' /\ Bound(disk)'
    BY <1>1, <1>3, <2>1, <2>2 DEF Promised, Bound, Gone
  <2>10. FilesInv'
    BY <1>1, <1>2, <1>3, <2>1 DEF FilesInv, Gone, Disks
  <2> QED
    BY <2>7, <2>8, <2>9, <2>10 DEF Fine
<1>5. CASE ~disk.marker
  <2>1. disk.staged = {} /\ disk.journal = "none"
    BY <1>1, <1>5
  <2>2. disk'.staged = {} /\ old' = old
    BY <1>1, <1>3, <2>1 DEF Journal
  <2>3. /\ pc' \in {"xplan", "plan"} /\ (pc' = "xplan" => External \in disk.place)
        /\ pc' = "plan" => External \notin disk.place
    <3>1. kind # "local" => External \notin disk.place
      BY <1>2, ExternalIsNotManaged DEF Fine, Bound, FilesOf, Kinds
    <3> QED
      BY <1>1, <3>1
  <2>4. Whole(disk)' /\ SameOwners(disk)'
    BY <1>1, <2>2 DEF Whole, SameOwners
  <2>5. Fate(disk, pc)'
    BY <1>1, <1>3, <2>2, <2>3, <2>4 DEF Fate
  <2>6. Behind(disk, old)'
    <3>1. old # {} => Void(disk) /\ \A o \in old : Harmless(o)
      BY <1>2 DEF Fine, Behind
    <3>2. Void(disk) => Void(disk)'
      BY <1>1, <1>3 DEF Void, Gone
    <3> QED
      BY <2>2, <3>1, <3>2 DEF Behind, Harmless
  <2>7. Promised(disk, pc, answer)'
    BY <1>1 DEF Promised
  <2>8. Bound(disk)'
    BY <1>1, <1>2, <1>3, <2>1, <2>2 DEF Bound, Fine, FilesOf
  <2>9. FilesInv'
    BY <1>1, <1>2, <1>3, <2>3 DEF FilesInv, Fine, Bound, Disks
  <2> QED
    BY <2>5, <2>6, <2>7, <2>8, <2>9 DEF Fine
<1> QED
  BY <1>4, <1>5

\* Outside the windows a restart finds a disk it can settle.
LEMMA RestartFine == IInv /\ AInv /\ Restart => AInv'
<1> SUFFICES ASSUME IInv, AInv, Restart, Calm(disk) PROVE Fine(disk, pc)' /\ FilesInv'
  BY DEF Restart, Calm, AInv
<1>1. pc' = "boot" /\ told' = {} /\ UNCHANGED <<kind, disk, old, before, answer>>
  BY DEF Restart
<1>2. Resting(disk) /\ Fine(disk, pc) /\ FilesInv /\ disk \in Disks
  BY AlwaysResting DEF AInv, Calm, IInv, Fits
<1>3. Fate(disk, "boot")
  BY <1>2 DEF Fate, Resting
<1>4. Promised(disk, "boot", answer)
  BY <1>2, CalmMeans DEF Fine, Promised, Disks
<1>5. Fine(disk, pc)'
  BY <1>1, <1>2, <1>3, <1>4, FineMoves DEF Fine
<1>6. FilesInv'
  BY <1>1, <1>2 DEF FilesInv
<1> QED
  BY <1>5, <1>6

\* The invariant is inductive together with IInv.
LEMMA NextFine == IInv /\ AInv /\ [Next]_vars => AInv'
<1> SUFFICES ASSUME IInv, AInv, [Next]_vars PROVE AInv'
  OBVIOUS
<1>1. CASE Begin
  BY <1>1, BeginFine
<1>2. CASE Server
  BY <1>2, StageExternalFine, PlanFine, StageManagedFine, UnstageFine, CommitFine,
     RollbackFine, CleanUpFine, ReconcileManagedFine, ReconcileExternalFine DEF Server
<1>3. CASE Restart
  BY <1>3, RestartFine
<1>4. ASSUME NEW f \in Managed, Reinstall(f) PROVE AInv'
  BY <1>4 DEF Reinstall, AInv
<1>5. CASE UNCHANGED vars
  <2>1. UNCHANGED <<kind, disk, old, before, pc, left, told, answer, hit>>
    BY <1>5 DEF vars
  <2>2. hit = {} => Fine(disk, pc)'
    BY <2>1, FineGoesOn DEF AInv
  <2>3. hit = {} => FilesInv'
    BY <2>1 DEF AInv, FilesInv
  <2> QED
    BY <2>1, <2>2, <2>3 DEF AInv
<1> QED
  BY <1>1, <1>2, <1>3, <1>4, <1>5 DEF Next

\* Nothing is staged once no journal is left.
LEMMA SettledIsDecided == IInv /\ AInv /\ Settled /\ hit = {} => (Kept(disk) /\ disk.staged = {}) \/ Gone(disk)
<1> SUFFICES ASSUME IInv, AInv, Settled, hit = {}
             PROVE  (Kept(disk) /\ disk.staged = {}) \/ Gone(disk)
  OBVIOUS
<1>1. disk.staged = {}
  BY DEF Settled, IInv, Fits, Journaled, Disks
<1>2. Resting(disk)
  BY DEF Settled, AInv, Fine, Fate
<1> QED
  BY <1>1, <1>2 DEF Settled, Resting

\* Whatever fails, with or without its effect, whenever the server restarts and
\* whatever requests follow, the five named windows apart: a model without a
\* pending journal is there with its files, its record and its default, or it
\* is gone with all of them.
THEOREM Atomicity == Spec => []DeletionIsAtomic
<1>1. IInv /\ AInv => DeletionIsAtomic
  BY SettledIsDecided
     DEF DeletionIsAtomic, Untouched, Deleted, Kept, Gone, Whole, SameOwners, IInv, Fits, Disks
<1> QED
  BY <1>1, InitInv, NextInv, InitFine, NextFine, PTL DEF Spec

\* The answer to a deletion stays true through every later restart: a model that
\* was reported deleted never comes back, one that was not is whole.
THEOREM AnswersStayTrue == Spec => []AnswersAreTrue
<1>1. IInv /\ AInv => AnswersAreTrue
  <2> SUFFICES ASSUME IInv, AInv, Settled, hit = {}
               PROVE  (answer = "deleted" => Deleted) /\ (answer = "failed" => Untouched)
    BY DEF AnswersAreTrue
  <2>1. disk.staged = {} /\ disk \in Disks /\ before \in Disks
    BY DEF Settled, IInv, Fits, Journaled, Disks, TypeOK
  <2>2. Promised(disk, pc, answer)
    BY DEF AInv, Fine
  <2> QED
    BY <2>1, <2>2 DEF Promised, Untouched, Deleted, Void, Kept, Gone, Whole, SameOwners, Disks
<1> QED
  BY <1>1, InitInv, NextInv, InitFine, NextFine, PTL DEF Spec
=============================================================================
