------------------------ MODULE WorkspaceRestoreProofs ------------------------
(***************************************************************************)
(* What holds of restores for every set of assets and any number of        *)
(* restores, crashes and failing steps: the workspace is never torn, no    *)
(* preflight refuses, and a restore happens at once or not at all.         *)
(*                                                                         *)
(* The argument is about what a new server finds. Whatever step is         *)
(* interrupted, journal, marker and directories are in one of three        *)
(* relations: nothing is journaled and the workspace is whole (Settled),   *)
(* each root has its old tree in place or set aside (Undecided), or each   *)
(* root has its new tree (Decided).                                        *)
(***************************************************************************)
EXTENDS WorkspaceRestore, FiniteSetTheorems, TLAPS

\* A name without a directory has no tree and no files either.
Identified ==
  \A r \in Roots, n \in Names : dirs[r][n].id = 0 => dirs[r][n] = NoDir

\* Restores are numbered: the rows belong to the newest restore that was
\* committed, the journal names a restore that is not older, and the marker
\* counts exactly when the rows are those of the journal's restore.
Numbered ==
  /\ db.ver <= attempts /\ journal.token <= attempts
  /\ marker \in {0, db.ver}
  /\ aim = "begin" => db.ver < attempts
  /\ journal.token # 0 =>
       /\ db.ver <= journal.token
       /\ marker \in {0, journal.token}
       /\ marker = journal.token <=> db.ver = journal.token
       /\ \A r \in Roots : journal.orig[r] # 0 /\ (Attested => journal.staged[r] # 0)

\* Who holds the staging authority holds it for the journal's restore.
Authorized ==
  /\ authority.token \in {0, journal.token}
  /\ phase = "down" => authority.token = 0
  /\ authority.token # 0 =>
       /\ authority.orig = journal.orig
       /\ Attested => authority.staged = journal.staged

Clear(r) == ~ Exists(r, "staged") /\ ~ Exists(r, "previous") /\ ~ Exists(r, "discarded")

\* Nothing is journaled: the workspace is whole and nothing else is there.
Settled ==
  journal.token = 0 =>
    /\ \A r \in Roots : Exists(r, "live") /\ dirs[r]["live"].ver = db.ver /\ Clear(r)
    /\ phase = "down" \/ pinned = LiveIds

\* The old tree, and the directory that the restore has staged.
Old(r, n) == dirs[r][n].id = journal.orig[r] /\ dirs[r][n].ver = db.ver
Stage(r, n) == dirs[r][n].id = journal.staged[r]

\* The old tree is where it was. An attested stage may be beside it, and an
\* empty directory that a rollback has put away; before that, an empty stage.
InPlace(r) ==
  /\ Old(r, "live") /\ ~ Exists(r, "previous")
  /\ Attested => dirs[r]["staged"].id \in {0, journal.staged[r]} /\ dirs[r]["discarded"].ver = Empty
  /\ ~ Attested => dirs[r]["staged"].ver = Empty /\ ~ Exists(r, "discarded")

\* What a root has in the place of its tree when that has been set aside:
\* nothing yet, the new tree, or a directory that a start or a request has made.
Missing(r) == ~ Exists(r, "live") /\ Stage(r, "staged")
NewInPlace(r) == Stage(r, "live") /\ dirs[r]["live"].ver = journal.token /\ ~ Exists(r, "staged")
Substituted(r) ==
  /\ Exists(r, "live") /\ Stage(r, "staged")
  /\ dirs[r]["live"].ver = Empty \/ (r = "media" /\ dirs[r]["live"].ver = Partial)
SetAside(r) ==
  /\ Attested
  /\ Old(r, "previous") /\ dirs[r]["discarded"].ver = Empty
  /\ Missing(r) \/ NewInPlace(r) \/ Substituted(r)

\* The restore in the journal is not committed: each root has its old tree.
Uncommitted == journal.token # 0 /\ db.ver < journal.token
Undecided == Uncommitted => \A r \in Roots : InPlace(r) \/ SetAside(r)

\* It is committed: each root has its new tree.
Renewed(r) ==
  /\ NewInPlace(r) /\ ~ Exists(r, "discarded")
  /\ dirs[r]["previous"].id \in {0, journal.orig[r]}
Decided == journal.token # 0 /\ ~ Uncommitted => Attested /\ \A r \in Roots : Renewed(r)

\* The steps of a restore, from its journal to its commit.
Making == {"prepare", "prepare2", "attest", "fill", "seal", "promote"}
Journaled == phase \in Making \cup {"swap", "commit"} =>
  aim = "begin" /\ journal.token = attempts /\ journal.token # 0

\* Until the swap the live roots are untouched; then each root is in place, or
\* on its way, and config waits for media.
Fresh(d) == d.files = {} /\ d.ver = attempts
Untouched(r) ==
  /\ dirs[r]["live"].id = journal.orig[r]
  /\ ~ Exists(r, "previous") /\ ~ Exists(r, "discarded")
Swapping(r) ==
  /\ ~ Exists(r, "discarded")
  /\ \/ InPlace(r) /\ Stage(r, "staged") /\ Fresh(dirs[r]["staged"])
     \/ Missing(r) /\ Old(r, "previous") /\ Fresh(dirs[r]["staged"])
     \/ NewInPlace(r) /\ Old(r, "previous") /\ Fresh(dirs[r]["live"])
Staging ==
  /\ phase \in Making => pinned = journal.orig /\ \A r \in Roots : Untouched(r)
  /\ phase \in {"prepare", "prepare2"} => authority.token = 0 /\ ~ Exists("config", "staged")
  /\ phase = "prepare" => ~ Exists("media", "staged")
  /\ phase = "prepare2" => Exists("media", "staged") /\ dirs["media"]["staged"].files = {}
  /\ phase \in {"prepare", "prepare2", "attest"} => ~ Attested
  /\ phase \in {"fill", "seal", "promote", "swap", "commit"} => Attested
  /\ phase \in {"attest", "fill", "seal", "promote", "swap"} => authority.token = journal.token
  /\ phase = "attest" => authority.staged = StagedIds
  /\ phase \in {"fill", "seal", "promote"} => StagedIds = journal.staged
  /\ phase \in {"attest", "fill", "seal", "promote"} =>
       \A r \in Roots : Exists(r, "staged") /\ dirs[r]["staged"].files = {}
  /\ phase = "promote" => \A r \in Roots : Fresh(dirs[r]["staged"])
  /\ phase = "swap" => \A r \in Roots : Swapping(r)
  /\ phase = "swap" /\ ~ NewInPlace("media") => InPlace("config")
  /\ phase = "commit" =>
       /\ pinned = LiveIds
       /\ \A r \in Roots : Renewed(r) /\ Old(r, "previous") /\ Fresh(dirs[r]["live"])

\* The steps of a recovery: which way it goes, and what it has got done.
Recovering ==
  /\ phase \in {"refresh", "cleanup"} => journal.token # 0 /\ ~ Uncommitted
  /\ phase \in {"rollback", "undo"} => Uncommitted
  /\ phase = "undo" => ~ Recreated
  /\ phase \in {"sweep", "unjournal"} =>
       journal.token # 0 /\ (Uncommitted => \A r \in Roots : InPlace(r))
  /\ phase \in {"cleanup", "unjournal"} => pinned = LiveIds
  /\ phase = "sweep" /\ ~ Uncommitted => pinned = LiveIds
  /\ phase = "unjournal" => authority.token = 0 /\ \A r \in Roots : Clear(r)
  /\ phase \in {"unmark", "journal", "export"} => journal.token = 0
  /\ phase = "journal" => marker = 0 /\ aim = "begin"

IInv ==
  /\ TypeOK /\ Identified /\ Numbered /\ Authorized /\ Settled /\ Undecided /\ Decided
  /\ Journaled /\ Staging /\ Recovering /\ ExportsAreWhole

-----------------------------------------------------------------------------
(* Identities.                                                             *)

\* Two finite sets together have at most as many elements as the two have apart.
LEMMA Together ==
  ASSUME NEW S, IsFiniteSet(S), NEW T, IsFiniteSet(T)
  PROVE  /\ IsFiniteSet(S \cup T)
         /\ Cardinality(S) \in Nat /\ Cardinality(T) \in Nat /\ Cardinality(S \cup T) \in Nat
         /\ Cardinality(S \cup T) <= Cardinality(S) + Cardinality(T)
<1>1. IsFiniteSet(S \cap T)
  BY FS_Intersection
<1>2. /\ Cardinality(S) \in Nat /\ Cardinality(T) \in Nat
      /\ Cardinality(S \cap T) \in Nat /\ Cardinality(S \cup T) \in Nat
  BY <1>1, FS_CardinalityType, FS_Union
<1>3. Cardinality(S \cup T) = Cardinality(S) + Cardinality(T) - Cardinality(S \cap T)
  BY FS_Union
<1>4. IsFiniteSet(S \cup T)
  BY FS_Union
<1> QED
  BY <1>2, <1>3, <1>4

\* Four names make a set of at most four.
LEMMA FourAtMost ==
  ASSUME NEW a, NEW b, NEW c, NEW d
  PROVE  IsFiniteSet({a, b, c, d}) /\ Cardinality({a, b, c, d}) <= 4
<1> DEFINE A == {a} \cup {b}
           B == {c} \cup {d}
           All == {a, b, c, d}
<1>1. ASSUME NEW x, NEW y
      PROVE  IsFiniteSet({x} \cup {y}) /\ Cardinality({x} \cup {y}) <= 2
  <2> DEFINE X == {x}
             Y == {y}
  <2>1. IsFiniteSet(X) /\ Cardinality(X) = 1 /\ IsFiniteSet(Y) /\ Cardinality(Y) = 1
    BY FS_Singleton, Zenon
  <2> HIDE DEF X, Y
  <2>2. /\ IsFiniteSet(X \cup Y) /\ Cardinality(X \cup Y) \in Nat
        /\ Cardinality(X \cup Y) <= Cardinality(X) + Cardinality(Y)
    BY <2>1, Together
  <2>3. IsFiniteSet(X \cup Y) /\ Cardinality(X \cup Y) <= 2
    BY <2>1, <2>2
  <2> QED
    BY <2>3 DEF X, Y
<1>3. All = A \cup B
  OBVIOUS
<1>2. IsFiniteSet(A) /\ IsFiniteSet(B) /\ Cardinality(A) <= 2 /\ Cardinality(B) <= 2
  BY <1>1
<1> HIDE DEF A, B, All
<1>5. /\ IsFiniteSet(A \cup B)
      /\ Cardinality(A) \in Nat /\ Cardinality(B) \in Nat /\ Cardinality(A \cup B) \in Nat
      /\ Cardinality(A \cup B) <= Cardinality(A) + Cardinality(B)
  BY <1>2, Together
<1>6. IsFiniteSet(All) /\ Cardinality(All) <= 4
  BY <1>2, <1>3, <1>5
<1> QED
  BY <1>6 DEF All

\* Eighteen identities may be in use: two of twenty never are.
LEMMA UsedAtMost == IsFiniteSet(UsedIds) /\ Cardinality(UsedIds) <= 18
<1> DEFINE Named(r) == {dirs[r]["live"].id, dirs[r]["staged"].id, dirs[r]["previous"].id,
                        dirs[r]["discarded"].id}
           Known(r) == {journal.orig[r], journal.staged[r], authority.orig[r], authority.staged[r]}
           Of(r) == (Named(r) \cup Known(r)) \cup {pinned[r]}
<1>1. ASSUME NEW r
      PROVE  IsFiniteSet(Of(r)) /\ Cardinality(Of(r)) <= 9
  <2>1. /\ IsFiniteSet(Named(r)) /\ Cardinality(Named(r)) <= 4
        /\ IsFiniteSet(Known(r)) /\ Cardinality(Known(r)) <= 4
    BY FourAtMost
  <2>2. IsFiniteSet({pinned[r]}) /\ Cardinality({pinned[r]}) = 1
    BY FS_Singleton, Zenon
  <2> HIDE DEF Named, Known
  <2> DEFINE Both == Named(r) \cup Known(r)
  <2>3. /\ IsFiniteSet(Both) /\ Cardinality(Both) \in Nat
        /\ Cardinality(Named(r)) \in Nat /\ Cardinality(Known(r)) \in Nat
        /\ Cardinality(Both) <= Cardinality(Named(r)) + Cardinality(Known(r))
    BY <2>1, Together
  <2>4. IsFiniteSet(Both) /\ Cardinality(Both) \in Nat /\ Cardinality(Both) <= 8
    BY <2>1, <2>3
  <2> HIDE DEF Both
  <2>5. /\ IsFiniteSet(Both \cup {pinned[r]}) /\ Cardinality(Both \cup {pinned[r]}) \in Nat
        /\ Cardinality(Both \cup {pinned[r]}) <= Cardinality(Both) + Cardinality({pinned[r]})
    BY <2>2, <2>4, Together
  <2> QED
    BY <2>2, <2>4, <2>5 DEF Both
<1>2. UsedIds = Of("media") \cup Of("config")
  BY DEF UsedIds, Roots, Names
<1>3. /\ IsFiniteSet(Of("media")) /\ Cardinality(Of("media")) <= 9
      /\ IsFiniteSet(Of("config")) /\ Cardinality(Of("config")) <= 9
  BY <1>1
<1> HIDE DEF Of
<1>4. /\ Cardinality(Of("media")) \in Nat /\ Cardinality(Of("config")) \in Nat
      /\ IsFiniteSet(UsedIds) /\ Cardinality(UsedIds) \in Nat
      /\ Cardinality(UsedIds) <= Cardinality(Of("media")) + Cardinality(Of("config"))
  BY <1>2, <1>3, Together
<1> QED
  BY <1>3, <1>4

\* The identity of a new directory is nobody's, and two new directories differ.
LEMMA NewIdentities ==
  /\ FreshIds \in [Roots -> Ids \ UsedIds]
  /\ FreshIds["media"] # FreshIds["config"]
<1> DEFINE Spare == Ids \ UsedIds
<1>1. IsFiniteSet(Ids) /\ Cardinality(Ids) = 20
  <2> DEFINE last == 20
  <2>1. IsFiniteSet(1 .. last) /\ Cardinality(1 .. last) = IF 1 > last THEN 0 ELSE last - 1 + 1
    <3>1. 1 \in Int /\ last \in Int
      OBVIOUS
    <3> HIDE DEF last
    <3> QED
      BY <3>1, FS_Interval
  <2> QED
    BY <2>1 DEF Ids
<1>2. IsFiniteSet(Spare) /\ Cardinality(Spare) >= 2
  <2>1. /\ IsFiniteSet(Spare) /\ Cardinality(Spare) = Cardinality(Ids) - Cardinality(Ids \cap UsedIds)
        /\ IsFiniteSet(UsedIds \cap Ids) /\ Cardinality(Ids \cap UsedIds) <= Cardinality(UsedIds)
    BY <1>1, UsedAtMost, FS_Difference, FS_Intersection
  <2>2. Cardinality(Ids \cap UsedIds) \in Nat /\ Cardinality(UsedIds) \in Nat
    BY <1>1, UsedAtMost, FS_Intersection, FS_CardinalityType
  <2> QED
    BY <1>1, <2>1, <2>2, UsedAtMost
<1>3. PICK i \in Spare : TRUE
  BY <1>2, FS_EmptySet
<1>4. PICK j \in Spare \ {i} : TRUE
  <2>1. IsFiniteSet(Spare \ {i}) /\ Cardinality(Spare \ {i}) = Cardinality(Spare) - 1
    BY <1>2, <1>3, FS_RemoveElement
  <2>2. Cardinality(Spare) \in Nat
    BY <1>2, FS_CardinalityType
  <2> QED
    BY <1>2, <2>1, <2>2, FS_EmptySet
<1>5. \E f \in [Roots -> Spare] : f["media"] # f["config"]
  <2> DEFINE g == [r \in Roots |-> IF r = "media" THEN i ELSE j]
  <2>1. g \in [Roots -> Spare] /\ g["media"] # g["config"]
    BY <1>3, <1>4 DEF Roots
  <2> QED
    BY <2>1
<1> QED
  BY <1>5 DEF FreshIds

-----------------------------------------------------------------------------
(* Directories.                                                            *)

\* The parts of TypeOK.
DirsTyped == dirs \in [Roots -> [Names -> Dir]]
Distinct ==
  \A r, q \in Roots, n, m \in Names :
    Exists(r, n) /\ dirs[r][n].id = dirs[q][m].id => r = q /\ n = m
OtherTypes ==
  /\ journal \in JournalType /\ authority \in JournalType
  /\ db \in [ver : 0 .. MaxRestores, rows : SUBSET Assets]
  /\ marker \in 0 .. MaxRestores /\ attempts \in 0 .. MaxRestores
  /\ pinned \in [Roots -> Ids \cup {0}]
  /\ phase \in Phases /\ aim \in {"boot", "begin", "abort", "done", "export"}
  /\ ensured \in BOOLEAN
  /\ crashes \in 0 .. MaxCrashes /\ faults \in 0 .. MaxFaults

\* TypeOK is its parts.
LEMMA TypeParts == TypeOK <=> DirsTyped /\ Distinct /\ OtherTypes
BY DEF TypeOK, DirsTyped, Distinct, OtherTypes

\* What a missing and an empty directory are, and that no mark is a version.
LEMMA Constants ==
  /\ NoDir \in Dir /\ NoDir.id = 0 /\ NoDir.ver = Empty /\ NoDir.files = {}
  /\ \A i \in Ids : /\ EmptyDir(i) \in Dir /\ EmptyDir(i).id = i /\ i # 0
                    /\ EmptyDir(i).ver = Empty /\ EmptyDir(i).files = {}
  /\ NoJournal \in JournalType /\ NoJournal.token = 0
  /\ Empty \notin Nat /\ Partial \notin Nat /\ Empty # Partial
BY BoundsAreNaturals DEF NoDir, EmptyDir, Dir, NoJournal, NoId, JournalType, Ids, Empty, Partial

\* A rename moves a directory with its identity, tree and files.
LEMMA Moved ==
  ASSUME DirsTyped, NEW r \in Roots, NEW from \in Names, NEW to \in Names, from # to
  PROVE  /\ Move(r, from, to) \in [Roots -> [Names -> Dir]]
         /\ Move(r, from, to)[r][to] = dirs[r][from]
         /\ Move(r, from, to)[r][from] = NoDir
         /\ \A q \in Roots, n \in Names :
              q # r \/ n \notin {from, to} => Move(r, from, to)[q][n] = dirs[q][n]
BY Constants DEF Move, DirsTyped

\* No step but a rename gives an identity that is in use to another name.
LEMMA StaysDistinct ==
  ASSUME DirsTyped, Distinct, DirsTyped', NEW new,
         \A r \in Roots, n \in Names :
           \/ dirs'[r][n].id \in {0, dirs[r][n].id}
           \/ n = new /\ dirs'[r][n].id = FreshIds[r]
  PROVE  Distinct'
<1> SUFFICES ASSUME NEW r \in Roots, NEW q \in Roots, NEW n \in Names, NEW m \in Names,
                    dirs'[r][n].id # 0, dirs'[r][n].id = dirs'[q][m].id
             PROVE  r = q /\ n = m
  BY DEF Distinct, Exists
<1>1. \A k \in Roots : FreshIds[k] \notin UsedIds
  BY NewIdentities
<1>2. \A k \in Roots, l \in Names : dirs[k][l].id \in UsedIds
  BY DEF UsedIds
<1>3. CASE dirs'[r][n].id = dirs[r][n].id /\ dirs'[q][m].id = dirs[q][m].id
  <2>1. dirs[r][n].id # 0 /\ dirs[r][n].id = dirs[q][m].id
    BY <1>3
  <2> QED
    BY <2>1 DEF Distinct, Exists
<1>4. CASE n = new /\ dirs'[r][n].id = FreshIds[r] /\ dirs'[q][m].id = dirs[q][m].id
  BY <1>1, <1>2, <1>4
<1>5. CASE m = new /\ dirs'[q][m].id = FreshIds[q] /\ dirs'[r][n].id = dirs[r][n].id
  BY <1>1, <1>2, <1>5
<1>6. CASE m = new /\ n = new /\ dirs'[q][m].id = FreshIds[q] /\ dirs'[r][n].id = FreshIds[r]
  BY <1>6, NewIdentities DEF Roots
<1> QED
  BY <1>3, <1>4, <1>5, <1>6

\* A rename leaves no identity behind.
LEMMA MoveStaysDistinct ==
  ASSUME DirsTyped, Distinct, NEW r \in Roots, NEW from \in Names, NEW to \in Names, from # to,
         dirs' = Move(r, from, to)
  PROVE  DirsTyped' /\ Distinct'
<1>1. DirsTyped'
  BY Moved DEF DirsTyped
<1>2. ASSUME NEW q \in Roots, NEW n \in Names
      PROVE  \/ dirs'[q][n].id = 0
             \/ (q # r \/ n \notin {from, to}) /\ dirs'[q][n] = dirs[q][n]
             \/ q = r /\ n = to /\ dirs'[q][n] = dirs[r][from]
  BY Moved, Constants
<1>3. ASSUME NEW q \in Roots, NEW p \in Roots, NEW n \in Names, NEW m \in Names,
             dirs'[q][n].id # 0, dirs'[q][n].id = dirs'[p][m].id
      PROVE  q = p /\ n = m
  <2>1. CASE dirs'[q][n] = dirs[q][n] /\ dirs'[p][m] = dirs[p][m]
    BY <1>3, <2>1 DEF Distinct, Exists
  <2>2. CASE q = r /\ n = to /\ dirs'[q][n] = dirs[r][from]
             /\ (p # r \/ m \notin {from, to}) /\ dirs'[p][m] = dirs[p][m]
    BY <1>3, <2>2 DEF Distinct, Exists
  <2>3. CASE p = r /\ m = to /\ dirs'[p][m] = dirs[r][from]
             /\ (q # r \/ n \notin {from, to}) /\ dirs'[q][n] = dirs[q][n]
    BY <1>3, <2>3 DEF Distinct, Exists
  <2> QED
    BY <1>2, <1>3, <2>1, <2>2, <2>3
<1>4. Distinct'
  BY <1>3 DEF Distinct, Exists
<1> QED
  BY <1>1, <1>4

\* A sweep takes a directory that is there and is not a live one.
LEMMA SweptIsThere ==
  ASSUME NEW r \in Roots, NEW n \in Names \ {"live"}, Exists(r, n)
  PROVE  /\ SweepRoot \in Roots
         /\ SweepName(SweepRoot) \in Names \ {"live"}
         /\ Exists(SweepRoot, SweepName(SweepRoot))
<1>1. SweepRoot \in Roots /\ \E m \in Names \ {"live"} : Exists(SweepRoot, m)
  BY DEF SweepRoot, Roots
<1> DEFINE q == SweepRoot
           First(i) == Exists(q, Residue[i]) /\ \A j \in 1 .. i - 1 : ~ Exists(q, Residue[j])
<1>2. Residue[1] = "staged" /\ Residue[2] = "discarded" /\ Residue[3] = "previous"
  BY DEF Residue
<1>3. \E i \in 1 .. 3 : First(i)
  <2>1. CASE Exists(q, "staged")
    BY <1>2, <2>1
  <2>2. CASE ~ Exists(q, "staged") /\ Exists(q, "discarded")
    BY <1>2, <2>2
  <2>3. CASE ~ Exists(q, "staged") /\ ~ Exists(q, "discarded") /\ Exists(q, "previous")
    <3>1. \A j \in 1 .. 2 : j = 1 \/ j = 2
      OBVIOUS
    <3> QED
      BY <1>2, <2>3, <3>1
  <2> QED
    BY <1>1, <2>1, <2>2, <2>3 DEF Names
<1> DEFINE k == CHOOSE i \in 1 .. 3 : First(i)
<1>4. k \in 1 .. 3 /\ First(k)
  <2> HIDE DEF First
  <2> QED
    BY <1>3
<1>5. SweepName(q) = Residue[k]
  BY DEF SweepName
<1> HIDE DEF k, q
<1>6. k = 1 \/ k = 2 \/ k = 3
  BY <1>4
<1> QED
  BY <1>1, <1>2, <1>4, <1>5, <1>6 DEF q, Names

\* What a step of the sweep leaves of a directory.
LEMMA DismantledForms ==
  ASSUME NEW d \in Dir
  PROVE  /\ Dismantled(d) \in Dir
         /\ \/ Dismantled(d) = NoDir
            \/ Dismantled(d) = [d EXCEPT !.ver = Partial] /\ d.ver \in Nat
BY Constants DEF Dismantled, Dir

\* Every step that changes a directory, root by root and name by name.
Remade(r, n, d) ==
  /\ dirs' \in [Roots -> [Names -> Dir]]
  /\ dirs'[r][n] = d
  /\ \A q \in Roots, m \in Names : q # r \/ m # n => dirs'[q][m] = dirs[q][m]

\* An update of one name leaves every other name alone.
LEMMA OneIsRemade ==
  ASSUME DirsTyped, NEW r \in Roots, NEW n \in Names, NEW d \in Dir,
         dirs' = [dirs EXCEPT ![r][n] = d]
  PROVE  Remade(r, n, d)
BY DEF DirsTyped, Remade

\* A step of the sweep takes one directory apart, or finds none left.
LEMMA SweepForms ==
  ASSUME DirsTyped, Sweep
  PROVE  \/ UNCHANGED dirs /\ \A r \in Roots : Clear(r)
         \/ \E r \in Roots, n \in Names \ {"live"} :
              Exists(r, n) /\ Remade(r, n, Dismantled(dirs[r][n]))
<1>1. CASE \E r \in Roots, n \in Names \ {"live"} : Exists(r, n)
  <2> DEFINE r == SweepRoot
             n == SweepName(SweepRoot)
  <2>1. r \in Roots /\ n \in Names \ {"live"} /\ Exists(r, n)
    BY <1>1, SweptIsThere
  <2>2. dirs' = [dirs EXCEPT ![r][n] = Dismantled(dirs[r][n])]
    BY <1>1 DEF Sweep
  <2> HIDE DEF r, n
  <2>3. Dismantled(dirs[r][n]) \in Dir
    BY <2>1, DismantledForms DEF DirsTyped
  <2>4. Remade(r, n, Dismantled(dirs[r][n]))
    BY <2>1, <2>2, <2>3, OneIsRemade
  <2> QED
    BY <2>1, <2>4
<1>2. CASE ~ \E r \in Roots, n \in Names \ {"live"} : Exists(r, n)
  BY <1>2 DEF Sweep, Clear, Names
<1> QED
  BY <1>1, <1>2

\* A start makes the live roots that are missing.
LEMMA PlaceholderForms ==
  ASSUME DirsTyped, dirs' = WithPlaceholders
  PROVE  /\ dirs' \in [Roots -> [Names -> Dir]]
         /\ \A r \in Roots :
              /\ \A n \in Names : n # "live" \/ Exists(r, n) => dirs'[r][n] = dirs[r][n]
              /\ ~ Exists(r, "live") => dirs'[r]["live"] = EmptyDir(FreshIds[r])
<1>1. \A r \in Roots : EmptyDir(FreshIds[r]) \in Dir
  BY NewIdentities, Constants
<1> QED
  BY <1>1 DEF WithPlaceholders, DirsTyped, Names

\* A name that gets its own identity, a new one or none stays sound.
LEMMA RemadeStaysSound ==
  ASSUME DirsTyped, Distinct, Identified, NEW r \in Roots, NEW n \in Names, NEW d \in Dir,
         Remade(r, n, d), d.id \in {0, dirs[r][n].id, FreshIds[r]}, d.id = 0 => d = NoDir
  PROVE  DirsTyped' /\ Distinct' /\ Identified'
<1>1. DirsTyped'
  BY DEF Remade, DirsTyped
<1>2. \A q \in Roots, m \in Names :
        \/ dirs'[q][m].id \in {0, dirs[q][m].id}
        \/ m = n /\ dirs'[q][m].id = FreshIds[q]
  BY DEF Remade
<1>3. Distinct'
  BY <1>1, <1>2, StaysDistinct
<1>4. Identified'
  BY DEF Remade, Identified
<1> QED
  BY <1>1, <1>3, <1>4

\* So does a rename.
LEMMA MoveStaysSound ==
  ASSUME DirsTyped, Distinct, Identified, NEW r \in Roots, NEW from \in Names, NEW to \in Names,
         from # to, dirs' = Move(r, from, to)
  PROVE  DirsTyped' /\ Distinct' /\ Identified'
<1>1. DirsTyped' /\ Distinct'
  BY MoveStaysDistinct
<1>2. ASSUME NEW q \in Roots, NEW n \in Names
      PROVE  dirs'[q][n] = NoDir \/ dirs'[q][n] = dirs[q][n] \/ dirs'[q][n] = dirs[r][from]
  <2>1. /\ dirs'[r][to] = dirs[r][from] /\ dirs'[r][from] = NoDir
        /\ q # r \/ n \notin {from, to} => dirs'[q][n] = dirs[q][n]
    BY Moved
  <2> QED
    BY <2>1
<1>3. Identified'
  BY <1>2 DEF Identified
<1> QED
  BY <1>1, <1>3

\* And a step that leaves the directories alone.
LEMMA UnchangedStaysSound ==
  ASSUME DirsTyped, Distinct, Identified, dirs' = dirs
  PROVE  DirsTyped' /\ Distinct' /\ Identified'
BY DEF DirsTyped, Distinct, Identified, Exists

\* What each step does to the directories.
Quiet ==
  \/ Reconcile \/ Decide \/ Refresh \/ Cleanup \/ Rollback \/ Unjournal \/ Unmark
  \/ WriteJournal \/ Attest \/ Promote \/ Commit \/ Export
  \/ Crash \/ ReconcileFails \/ WriteJournalFails \/ StepFails \/ SwapFails \/ CommitFails
  \/ StartRestore \/ StartExport

\* The quiet steps leave the directories alone.
LEMMA QuietSteps == Quiet => dirs' = dirs
BY DEF Quiet, Reconcile, Decide, Refresh, Cleanup, Rollback, Unjournal, Unmark, WriteJournal, Attest,
       Promote, Commit, Export, Crash, ReconcileFails, WriteJournalFails, StepFails, SwapFails,
       CommitFails, StartRestore, StartExport, durable

\* The other steps, one by one.
LEMMA StepCases ==
  Next => \/ Quiet
          \/ Start \/ ServerCrash \/ Undo \/ Sweep \/ Prepare \/ PrepareConfig \/ PrepareFails
          \/ Fill \/ Swap \/ (\E a \in Assets : AddAsset(a)) \/ AddAssetRefused
BY DEF Next, Recovery, Restoring, Failing, Quiet

\* Preparing makes one stage at a time.
LEMMA StagesAreMade ==
  ASSUME DirsTyped
  PROVE  /\ Prepare => UNCHANGED dirs \/ Remade("media", "staged", EmptyDir(FreshIds["media"]))
         /\ PrepareConfig => Remade("config", "staged", EmptyDir(FreshIds["config"]))
         /\ PrepareFails => Remade("media", "staged", NoDir)
<1>1. \A r \in Roots : EmptyDir(FreshIds[r]) \in Dir
  BY NewIdentities, Constants
<1> QED
  BY <1>1, OneIsRemade, Constants DEF Prepare, PrepareConfig, PrepareFails, Roots, Names

\* Filling and sealing change what the stages hold, not which directories they are.
LEMMA FillForms ==
  ASSUME DirsTyped, Fill, attempts \in 0 .. MaxRestores
  PROVE  \E v \in {Partial, attempts} :
           /\ (phase = "fill" => v = Partial) /\ (phase = "seal" => v = attempts)
           /\ dirs' \in [Roots -> [Names -> Dir]]
           /\ \A r \in Roots :
                /\ \A n \in Names \ {"staged"} : dirs'[r][n] = dirs[r][n]
                /\ dirs'[r]["staged"] = [dirs[r]["staged"] EXCEPT !.ver = v]
<1> DEFINE v == IF phase = "fill" THEN Partial ELSE attempts
<1>1. dirs' = [r \in Roots |-> [dirs[r] EXCEPT !["staged"].ver = v]]
  BY DEF Fill
<1>2. v \in {Partial, attempts} /\ (phase = "fill" => v = Partial) /\ (phase = "seal" => v = attempts)
  BY DEF Fill
<1>3. v \in {Empty, Partial} \cup 0 .. MaxRestores
  BY <1>2
<1> HIDE DEF v
<1>4. ASSUME NEW r \in Roots
      PROVE  /\ dirs'[r] \in [Names -> Dir]
             /\ \A n \in Names \ {"staged"} : dirs'[r][n] = dirs[r][n]
             /\ dirs'[r]["staged"] = [dirs[r]["staged"] EXCEPT !.ver = v]
  <2>1. dirs'[r] = [dirs[r] EXCEPT !["staged"].ver = v]
    BY <1>1
  <2>2. dirs[r] \in [Names -> Dir] /\ dirs[r]["staged"] \in Dir
    BY DEF DirsTyped, Names
  <2>3. [dirs[r]["staged"] EXCEPT !.ver = v] \in Dir
    BY <1>3, <2>2 DEF Dir
  <2>4. dirs'[r] = [dirs[r] EXCEPT !["staged"] = [dirs[r]["staged"] EXCEPT !.ver = v]]
    BY <2>1, <2>2 DEF Names
  <2> QED
    BY <2>2, <2>3, <2>4 DEF Names
<1>5. /\ dirs' \in [Roots -> [Names -> Dir]]
      /\ \A r \in Roots :
           /\ \A n \in Names \ {"staged"} : dirs'[r][n] = dirs[r][n]
           /\ dirs'[r]["staged"] = [dirs[r]["staged"] EXCEPT !.ver = v]
  BY <1>1, <1>4
<1> QED
  BY <1>2, <1>5

\* A request changes the live media root only.
LEMMA AssetForms ==
  ASSUME DirsTyped
  PROVE  /\ \A a \in Assets : AddAsset(a) =>
              LET d == dirs["media"]["live"] IN
              Remade("media", "live", [d EXCEPT !.files = @ \cup {a}])
         /\ AddAssetRefused =>
              Remade("media", "live", [EmptyDir(FreshIds["media"]) EXCEPT !.ver = Partial])
<1>1. ASSUME NEW a \in Assets
      PROVE  [dirs["media"]["live"] EXCEPT !.files = @ \cup {a}] \in Dir
  BY <1>1 DEF DirsTyped, Dir, Roots, Names
<1>2. [EmptyDir(FreshIds["media"]) EXCEPT !.ver = Partial] \in Dir
  BY NewIdentities DEF EmptyDir, Dir, Roots
<1>3. ASSUME NEW a \in Assets, AddAsset(a)
      PROVE  dirs' = [dirs EXCEPT !["media"]["live"] = [dirs["media"]["live"] EXCEPT !.files = @ \cup {a}]]
  BY <1>3 DEF AddAsset, DirsTyped, Roots, Names
<1> QED
  BY <1>1, <1>2, <1>3, OneIsRemade DEF AddAssetRefused, Roots, Names

\* The swap makes one rename, or finds both roots promoted.
LEMMA SwapForms ==
  ASSUME Swap
  PROVE  \/ LiveIds = authority.staged /\ UNCHANGED dirs /\ pinned' = LiveIds /\ phase' = "commit"
         \/ /\ LiveIds # authority.staged /\ UNCHANGED pinned /\ phase' = "swap"
            /\ \E r \in Roots :
                 /\ r = NextToSwap
                 /\ Exists(r, "live") => dirs' = Move(r, "live", "previous")
                 /\ ~ Exists(r, "live") => dirs' = Move(r, "staged", "live")
BY DEF Swap, Goto, NextToSwap, Roots

\* The rollback makes one rename, or finds both roots put back.
LEMMA UndoForms ==
  ASSUME DirsTyped, Undo
  PROVE  \/ /\ \A r \in Roots : ~ Exists(r, "previous")
            /\ UNCHANGED dirs /\ phase' = "sweep"
         \/ \E r \in Roots :
              /\ Exists(r, "previous") /\ phase' = "undo"
              /\ \/ ~ Exists(r, "live") /\ dirs' = Move(r, "previous", "live")
                 \/ Exists(r, "live") /\ Stage(r, "live") /\ dirs' = Move(r, "live", "staged")
                 \/ /\ Exists(r, "live") /\ ~ Stage(r, "live") /\ Exists(r, "discarded")
                    /\ Remade(r, "live", NoDir)
                 \/ /\ Exists(r, "live") /\ ~ Stage(r, "live") /\ ~ Exists(r, "discarded")
                    /\ dirs' = Move(r, "live", "discarded")
<1> DEFINE r == NextToUndo
<1>1. CASE ~ Exists(r, "previous")
  BY <1>1 DEF Undo, Goto, NextToUndo, Roots
<1>2. CASE Exists(r, "previous")
  <2>1. r \in Roots /\ phase' = "undo"
    BY <1>2 DEF Undo, Goto, NextToUndo, Roots
  <2>2. dirs' = IF dirs[r]["live"].id = 0 THEN Move(r, "previous", "live")
                ELSE IF dirs[r]["live"].id = journal.staged[r] THEN Move(r, "live", "staged")
                ELSE IF Exists(r, "discarded")
                     THEN [dirs EXCEPT ![r]["live"] = NoDir]
                     ELSE Move(r, "live", "discarded")
    BY <1>2 DEF Undo
  <2> HIDE DEF r
  <2>3. dirs' = [dirs EXCEPT ![r]["live"] = NoDir] => Remade(r, "live", NoDir)
    BY <2>1, OneIsRemade, Constants DEF Names
  <2> QED
    BY <1>2, <2>1, <2>2, <2>3 DEF Exists, Stage
<1> QED
  BY <1>1, <1>2

\* Every step keeps the directories typed, apart and identified.
LEMMA DirsKept == IInv /\ [Next]_vars => DirsTyped' /\ Distinct' /\ Identified'
<1> SUFFICES ASSUME DirsTyped, Distinct, OtherTypes, Identified, Staging, [Next]_vars
             PROVE  DirsTyped' /\ Distinct' /\ Identified'
  BY TypeParts DEF IInv
<1> USE DEF Roots, Names
<1>1. CASE UNCHANGED vars \/ Quiet
  BY <1>1, QuietSteps, UnchangedStaysSound DEF vars, durable
<1>2. CASE Start \/ ServerCrash
  <2>1. dirs' = WithPlaceholders
    BY <1>2 DEF Start, ServerCrash
  <2>2. DirsTyped'
    BY <2>1, PlaceholderForms DEF DirsTyped
  <2>3. \A r \in Roots : FreshIds[r] \in Ids
    BY NewIdentities
  <2>4. \A r \in Roots, n \in Names :
          \/ dirs'[r][n] = dirs[r][n]
          \/ n = "live" /\ dirs'[r][n].id = FreshIds[r] /\ dirs'[r][n].id # 0
    BY <2>1, <2>3, PlaceholderForms, Constants
  <2>5. Distinct'
    <3> HIDE DEF Roots, Names
    <3>1. \A r \in Roots, n \in Names :
            \/ dirs'[r][n].id \in {0, dirs[r][n].id}
            \/ n = "live" /\ dirs'[r][n].id = FreshIds[r]
      BY <2>4
    <3> QED
      BY <2>2, <3>1, StaysDistinct
  <2>6. Identified'
    <3> SUFFICES ASSUME NEW r \in Roots, NEW n \in Names, dirs'[r][n].id = 0
                 PROVE  dirs'[r][n] = NoDir
      BY DEF Identified
    <3>1. dirs'[r][n] = dirs[r][n]
      BY <2>4
    <3> QED
      BY <3>1 DEF Identified
  <2> QED
    BY <2>2, <2>5, <2>6
<1>3. CASE Undo
  BY <1>3, UndoForms, MoveStaysSound, RemadeStaysSound, UnchangedStaysSound, Constants
<1>4. CASE Sweep
  <2>1. ASSUME NEW r \in Roots, NEW n \in Names \ {"live"},
               Exists(r, n), Remade(r, n, Dismantled(dirs[r][n]))
        PROVE  DirsTyped' /\ Distinct' /\ Identified'
    <3>1. dirs[r][n] \in Dir
      BY DEF DirsTyped
    <3>2. /\ Dismantled(dirs[r][n]) \in Dir
          /\ Dismantled(dirs[r][n]).id \in {0, dirs[r][n].id}
          /\ Dismantled(dirs[r][n]).id = 0 => Dismantled(dirs[r][n]) = NoDir
      BY <2>1, <3>1, DismantledForms, Constants DEF Dir, Exists
    <3> QED
      BY <2>1, <3>2, RemadeStaysSound
  <2> QED
    BY <1>4, <2>1, SweepForms, UnchangedStaysSound
<1>5. CASE Prepare \/ PrepareConfig \/ PrepareFails
  <2>1. \A r \in Roots : FreshIds[r] \in Ids
    BY NewIdentities
  <2> QED
    BY <1>5, <2>1, StagesAreMade, RemadeStaysSound, UnchangedStaysSound, Constants
<1>6. CASE Fill
  <2>1. DirsTyped'
    BY <1>6, FillForms DEF DirsTyped, OtherTypes
  <2>2. \A r \in Roots, n \in Names : dirs'[r][n].id = dirs[r][n].id
    BY <1>6, FillForms DEF DirsTyped, Dir, OtherTypes
  <2>3. Distinct'
    BY <2>1, <2>2, StaysDistinct
  <2>4. \A r \in Roots, n \in Names : dirs'[r][n].id = 0 => dirs'[r][n] = dirs[r][n]
    <3>1. phase \in {"fill", "seal"} => \A r \in Roots : dirs[r]["staged"].id # 0
      BY DEF Staging, Exists
    <3>2. phase \in {"fill", "seal"}
      BY <1>6 DEF Fill
    <3> QED
      BY <1>6, <2>2, <3>1, <3>2, FillForms DEF OtherTypes
  <2>5. Identified'
    BY <2>2, <2>4 DEF Identified
  <2> QED
    BY <2>1, <2>3, <2>5
<1>7. CASE Swap
  BY <1>7, SwapForms, MoveStaysSound, UnchangedStaysSound
<1>8. CASE \E a \in Assets : AddAsset(a)
  <2>1. PICK a \in Assets : AddAsset(a)
    BY <1>8
  <2> DEFINE d == [dirs["media"]["live"] EXCEPT !.files = @ \cup {a}]
  <2>2. Exists("media", "live") /\ dirs["media"]["live"] \in Dir
    BY <2>1 DEF AddAsset, DirsTyped
  <2>3. d \in Dir /\ d.id = dirs["media"]["live"].id /\ d.id # 0
    BY <2>2 DEF Dir, Exists
  <2>4. Remade("media", "live", d)
    BY <2>1, AssetForms
  <2> HIDE DEF d
  <2> QED
    BY <2>3, <2>4, RemadeStaysSound
<1>9. CASE AddAssetRefused
  <2> DEFINE d == [EmptyDir(FreshIds["media"]) EXCEPT !.ver = Partial]
  <2>1. FreshIds["media"] \in Ids
    BY NewIdentities
  <2>2. d \in Dir /\ d.id = FreshIds["media"] /\ d.id # 0
    BY <2>1 DEF EmptyDir, Dir, Ids
  <2>3. Remade("media", "live", d)
    BY <1>9, AssetForms
  <2> HIDE DEF d
  <2> QED
    BY <2>2, <2>3, RemadeStaysSound
<1> QED
  BY <1>1, <1>2, <1>3, <1>4, <1>5, <1>6, <1>7, <1>8, <1>9, StepCases

-----------------------------------------------------------------------------
(* Types, numbers and the authority.                                       *)

\* Where a reconciliation that ends goes on.
LEMMA FinishForms ==
  ASSUME OtherTypes, NEW ok \in BOOLEAN, Finish(ok)
  PROVE  /\ aim' = aim /\ ensured' \in BOOLEAN
         /\ phase' \in {"idle", "journal", "export", "boot"}
         /\ phase' = "journal" => ok /\ aim = "begin"
         /\ phase' = "export" => ok
<1>1. aim \in {"boot", "begin", "abort", "done", "export"}
  BY DEF OtherTypes
<1>2. /\ Continues[aim] \in {"idle", "journal", "export"}
      /\ Continues[aim] = "journal" => aim = "begin"
  BY <1>1 DEF Continues
<1> QED
  BY <1>2 DEF Finish, GivesUp, OtherTypes

\* The identities that are journaled and pinned have their type.
LEMMA IdsTyped ==
  ASSUME DirsTyped
  PROVE  /\ LiveIds \in [Roots -> Ids \cup {0}] /\ StagedIds \in [Roots -> Ids \cup {0}]
         /\ NoId \in [Roots -> Ids \cup {0}]
BY DEF DirsTyped, LiveIds, StagedIds, NoId, Dir, Names

\* The counters stay within their bounds.
LEMMA BoundsKept ==
  ASSUME OtherTypes, [Next]_vars
  PROVE  /\ attempts' \in 0 .. MaxRestores
         /\ crashes' \in 0 .. MaxCrashes /\ faults' \in 0 .. MaxFaults
<1> USE BoundsAreNaturals DEF OtherTypes
<1>1. CASE UNCHANGED vars
  BY <1>1 DEF vars, memory, bounds
<1>2. CASE Recovery
  BY <1>2 DEF Recovery, Reconcile, Decide, Refresh, Cleanup, Rollback, Undo, Sweep,
              Unjournal, Unmark, memory, bounds
<1>3. CASE Restoring
  BY <1>3 DEF Restoring, WriteJournal, Prepare, PrepareConfig, Attest, Fill, Promote, Swap, Commit,
              Export, memory, bounds
<1>4. CASE Failing
  <2>1. CASE Crash \/ ServerCrash
    BY <2>1 DEF Crash, ServerCrash
  <2>2. CASE ReconcileFails
    BY <2>2 DEF ReconcileFails, Fault
  <2>3. CASE WriteJournalFails \/ PrepareFails \/ StepFails \/ SwapFails \/ CommitFails
    BY <2>3 DEF WriteJournalFails, PrepareFails, StepFails, SwapFails, CommitFails, Fault, memory
  <2> QED
    BY <1>4, <2>1, <2>2, <2>3 DEF Failing
<1>5. CASE Start \/ StartRestore \/ StartExport \/ (\E a \in Assets : AddAsset(a)) \/ AddAssetRefused
  BY <1>5 DEF Start, StartRestore, StartExport, AddAsset, AddAssetRefused, memory, bounds
<1> QED
  BY <1>1, <1>2, <1>3, <1>4, <1>5 DEF Next

\* The startup gate is open or closed.
LEMMA EnsuredKept ==
  ASSUME OtherTypes, [Next]_vars
  PROVE  ensured' \in BOOLEAN
<1>0. ensured \in BOOLEAN
  BY DEF OtherTypes
<1>1. CASE UNCHANGED vars
  BY <1>0, <1>1 DEF vars, memory
<1>2. CASE Recovery
  BY <1>0, <1>2, FinishForms DEF Recovery, Reconcile, Decide, Refresh, Cleanup, Rollback, Undo, Sweep,
                                 Unjournal, Unmark, memory
<1>3. CASE Restoring
  BY <1>0, <1>3 DEF Restoring, WriteJournal, Prepare, PrepareConfig, Attest, Fill, Promote, Swap,
                    Commit, Export, memory
<1>4. CASE Failing
  BY <1>0, <1>4, FinishForms DEF Failing, Crash, ServerCrash, ReconcileFails, WriteJournalFails,
                                 PrepareFails, StepFails, SwapFails, CommitFails, memory
<1>5. CASE Start \/ StartRestore \/ StartExport \/ (\E a \in Assets : AddAsset(a)) \/ AddAssetRefused
  BY <1>0, <1>5 DEF Start, StartRestore, StartExport, AddAsset, AddAssetRefused, memory
<1> QED
  BY <1>1, <1>2, <1>3, <1>4, <1>5 DEF Next

\* The server is in one of its phases.
LEMMA PhaseKept ==
  ASSUME OtherTypes, [Next]_vars
  PROVE  phase' \in Phases /\ aim' \in {"boot", "begin", "abort", "done", "export"}
<1> USE DEF OtherTypes, Goto
<1>1. CASE UNCHANGED vars
  BY <1>1 DEF vars
<1>2. CASE Recovery
  BY <1>2, FinishForms DEF Recovery, Reconcile, Decide, Refresh, Cleanup, Rollback, Undo, Sweep,
                           Unjournal, Unmark, Phases
<1>3. CASE Restoring
  BY <1>3 DEF Restoring, WriteJournal, Prepare, PrepareConfig, Attest, Fill, Promote, Swap, Commit,
              Export, Abort, Phases
<1>4. CASE Failing
  BY <1>4, FinishForms DEF Failing, Crash, ServerCrash, ReconcileFails, WriteJournalFails,
       PrepareFails, StepFails, SwapFails, CommitFails, Abort, Phases
<1>5. CASE Start \/ StartRestore \/ StartExport \/ (\E a \in Assets : AddAsset(a)) \/ AddAssetRefused
  BY <1>5 DEF Start, StartRestore, StartExport, AddAsset, AddAssetRefused, Phases
<1> QED
  BY <1>1, <1>2, <1>3, <1>4, <1>5 DEF Next

\* The pins are identities.
LEMMA PinsKept ==
  ASSUME OtherTypes, DirsTyped, DirsTyped', [Next]_vars
  PROVE  pinned' \in [Roots -> Ids \cup {0}]
<1> USE IdsTyped DEF OtherTypes
<1>1. CASE UNCHANGED vars
  BY <1>1 DEF vars, memory
<1>2. CASE Recovery
  BY <1>2 DEF Recovery, Reconcile, Decide, Refresh, Cleanup, Rollback, Undo, Sweep,
              Unjournal, Unmark, memory
<1>3. CASE Restoring
  BY <1>3 DEF Restoring, WriteJournal, Prepare, PrepareConfig, Attest, Fill, Promote, Swap, Commit,
              Export, memory
<1>4. CASE Failing
  BY <1>4 DEF Failing, Crash, ServerCrash, ReconcileFails, WriteJournalFails,
       PrepareFails, StepFails, SwapFails, CommitFails, memory
<1>5. CASE Start
  <2>1. pinned' = [r \in Roots |-> dirs'[r]["live"].id]
    BY <1>5 DEF Start
  <2> QED
    BY <2>1 DEF DirsTyped, Dir, Names
<1>6. CASE StartRestore \/ StartExport \/ (\E a \in Assets : AddAsset(a)) \/ AddAssetRefused
  BY <1>6 DEF StartRestore, StartExport, AddAsset, AddAssetRefused, memory
<1> QED
  BY <1>1, <1>2, <1>3, <1>4, <1>5, <1>6 DEF Next

\* The plan of a restore and its attested form are journals.
LEMMA PlansTyped ==
  ASSUME DirsTyped, OtherTypes
  PROVE  /\ Plan \in JournalType /\ Plan.token = attempts /\ Plan.orig = LiveIds
         /\ \A r \in Roots : Plan.staged[r] = 0
         /\ [journal EXCEPT !.staged = StagedIds] \in JournalType
<1>1. [journal EXCEPT !.staged = StagedIds] \in JournalType
  <2>1. journal \in JournalType /\ StagedIds \in [Roots -> Ids \cup {0}]
    BY IdsTyped DEF OtherTypes
  <2> QED
    BY <2>1 DEF JournalType
<1> QED
  BY <1>1, IdsTyped DEF Plan, OtherTypes, JournalType, NoId

\* The journal stays a journal.
LEMMA JournalKept ==
  ASSUME DirsTyped, OtherTypes, [Next]_vars
  PROVE  journal' \in JournalType
<1> USE PlansTyped, Constants
<1>0. journal \in JournalType
  BY DEF OtherTypes
<1>1. CASE UNCHANGED vars
  BY <1>0, <1>1 DEF vars, durable
<1>2. CASE Recovery
  BY <1>0, <1>2 DEF Recovery, Reconcile, Decide, Refresh, Cleanup, Rollback, Undo, Sweep,
                    Unjournal, Unmark, durable
<1>3. CASE Restoring
  <2>1. CASE WriteJournal \/ Attest
    BY <1>0, <2>1 DEF WriteJournal, Attest
  <2>2. CASE Prepare \/ PrepareConfig \/ Fill \/ Promote \/ Swap \/ Commit \/ Export
    BY <1>0, <2>2 DEF Prepare, PrepareConfig, Fill, Promote, Swap, Commit, Export, durable
  <2> QED
    BY <1>3, <2>1, <2>2 DEF Restoring
<1>4. CASE Failing
  <2>1. CASE WriteJournalFails \/ StepFails
    BY <1>0, <2>1 DEF WriteJournalFails, StepFails
  <2>2. CASE Crash \/ ServerCrash \/ ReconcileFails \/ PrepareFails \/ SwapFails \/ CommitFails
    BY <1>0, <2>2 DEF Crash, ServerCrash, ReconcileFails, PrepareFails, SwapFails, CommitFails, durable
  <2> QED
    BY <1>4, <2>1, <2>2 DEF Failing
<1>5. CASE Start \/ StartRestore \/ StartExport \/ (\E a \in Assets : AddAsset(a)) \/ AddAssetRefused
  BY <1>0, <1>5 DEF Start, StartRestore, StartExport, AddAsset, AddAssetRefused, durable
<1> QED
  BY <1>1, <1>2, <1>3, <1>4, <1>5 DEF Next

\* So does the authority.
LEMMA AuthorityKept ==
  ASSUME DirsTyped, DirsTyped', OtherTypes, [Next]_vars
  PROVE  authority' \in JournalType
<1> USE Constants
<1>0. journal \in JournalType /\ authority \in JournalType
  BY DEF OtherTypes
<1>1. CASE UNCHANGED vars
  BY <1>0, <1>1 DEF vars, memory
<1>2. CASE Recovery
  BY <1>0, <1>2 DEF Recovery, Reconcile, Decide, Refresh, Cleanup, Rollback, Undo, Sweep,
                    Unjournal, Unmark, memory, Released
<1>3. CASE PrepareConfig
  <2> DEFINE ids == [r \in Roots |-> dirs'[r]["staged"].id]
  <2>1. ids \in [Roots -> Ids \cup {0}]
    BY DEF DirsTyped, Dir, Names
  <2>2. authority' = [journal EXCEPT !.staged = ids]
    BY <1>3 DEF PrepareConfig
  <2> HIDE DEF ids
  <2> QED
    BY <1>0, <2>1, <2>2 DEF JournalType
<1>4. CASE WriteJournal \/ Prepare \/ Attest \/ Fill \/ Promote \/ Swap \/ Commit \/ Export
  BY <1>0, <1>4 DEF WriteJournal, Prepare, Attest, Fill, Promote, Swap, Commit, Export, memory
<1>5. CASE Failing
  BY <1>0, <1>5 DEF Failing, Crash, ServerCrash, ReconcileFails, WriteJournalFails,
                    PrepareFails, StepFails, SwapFails, CommitFails, memory
<1>6. CASE Start \/ StartRestore \/ StartExport \/ (\E a \in Assets : AddAsset(a)) \/ AddAssetRefused
  BY <1>0, <1>6 DEF Start, StartRestore, StartExport, AddAsset, AddAssetRefused, memory
<1> QED
  BY <1>1, <1>2, <1>3, <1>4, <1>5, <1>6 DEF Next, Restoring

\* The rows belong to the newest restore once it commits; only requests add to them.
LEMMA RowsForms ==
  ASSUME OtherTypes, [Next]_vars
  PROVE  /\ db' \in [ver : 0 .. MaxRestores, rows : SUBSET Assets] /\ marker' \in 0 .. MaxRestores
         /\ \/ UNCHANGED <<db, marker>>
            \/ (Unmark \/ (ReconcileFails /\ phase = "unmark")) /\ marker' = 0 /\ db' = db
            \/ (Commit \/ CommitFails) /\ db'.ver = attempts /\ db'.rows = {} /\ marker' = attempts
            \/ (\E a \in Assets : AddAsset(a)) /\ db'.ver = db.ver /\ marker' = marker
<1>0. /\ db \in [ver : 0 .. MaxRestores, rows : SUBSET Assets]
      /\ marker \in 0 .. MaxRestores /\ attempts \in 0 .. MaxRestores /\ 0 \in 0 .. MaxRestores
  BY BoundsAreNaturals DEF OtherTypes
<1>1. CASE UNCHANGED vars
  BY <1>0, <1>1 DEF vars, durable
<1>2. CASE Unmark \/ ReconcileFails
  BY <1>0, <1>2 DEF Unmark, ReconcileFails
<1>3. CASE Commit \/ CommitFails
  <2>1. UNCHANGED <<db, marker>> \/ CommitRows
    BY <1>3 DEF Commit, CommitFails
  <2>2. CASE CommitRows
    BY <1>0, <1>3, <2>2 DEF CommitRows
  <2> QED
    BY <1>0, <2>1, <2>2
<1>4. ASSUME NEW a \in Assets, AddAsset(a)
      PROVE  /\ db' \in [ver : 0 .. MaxRestores, rows : SUBSET Assets]
             /\ db'.ver = db.ver /\ marker' = marker
  BY <1>0, <1>4 DEF AddAsset
<1>5. CASE \E a \in Assets : AddAsset(a)
  BY <1>0, <1>4, <1>5
<1>6. CASE \/ Reconcile \/ Decide \/ Refresh \/ Cleanup \/ Rollback \/ Undo \/ Sweep \/ Unjournal
           \/ WriteJournal \/ Prepare \/ PrepareConfig \/ Attest \/ Fill \/ Promote \/ Swap \/ Export
  BY <1>0, <1>6 DEF Reconcile, Decide, Refresh, Cleanup, Rollback, Undo, Sweep, Unjournal, WriteJournal,
                    Prepare, PrepareConfig, Attest, Fill, Promote, Swap, Export, durable
<1>7. CASE Crash \/ ServerCrash \/ WriteJournalFails \/ PrepareFails \/ StepFails \/ SwapFails
  BY <1>0, <1>7 DEF Crash, ServerCrash, WriteJournalFails, PrepareFails, StepFails, SwapFails, durable
<1>8. CASE Start \/ StartRestore \/ StartExport \/ AddAssetRefused
  BY <1>0, <1>8 DEF Start, StartRestore, StartExport, AddAssetRefused, durable
<1> QED
  BY <1>1, <1>2, <1>3, <1>5, <1>6, <1>7, <1>8 DEF Next, Recovery, Restoring, Failing

\* Every step keeps the types.
LEMMA OtherTypesKept ==
  ASSUME DirsTyped, DirsTyped', OtherTypes, [Next]_vars
  PROVE  OtherTypes'
<1>1. ensured' \in BOOLEAN
  BY EnsuredKept
<1> QED
  BY <1>1, BoundsKept, PhaseKept, PinsKept, JournalKept, AuthorityKept, RowsForms, Zenon DEF OtherTypes

-----------------------------------------------------------------------------
(* What each step does to the journal, the rows and the marker.            *)

Journals ==
  /\ phase = "journal" /\ journal' = Plan /\ \A r \in Roots : Exists(r, "live")
  /\ UNCHANGED <<dirs, db, marker, authority, pinned>> /\ phase' \in {"prepare", "idle"}
Attests ==
  /\ phase = "attest" /\ journal' = [journal EXCEPT !.staged = StagedIds]
  /\ UNCHANGED <<dirs, db, marker, authority, pinned>> /\ phase' \in {"fill", "reconcile"}
Unjournals ==
  /\ phase = "unjournal" /\ journal' = NoJournal
  /\ UNCHANGED <<dirs, db, marker, authority, pinned>> /\ phase' = "unmark"
Unmarks == phase = "unmark" /\ marker' = 0 /\ UNCHANGED <<dirs, journal, db, authority, pinned>>
Commits ==
  /\ phase = "commit" /\ db'.ver = attempts /\ db'.rows = {} /\ marker' = attempts
  /\ UNCHANGED <<dirs, journal, authority, pinned>>
  /\ aim' \in {"done", "abort"} /\ phase' \in {"cleanup", "reconcile"}
Adds ==
  /\ phase = "idle" /\ UNCHANGED <<journal, marker, authority, pinned, phase, aim, attempts>>
  /\ \E a \in Assets : AddAsset(a)
  /\ db'.ver = db.ver

\* Journal, rows and marker change in six ways, and never two of them at once.
LEMMA DurableForms ==
  ASSUME OtherTypes, [Next]_vars
  PROVE  \/ UNCHANGED <<journal, db, marker>>
         \/ Journals \/ Attests \/ Unjournals \/ Unmarks \/ Commits \/ Adds
<1>1. CASE UNCHANGED vars
  BY <1>1 DEF vars, durable
<1>2. CASE WriteJournal \/ WriteJournalFails
  BY <1>2 DEF WriteJournal, WriteJournalFails, Goto, Journals, memory
<1>3. CASE Attest \/ StepFails
  BY <1>3 DEF Attest, StepFails, Goto, Abort, Attests, memory
<1>4. CASE Unjournal
  BY <1>4 DEF Unjournal, Goto, Unjournals, memory
<1>5. CASE Unmark \/ ReconcileFails
  BY <1>5 DEF Unmark, ReconcileFails, Unmarks
<1>6. CASE Commit \/ CommitFails
  <2>1. UNCHANGED <<db, marker>> \/ CommitRows
    BY <1>6 DEF Commit, CommitFails
  <2>2. CommitRows => db'.ver = attempts /\ db'.rows = {} /\ marker' = attempts
    BY DEF CommitRows
  <2> QED
    BY <1>6, <2>1, <2>2 DEF Commit, CommitFails, Goto, Abort, Commits, memory
<1>7. CASE \E a \in Assets : AddAsset(a)
  <2>1. db'.ver = db.ver
    BY <1>7 DEF AddAsset, OtherTypes
  <2> QED
    BY <1>7, <2>1 DEF AddAsset, Adds, Usable, memory, bounds
<1>8. CASE \/ Reconcile \/ Decide \/ Refresh \/ Cleanup \/ Rollback \/ Undo \/ Sweep
           \/ Prepare \/ PrepareConfig \/ Fill \/ Promote \/ Swap \/ Export
  BY <1>8 DEF Reconcile, Decide, Refresh, Cleanup, Rollback, Undo, Sweep,
              Prepare, PrepareConfig, Fill, Promote, Swap, Export, durable
<1>9. CASE \/ Crash \/ ServerCrash \/ PrepareFails \/ SwapFails
           \/ Start \/ StartRestore \/ StartExport \/ AddAssetRefused
  BY <1>9 DEF Crash, ServerCrash, PrepareFails, SwapFails,
              Start, StartRestore, StartExport, AddAssetRefused, durable
<1> QED
  BY <1>1, <1>2, <1>3, <1>4, <1>5, <1>6, <1>7, <1>8, <1>9 DEF Next, Recovery, Restoring, Failing

\* Only a request for a restore begins one.
LEMMA AttemptForms ==
  ASSUME OtherTypes, [Next]_vars
  PROVE  \/ attempts' = attempts /\ (aim' = "begin" => aim = "begin")
         \/ phase = "idle" /\ attempts' = attempts + 1 /\ UNCHANGED <<dirs, journal, db, marker>>
<1>1. CASE UNCHANGED vars
  BY <1>1 DEF vars, bounds
<1>2. CASE Recovery
  BY <1>2, FinishForms DEF Recovery, Reconcile, Decide, Refresh, Cleanup, Rollback, Undo, Sweep,
                           Unjournal, Unmark, bounds, Goto
<1>3. CASE Restoring
  BY <1>3 DEF Restoring, WriteJournal, Prepare, PrepareConfig, Attest, Fill, Promote, Swap, Commit,
              Export, bounds, Goto, Abort
<1>4. CASE Failing
  BY <1>4, FinishForms DEF Failing, Crash, ServerCrash, ReconcileFails, WriteJournalFails,
                           PrepareFails, StepFails, SwapFails, CommitFails, Goto, Abort
<1>5. CASE Start \/ StartRestore \/ StartExport \/ (\E a \in Assets : AddAsset(a)) \/ AddAssetRefused
  BY <1>5 DEF Start, StartRestore, StartExport, AddAsset, AddAssetRefused, bounds, Goto, durable
<1> QED
  BY <1>1, <1>2, <1>3, <1>4, <1>5 DEF Next

\* The numbering is kept: rows, journal, marker and attempts never overtake each other.
LEMMA NumberedKept == IInv /\ [Next]_vars => Numbered'
<1> SUFFICES ASSUME IInv, [Next]_vars
             PROVE  Numbered'
  OBVIOUS
<1>1. DirsTyped /\ Distinct /\ OtherTypes /\ Numbered /\ Staging /\ Recovering /\ Journaled
  BY TypeParts DEF IInv
<1>2. /\ attempts \in Nat /\ marker \in Nat /\ db.ver \in Nat /\ journal.token \in Nat
  BY <1>1, BoundsAreNaturals DEF OtherTypes, JournalType
<1>3. CASE UNCHANGED <<journal, db, marker>> \/ Unmarks \/ Adds
  <2>0. Unmarks => journal.token = 0
    BY <1>1 DEF Unmarks, Recovering
  <2>1. /\ journal' = journal /\ db'.ver = db.ver
        /\ marker' = marker \/ (marker' = 0 /\ journal.token = 0)
    BY <1>3, <2>0 DEF Unmarks, Adds
  <2>2. attempts' = attempts + 1 \/ (attempts' = attempts /\ (aim' = "begin" => aim = "begin"))
    BY <1>1, AttemptForms
  <2> QED
    BY <1>1, <1>2, <2>1, <2>2 DEF Numbered, Attested
<1>4. CASE Journals
  <2>1. marker = 0 /\ aim = "begin" /\ db.ver < attempts
    BY <1>1, <1>4 DEF Journals, Recovering, Numbered
  <2>2. /\ journal'.token = attempts /\ journal'.orig = LiveIds
        /\ \A r \in Roots : LiveIds[r] # 0 /\ journal'.staged[r] = 0
    BY <1>1, <1>4, PlansTyped DEF Journals, LiveIds, Exists
  <2>3. attempts' = attempts
    BY <1>1, <1>2, <1>4, AttemptForms DEF Journals
  <2>4. ~ Attested'
    BY <1>4, <2>2 DEF Attested, Journals, Plan
  <2> QED
    BY <1>2, <1>4, <2>1, <2>2, <2>3, <2>4 DEF Numbered, Journals
<1>5. CASE Attests
  <2>1. \A r \in Roots : StagedIds[r] # 0
    BY <1>1, <1>5 DEF Attests, Staging, StagedIds, Exists
  <2>2. journal'.token = journal.token /\ journal'.orig = journal.orig /\ journal'.staged = StagedIds
    BY <1>1, <1>5 DEF Attests, OtherTypes, JournalType
  <2>3. attempts' = attempts /\ (aim' = "begin" => aim = "begin")
    BY <1>1, <1>2, <1>5, AttemptForms DEF Attests
  <2>4. journal.token # 0
    BY <1>1, <1>5 DEF Attests, Journaled, Making
  <2> QED
    BY <1>1, <1>2, <1>5, <2>1, <2>2, <2>3, <2>4 DEF Numbered, Attests
<1>6. CASE Unjournals
  <2>1. attempts' = attempts /\ (aim' = "begin" => aim = "begin")
    BY <1>1, <1>2, <1>6, AttemptForms DEF Unjournals
  <2> QED
    BY <1>1, <1>2, <1>6, <2>1, Constants DEF Numbered, Unjournals
<1>7. CASE Commits
  <2>1. journal.token = attempts /\ journal.token # 0
    BY <1>1, <1>7 DEF Commits, Journaled
  <2>2. attempts' = attempts
    BY <1>1, <1>2, <1>7, AttemptForms DEF Commits
  <2> QED
    BY <1>1, <1>2, <1>7, <2>1, <2>2 DEF Numbered, Commits, Attested
<1> QED
  BY <1>1, <1>3, <1>4, <1>5, <1>6, <1>7, DurableForms

Sweeps ==
  /\ phase = "sweep" /\ (\A r \in Roots : Clear(r)) /\ phase' = "unjournal" /\ authority' = Released
  /\ pinned' = IF Committed THEN pinned ELSE LiveIds
  /\ UNCHANGED <<dirs, journal, db, marker>>

\* A sweep goes on, or ends with everything gone.
LEMMA SweepEnds == Sweep => Sweeps \/ (phase' = "sweep" /\ UNCHANGED <<authority, pinned>>)
<1> SUFFICES ASSUME Sweep
             PROVE  Sweeps \/ (phase' = "sweep" /\ UNCHANGED <<authority, pinned>>)
  OBVIOUS
<1>1. CASE \E r \in Roots, n \in Names \ {"live"} : Exists(r, n)
  BY <1>1 DEF Sweep, Goto
<1>2. CASE ~ \E r \in Roots, n \in Names \ {"live"} : Exists(r, n)
  BY <1>2 DEF Sweep, Goto, Sweeps, Clear, Names
<1> QED
  BY <1>1, <1>2

\* The authority is forgotten, taken or given back, and kept by every other step.
LEMMA AuthorityForms ==
  ASSUME OtherTypes, DirsTyped, [Next]_vars
  PROVE  \/ authority' = authority /\ (phase' = "down" => phase = "down")
         \/ authority' = NoJournal /\ phase' = "down" /\ UNCHANGED <<dirs, journal, db, marker>>
         \/ PrepareConfig
         \/ Sweeps
<1>1. CASE UNCHANGED vars
  BY <1>1 DEF vars, memory
<1>2. CASE Sweep
  BY <1>2, SweepEnds DEF Sweep
<1>3. CASE Recovery /\ ~ Sweep
  BY <1>3, FinishForms DEF Recovery, Reconcile, Decide, Refresh, Cleanup, Rollback, Undo,
                           Unjournal, Unmark, memory, Goto
<1>4. CASE Restoring /\ ~ PrepareConfig
  BY <1>4 DEF Restoring, WriteJournal, Prepare, Attest, Fill, Promote, Swap, Commit,
              Export, memory, Goto, Abort
<1>5. CASE Crash
  BY <1>5 DEF Crash, Goto, durable
<1>6. CASE Failing /\ ~ Crash
  BY <1>6, FinishForms DEF Failing, ServerCrash, ReconcileFails, WriteJournalFails,
                           PrepareFails, StepFails, SwapFails, CommitFails, memory, Goto, Abort
<1>7. CASE Start \/ StartRestore \/ StartExport \/ (\E a \in Assets : AddAsset(a)) \/ AddAssetRefused
  BY <1>7 DEF Start, StartRestore, StartExport, AddAsset, AddAssetRefused, memory, Goto
<1> QED
  BY <1>1, <1>2, <1>3, <1>4, <1>5, <1>6, <1>7 DEF Next

\* The authority stays with the restore in the journal.
LEMMA AuthorizedKept == IInv /\ [Next]_vars => Authorized'
<1> SUFFICES ASSUME IInv, [Next]_vars
             PROVE  Authorized'
  OBVIOUS
<1>1. DirsTyped /\ OtherTypes /\ Numbered /\ Authorized /\ Staging /\ Recovering /\ Journaled
  BY TypeParts DEF IInv
<1>2. CASE authority' = NoJournal
  BY <1>2, Constants DEF Authorized
<1>3. CASE PrepareConfig
  <2>1. /\ journal' = journal /\ phase' = "attest" /\ ~ Attested
    BY <1>1, <1>3 DEF PrepareConfig, Goto, Staging
  <2>2. PICK s : authority' = [journal EXCEPT !.staged = s]
    BY <1>3 DEF PrepareConfig
  <2>3. authority'.token = journal.token /\ authority'.orig = journal.orig
    BY <1>1, <2>2 DEF OtherTypes, JournalType
  <2> QED
    BY <2>1, <2>3 DEF Authorized, Attested
<1>4. CASE authority.token = 0 /\ authority' = authority /\ (phase' = "down" => phase = "down")
  BY <1>1, <1>4 DEF Authorized
<1>5. CASE authority.token # 0 /\ authority' = authority /\ (phase' = "down" => phase = "down")
  <2>1. phase' # "down" /\ authority.token = journal.token /\ authority.orig = journal.orig
    BY <1>1, <1>5 DEF Authorized
  <2>2. CASE journal' = journal
    BY <1>1, <1>5, <2>1, <2>2 DEF Authorized, Attested
  <2>3. CASE Attests
    <3>1. authority.staged = StagedIds
      BY <1>1, <2>3 DEF Attests, Staging
    <3>2. journal'.token = journal.token /\ journal'.orig = journal.orig /\ journal'.staged = StagedIds
      BY <1>1, <2>3 DEF Attests, OtherTypes, JournalType
    <3> QED
      BY <1>5, <2>1, <3>1, <3>2 DEF Authorized
  <2>4. CASE Journals
    BY <1>1, <1>5, <2>1, <2>4 DEF Journals, Recovering
  <2>5. CASE Unjournals
    BY <1>1, <1>5, <2>5 DEF Unjournals, Recovering
  <2> QED
    BY <1>1, <2>2, <2>3, <2>4, <2>5, DurableForms DEF Unmarks, Commits, Adds
<1>6. CASE Sweeps
  <2>1. authority'.token = 0
    BY <1>1, <1>6, Constants DEF Sweeps, Released, Authorized
  <2>2. phase' # "down"
    BY <1>6 DEF Sweeps
  <2> QED
    BY <2>1, <2>2 DEF Authorized
<1> QED
  BY <1>1, <1>2, <1>3, <1>4, <1>5, <1>6, AuthorityForms

-----------------------------------------------------------------------------
(* What each step does to the pins and to the live roots.                  *)

\* The pins follow the live roots, or stay.
LEMMA PinForms ==
  ASSUME OtherTypes, DirsTyped, [Next]_vars
  PROVE  \/ pinned' = pinned
         \/ Crash
         \/ Start /\ pinned' = LiveIds'
         \/ pinned' = LiveIds /\ dirs' = dirs
<1>0. Start => pinned' = LiveIds'
  BY DEF Start, LiveIds
<1>1. CASE UNCHANGED vars
  BY <1>1 DEF vars, memory
<1>2. CASE Recovery
  BY <1>2 DEF Recovery, Reconcile, Decide, Refresh, Cleanup, Rollback, Undo, Sweep,
              Unjournal, Unmark, memory, durable
<1>3. CASE Restoring
  BY <1>3 DEF Restoring, WriteJournal, Prepare, PrepareConfig, Attest, Fill, Promote, Swap, Commit,
              Export, memory
<1>4. CASE Failing
  BY <1>4 DEF Failing, ServerCrash, ReconcileFails, WriteJournalFails,
              PrepareFails, StepFails, SwapFails, CommitFails, memory, durable
<1>5. CASE StartRestore \/ StartExport \/ (\E a \in Assets : AddAsset(a)) \/ AddAssetRefused
  BY <1>5 DEF StartRestore, StartExport, AddAsset, AddAssetRefused, memory
<1> QED
  BY <1>0, <1>1, <1>2, <1>3, <1>4, <1>5 DEF Next

\* The live identities are those of the live directories.
LEMMA LiveIdsKept ==
  ASSUME \A r \in Roots : dirs'[r]["live"].id = dirs[r]["live"].id
  PROVE  LiveIds' = LiveIds
BY DEF LiveIds

\* A closed application does nothing but start.
LEMMA QuietPhases == Quiet => phase # "down"
BY DEF Quiet, Reconcile, Decide, Refresh, Cleanup, Rollback, Unjournal, Unmark, WriteJournal, Attest,
       Promote, Commit, Export, Crash, ReconcileFails, WriteJournalFails, StepFails, SwapFails,
       CommitFails, StartRestore, StartExport, Usable

\* Without a journal there is nothing that a step other than a request changes.
LEMMA SettledSteps ==
  ASSUME IInv, [Next]_vars, journal.token = 0
  PROVE  \/ dirs' = dirs \/ Adds
         \/ /\ Start \/ ServerCrash
            /\ \A r \in Roots, n \in Names : dirs'[r][n] = dirs[r][n]
<1>1. DirsTyped /\ OtherTypes /\ Settled /\ Journaled /\ Recovering
  BY TypeParts DEF IInv
<1>2. \A r \in Roots : Exists(r, "live")
  BY <1>1 DEF Settled
<1>3. phase \notin {"undo", "sweep"} \cup Making \cup {"swap", "commit"}
  BY <1>1 DEF Journaled, Recovering, Uncommitted
<1>4. ~ (Undo \/ Sweep \/ Prepare \/ PrepareConfig \/ PrepareFails \/ Fill \/ Swap \/ AddAssetRefused)
  BY <1>2, <1>3 DEF Undo, Sweep, Prepare, PrepareConfig, PrepareFails, Fill, Swap, AddAssetRefused,
                    Making, Roots
<1>5. Start \/ ServerCrash => \A r \in Roots, n \in Names : dirs'[r][n] = dirs[r][n]
  BY <1>1, <1>2, PlaceholderForms DEF Start, ServerCrash
<1>6. CASE \E a \in Assets : AddAsset(a)
  <2>1. db'.ver = db.ver
    BY <1>1, <1>6 DEF AddAsset, OtherTypes
  <2> QED
    BY <1>6, <2>1 DEF AddAsset, Adds, Usable, memory, bounds
<1> QED
  BY <1>4, <1>5, <1>6, StepCases, QuietSteps DEF vars, durable

\* A request adds to the files of the live media root, and to nothing else.
LEMMA AddsForms ==
  ASSUME DirsTyped, Adds
  PROVE  \A r \in Roots, n \in Names :
           dirs'[r][n].id = dirs[r][n].id /\ dirs'[r][n].ver = dirs[r][n].ver
<1>1. PICK a \in Assets : AddAsset(a)
  BY DEF Adds
<1> DEFINE d == [dirs["media"]["live"] EXCEPT !.files = @ \cup {a}]
<1>2. Remade("media", "live", d)
  BY <1>1, AssetForms
<1>3. dirs["media"]["live"] \in Dir
  BY DEF DirsTyped, Roots, Names
<1>4. d.id = dirs["media"]["live"].id /\ d.ver = dirs["media"]["live"].ver
  BY <1>3 DEF Dir
<1> HIDE DEF d
<1> QED
  BY <1>2, <1>4 DEF Remade

\* A workspace without a journal stays whole.
LEMMA SettledKept == IInv /\ [Next]_vars => Settled'
<1> SUFFICES ASSUME IInv, [Next]_vars, journal'.token = 0
             PROVE  /\ \A r \in Roots : /\ Exists(r, "live")' /\ dirs'[r]["live"].ver = db'.ver
                                        /\ Clear(r)'
                    /\ phase' = "down" \/ pinned' = LiveIds'
  BY DEF Settled
<1>1. DirsTyped /\ OtherTypes /\ Numbered /\ Settled /\ Undecided /\ Decided /\ Journaled /\ Recovering
  BY TypeParts DEF IInv
<1>2. /\ attempts \in Nat /\ db.ver \in Nat /\ journal.token \in Nat
  BY <1>1, BoundsAreNaturals DEF OtherTypes, JournalType
<1>3. CASE journal.token = 0 /\ ~ Journals
  <2>1. \A r \in Roots : Exists(r, "live") /\ dirs[r]["live"].ver = db.ver /\ Clear(r)
    BY <1>1, <1>3 DEF Settled
  <2>2. \A r \in Roots, n \in Names : dirs'[r][n].id = dirs[r][n].id /\ dirs'[r][n].ver = dirs[r][n].ver
    BY <1>1, <1>3, SettledSteps, AddsForms
  <2>3. db'.ver = db.ver
    BY <1>1, <1>3, DurableForms, SettledSteps
       DEF Journals, Attests, Unjournals, Unmarks, Commits, Adds, Journaled, Making
  <2>4. LiveIds' = LiveIds
    BY <2>2, LiveIdsKept DEF Names
  <2>5. phase' = "down" \/ pinned' = LiveIds'
    <3>1. CASE Start
      BY <3>1 DEF Start, LiveIds
    <3>2. CASE Crash
      BY <3>2 DEF Crash, Goto
    <3>3. CASE pinned' = pinned /\ phase # "down"
      BY <1>1, <1>3, <2>4, <3>3 DEF Settled
    <3>4. CASE pinned' = LiveIds /\ dirs' = dirs
      BY <2>4, <3>4
    <3>5. CASE UNCHANGED vars
      BY <1>1, <1>3, <2>4, <3>5 DEF vars, memory, Settled
    <3>6. phase # "down" \/ Start \/ UNCHANGED vars
      <4>1. phase = "down" => ~ (Quiet \/ ServerCrash \/ Undo \/ Sweep \/ Prepare \/ PrepareConfig
                                 \/ PrepareFails \/ Fill \/ Swap \/ (\E a \in Assets : AddAsset(a))
                                 \/ AddAssetRefused)
        BY QuietPhases DEF ServerCrash, Undo, Sweep, Prepare, PrepareConfig, PrepareFails, Fill, Swap,
                           AddAsset, AddAssetRefused, Usable
      <4> QED
        BY <4>1, StepCases
    <3> QED
      BY <1>1, <3>1, <3>2, <3>3, <3>4, <3>5, <3>6, PinForms
  <2> QED
    BY <2>1, <2>2, <2>3, <2>5 DEF Exists, Clear, Names
<1>4. CASE Journals
  <2>1. attempts # 0
    BY <1>1, <1>2, <1>4 DEF Journals, Recovering, Numbered
  <2> QED
    BY <1>1, <1>4, <2>1, PlansTyped DEF Journals
<1>5. CASE journal.token # 0
  <2>1. Unjournals
    BY <1>1, <1>5, DurableForms DEF Journals, Attests, Unmarks, Commits, Adds, Recovering, OtherTypes,
                                    JournalType
  <2>2. (\A r \in Roots : Clear(r)) /\ pinned = LiveIds
    BY <1>1, <2>1 DEF Unjournals, Recovering
  <2>3. \A r \in Roots : Exists(r, "live") /\ dirs[r]["live"].ver = db.ver
    <3>1. CASE Uncommitted
      <4>1. \A r \in Roots : InPlace(r)
        BY <1>1, <2>1, <3>1 DEF Unjournals, Recovering
      <4> QED
        BY <1>1, <1>5, <4>1 DEF InPlace, Old, Numbered, Exists
    <3>2. CASE ~ Uncommitted
      <4>1. Attested /\ (\A r \in Roots : NewInPlace(r)) /\ db.ver = journal.token
        BY <1>1, <1>2, <1>5, <3>2 DEF Decided, Renewed, Uncommitted, Numbered
      <4> QED
        BY <1>1, <1>5, <4>1 DEF NewInPlace, Stage, Numbered, Exists
    <3> QED
      BY <3>1, <3>2
  <2>4. dirs' = dirs /\ db' = db /\ pinned' = pinned
    BY <2>1 DEF Unjournals
  <2> QED
    BY <2>2, <2>3, <2>4, LiveIdsKept DEF Exists, Clear
<1> QED
  BY <1>3, <1>4, <1>5

-----------------------------------------------------------------------------
(* What each step makes of one root.                                       *)

Sound(r) == InPlace(r) \/ SetAside(r)

\* A root whose directories keep their identities and trees stays what it was.
LEMMA SameRoot ==
  ASSUME NEW r \in Roots, journal' = journal, db'.ver = db.ver,
         \A n \in Names : dirs'[r][n].id = dirs[r][n].id /\ dirs'[r][n].ver = dirs[r][n].ver
  PROVE  /\ InPlace(r) => InPlace(r)'
         /\ Sound(r) => Sound(r)'
         /\ Renewed(r) => Renewed(r)'
<1> USE DEF Names, Exists, Old, Stage, Attested
<1>1. InPlace(r) => InPlace(r)'
  BY DEF InPlace
<1>2. (Missing(r) => Missing(r)') /\ (NewInPlace(r) => NewInPlace(r)') /\ (Substituted(r) => Substituted(r)')
  BY DEF Missing, NewInPlace, Substituted
<1>3. SetAside(r) => SetAside(r)'
  BY <1>2 DEF SetAside
<1>4. Renewed(r) => Renewed(r)'
  BY <1>2 DEF Renewed
<1> QED
  BY <1>1, <1>3, <1>4 DEF Sound

\* A start puts an empty directory where a tree has been set aside.
LEMMA PlaceholderRoot ==
  ASSUME DirsTyped, Identified, OtherTypes, Numbered, journal.token # 0, NEW r \in Roots,
         dirs' = WithPlaceholders, journal' = journal, db' = db
  PROVE  /\ InPlace(r) => InPlace(r)'
         /\ Sound(r) => Sound(r)'
         /\ Renewed(r) => Renewed(r)'
<1>1. CASE Exists(r, "live")
  BY <1>1, PlaceholderForms, SameRoot DEF Names
<1>2. CASE ~ Exists(r, "live")
  <2>1. /\ dirs'[r]["live"] = EmptyDir(FreshIds[r])
        /\ \A n \in Names \ {"live"} : dirs'[r][n] = dirs[r][n]
    BY <1>2, PlaceholderForms
  <2>2. dirs'[r]["live"].id # 0 /\ dirs'[r]["live"].ver = Empty
    BY <2>1, NewIdentities, Constants
  <2>3. ~ InPlace(r) /\ ~ Renewed(r)
    <3>1. dirs[r]["live"].ver = Empty /\ journal.token # Empty
      BY <1>2, Constants DEF Identified, Exists, Names, OtherTypes, JournalType, Empty
    <3> QED
      BY <1>2, <3>1 DEF InPlace, Renewed, NewInPlace, Old, Exists, Numbered
  <2>4. SetAside(r) => Missing(r)
    BY <1>2 DEF SetAside, NewInPlace, Substituted, Stage, Exists, Numbered
  <2>5. SetAside(r) => SetAside(r)'
    BY <2>1, <2>2, <2>4 DEF SetAside, Missing, Substituted, Stage, Exists, Names, Old, Attested
  <2> QED
    BY <2>3, <2>5 DEF Sound
<1> QED
  BY <1>1, <1>2

\* A rollback takes a root from its new tree, or from what was made in its place,
\* to nothing, and from nothing to its old tree.
LEMMA UndoRoot ==
  ASSUME IInv, Undo
  PROVE  /\ \A r \in Roots : Sound(r)'
         /\ ~ Recreated'
         /\ phase' = "sweep" => \A r \in Roots : InPlace(r)'
<1>1. /\ DirsTyped /\ Distinct /\ Identified /\ OtherTypes /\ Numbered /\ Uncommitted /\ ~ Recreated
      /\ journal' = journal /\ db' = db /\ journal.token # 0 /\ \A r \in Roots : Sound(r)
  BY TypeParts DEF IInv, Undo, Recovering, Undecided, Uncommitted, Sound
<1>2. CASE UNCHANGED dirs /\ phase' = "sweep" /\ \A r \in Roots : ~ Exists(r, "previous")
  <2>1. \A r \in Roots : InPlace(r)
    BY <1>1, <1>2 DEF Sound, SetAside, Old, Exists, Numbered
  <2> QED
    BY <1>1, <1>2, <2>1, SameRoot DEF Recreated, Sound
<1>3. ASSUME NEW r \in Roots, Exists(r, "previous"), phase' = "undo",
             \/ ~ Exists(r, "live") /\ dirs' = Move(r, "previous", "live")
             \/ Exists(r, "live") /\ Stage(r, "live") /\ dirs' = Move(r, "live", "staged")
             \/ /\ Exists(r, "live") /\ ~ Stage(r, "live") /\ Exists(r, "discarded")
                /\ Remade(r, "live", NoDir)
             \/ /\ Exists(r, "live") /\ ~ Stage(r, "live") /\ ~ Exists(r, "discarded")
                /\ dirs' = Move(r, "live", "discarded")
      PROVE  (\A q \in Roots : Sound(q)') /\ ~ Recreated'
  <2>1. SetAside(r) /\ db.ver \in Nat
    BY <1>1, <1>3 DEF Sound, InPlace, OtherTypes
  <2>2. /\ Attested /\ Old(r, "previous") /\ dirs[r]["discarded"].ver = Empty
        /\ journal.staged[r] # 0
    BY <1>1, <2>1 DEF SetAside, Numbered
  <2>3. CASE ~ Exists(r, "live") /\ dirs' = Move(r, "previous", "live")
    <3>1. /\ dirs'[r]["live"] = dirs[r]["previous"] /\ dirs'[r]["previous"] = NoDir
          /\ \A q \in Roots, n \in Names :
               q # r \/ n \notin {"live", "previous"} => dirs'[q][n] = dirs[q][n]
      BY <1>1, <2>3, Moved DEF Names
    <3>2. Stage(r, "staged")
      BY <1>1, <2>1, <2>2, <2>3 DEF SetAside, Missing, NewInPlace, Substituted, Stage, Exists
    <3>3. InPlace(r)'
      BY <1>1, <2>2, <3>1, <3>2, Constants DEF InPlace, Old, Stage, Exists, Names, Attested
    <3>4. ~ Recreated'
      BY <1>1, <2>1, <2>2, <3>1, Constants DEF Recreated, Old, Roots, Names
    <3> QED
      BY <1>1, <3>1, <3>3, <3>4, SameRoot DEF Sound
  <2>4. CASE Exists(r, "live") /\ Stage(r, "live") /\ dirs' = Move(r, "live", "staged")
    <3>1. /\ dirs'[r]["staged"] = dirs[r]["live"] /\ dirs'[r]["live"] = NoDir
          /\ \A q \in Roots, n \in Names :
               q # r \/ n \notin {"live", "staged"} => dirs'[q][n] = dirs[q][n]
      BY <1>1, <2>4, Moved DEF Names
    <3>2. SetAside(r)'
      BY <1>1, <2>2, <2>4, <3>1, Constants DEF SetAside, Missing, Old, Stage, Exists, Names, Attested
    <3>3. ~ Recreated'
      BY <1>1, <3>1, Constants DEF Recreated, Roots, Names
    <3> QED
      BY <1>1, <3>1, <3>2, <3>3, SameRoot DEF Sound
  <2>5. CASE Exists(r, "live") /\ ~ Stage(r, "live") /\ Remade(r, "live", NoDir)
    <3>1. /\ dirs'[r]["live"] = NoDir
          /\ \A q \in Roots, n \in Names : q # r \/ n # "live" => dirs'[q][n] = dirs[q][n]
      BY <2>5 DEF Remade
    <3>2. Stage(r, "staged")
      BY <2>1, <2>5 DEF SetAside, Missing, NewInPlace, Substituted
    <3>3. SetAside(r)'
      BY <1>1, <2>2, <3>1, <3>2, Constants DEF SetAside, Missing, Old, Stage, Exists, Names, Attested
    <3>4. ~ Recreated'
      BY <1>1, <3>1, Constants DEF Recreated, Roots, Names
    <3> QED
      BY <1>1, <3>1, <3>3, <3>4, SameRoot DEF Sound
  <2>6. CASE Exists(r, "live") /\ ~ Stage(r, "live") /\ dirs' = Move(r, "live", "discarded")
    <3>1. /\ dirs'[r]["discarded"] = dirs[r]["live"] /\ dirs'[r]["live"] = NoDir
          /\ \A q \in Roots, n \in Names :
               q # r \/ n \notin {"live", "discarded"} => dirs'[q][n] = dirs[q][n]
      BY <1>1, <2>6, Moved DEF Names
    <3>2. Stage(r, "staged") /\ dirs[r]["live"].ver = Empty
      BY <1>1, <2>1, <2>6 DEF SetAside, Missing, NewInPlace, Substituted, Recreated
    <3>3. SetAside(r)'
      BY <1>1, <2>2, <3>1, <3>2, Constants DEF SetAside, Missing, Old, Stage, Exists, Names, Attested
    <3>4. ~ Recreated'
      BY <1>1, <3>1, Constants DEF Recreated, Roots, Names
    <3> QED
      BY <1>1, <3>1, <3>3, <3>4, SameRoot DEF Sound
  <2> QED
    BY <1>3, <2>3, <2>4, <2>5, <2>6
<1> QED
  BY <1>1, <1>2, <1>3, UndoForms

\* A sweep takes the trees that the outcome does not need, in either direction.
LEMMA SweepKeepsRoots ==
  ASSUME IInv, Sweep
  PROVE  /\ journal' = journal /\ db' = db /\ LiveIds' = LiveIds
         /\ Uncommitted => \A r \in Roots : InPlace(r)'
         /\ ~ Uncommitted => \A r \in Roots : Renewed(r)'
<1>1. /\ DirsTyped /\ Identified /\ Numbered /\ journal' = journal /\ db' = db
      /\ Uncommitted => \A r \in Roots : InPlace(r)
      /\ ~ Uncommitted => \A r \in Roots : Renewed(r)
  BY TypeParts DEF IInv, Sweep, Recovering, Decided, Uncommitted
<1>2. ASSUME NEW r \in Roots, NEW n \in Names \ {"live"},
             Exists(r, n), Remade(r, n, Dismantled(dirs[r][n]))
      PROVE  /\ \A q \in Roots : dirs'[q]["live"].id = dirs[q]["live"].id
             /\ Uncommitted => \A q \in Roots : InPlace(q)'
             /\ ~ Uncommitted => \A q \in Roots : Renewed(q)'
  <2>0. dirs[r][n] \in Dir
    BY <1>1 DEF DirsTyped
  <2> DEFINE d == Dismantled(dirs[r][n])
  <2>1. /\ d.id \in {0, dirs[r][n].id}
        /\ dirs[r][n].ver = Empty => d.ver = Empty /\ d.id = 0
    BY <2>0, DismantledForms, Constants DEF Dir
  <2>2. /\ dirs'[r][n] = d
        /\ \A q \in Roots, m \in Names : q # r \/ m # n => dirs'[q][m] = dirs[q][m]
    BY <1>2 DEF Remade
  <2> HIDE DEF d
  <2>3. \A q \in Roots : q # r => (InPlace(q) => InPlace(q)') /\ (Renewed(q) => Renewed(q)')
    BY <1>1, <2>2, SameRoot
  <2>4. \A q \in Roots : dirs'[q]["live"].id = dirs[q]["live"].id
    BY <2>2 DEF Names
  <2>5. InPlace(r) => InPlace(r)'
    <3>1. InPlace(r) => n # "previous"
      BY <1>2 DEF InPlace
    <3>2. InPlace(r) /\ ~ Attested => n # "discarded"
      BY <1>2 DEF InPlace
    <3>3. CASE n = "staged"
      BY <1>1, <2>1, <2>2, <3>3 DEF InPlace, Old, Exists, Names, Attested
    <3>4. CASE n = "discarded" /\ Attested
      BY <1>1, <2>1, <2>2, <3>4 DEF InPlace, Old, Exists, Names, Attested
    <3> QED
      BY <1>2, <3>1, <3>2, <3>3, <3>4 DEF Names
  <2>6. Renewed(r) => Renewed(r)'
    <3>1. Renewed(r) => n = "previous"
      BY <1>2 DEF Renewed, NewInPlace, Names
    <3> QED
      BY <1>1, <2>1, <2>2, <3>1 DEF Renewed, NewInPlace, Stage, Exists, Names
  <2> QED
    BY <1>1, <2>3, <2>4, <2>5, <2>6
<1>3. CASE dirs' = dirs
  BY <1>1, <1>3, SameRoot, LiveIdsKept
<1> QED
  BY <1>1, <1>2, <1>3, SweepForms, LiveIdsKept

\* Stages are made and filled beside roots that nothing has touched yet.
LEMMA StagingKeepsRoots ==
  ASSUME IInv, Prepare \/ PrepareConfig \/ PrepareFails \/ Fill
  PROVE  /\ journal' = journal /\ db' = db /\ pinned' = pinned
         /\ journal.token # 0
         /\ Uncommitted => \A r \in Roots : InPlace(r)'
         /\ \A r \in Roots : Untouched(r)'
<1>1. /\ DirsTyped /\ Identified /\ OtherTypes /\ Numbered /\ journal' = journal /\ db' = db
      /\ pinned' = pinned
      /\ phase \in Making /\ journal.token # 0
      /\ \A r \in Roots : Untouched(r)
      /\ Uncommitted => \A r \in Roots : Sound(r)
  BY TypeParts DEF IInv, Prepare, PrepareConfig, PrepareFails, Fill, Staging, Journaled, Undecided, Sound,
                   Making, memory
<1>2. Uncommitted => \A r \in Roots : InPlace(r)
  BY <1>1 DEF Sound, SetAside, Old, Untouched, Exists, Numbered
<1>3. CASE Prepare \/ PrepareConfig \/ PrepareFails
  <2>0. ~ Attested
    BY <1>3 DEF IInv, Staging, Prepare, PrepareConfig, PrepareFails
  <2>1. ASSUME NEW r \in Roots, NEW d, d.ver = Empty, Remade(r, "staged", d)
        PROVE  (Uncommitted => \A q \in Roots : InPlace(q)') /\ \A q \in Roots : Untouched(q)'
    <3>1. /\ dirs'[r]["staged"].ver = Empty
          /\ \A q \in Roots, m \in Names : q # r \/ m # "staged" => dirs'[q][m] = dirs[q][m]
      BY <2>1 DEF Remade
    <3>2. \A q \in Roots : InPlace(q) => InPlace(q)'
      BY <1>1, <2>0, <3>1 DEF InPlace, Old, Exists, Names, Attested
    <3>3. \A q \in Roots : Untouched(q)'
      BY <1>1, <3>1 DEF Untouched, Exists, Names
    <3> QED
      BY <1>2, <3>2, <3>3
  <2>2. \A r \in Roots : EmptyDir(FreshIds[r]).ver = Empty
    BY NewIdentities, Constants
  <2>3. CASE dirs' = dirs
    BY <1>1, <1>2, <2>3, SameRoot DEF Untouched, Exists
  <2> QED
    BY <1>1, <1>3, <2>1, <2>2, <2>3, StagesAreMade, Constants DEF Roots
<1>4. CASE Fill
  <2>1. Attested
    BY <1>4 DEF IInv, Staging, Fill
  <2>2. PICK v \in {Partial, attempts} :
          \A r \in Roots : /\ \A n \in Names \ {"staged"} : dirs'[r][n] = dirs[r][n]
                           /\ dirs'[r]["staged"] = [dirs[r]["staged"] EXCEPT !.ver = v]
    BY <1>1, <1>4, FillForms DEF OtherTypes
  <2>3. ASSUME NEW r \in Roots
        PROVE  dirs'[r]["staged"].id = dirs[r]["staged"].id
    <3>1. dirs[r]["staged"] \in Dir /\ dirs'[r]["staged"] = [dirs[r]["staged"] EXCEPT !.ver = v]
      BY <1>1, <2>2 DEF DirsTyped, Names
    <3> QED
      BY <3>1 DEF Dir
  <2>4. ASSUME NEW r \in Roots, InPlace(r)
        PROVE  InPlace(r)'
    <3>1. \A n \in Names \ {"staged"} : dirs'[r][n] = dirs[r][n]
      BY <2>2
    <3>2. /\ dirs'[r]["live"] = dirs[r]["live"] /\ dirs'[r]["previous"] = dirs[r]["previous"]
          /\ dirs'[r]["discarded"] = dirs[r]["discarded"] /\ Attested'
      BY <1>1, <2>1, <3>1 DEF Names, Attested
    <3> QED
      BY <1>1, <2>1, <2>3, <2>4, <3>2 DEF InPlace, Old, Exists
  <2>5. ASSUME NEW r \in Roots
        PROVE  Untouched(r)'
    <3>1. \A n \in Names \ {"staged"} : dirs'[r][n] = dirs[r][n]
      BY <2>2
    <3>2. Untouched(r) /\ journal' = journal
      BY <1>1
    <3> QED
      BY <3>1, <3>2 DEF Untouched, Exists, Names
  <2> QED
    BY <1>1, <1>2, <2>4, <2>5
<1> QED
  BY <1>3, <1>4

\* A request makes a media root only where the old one has been set aside.
LEMMA RefusedRoot ==
  ASSUME IInv, AddAssetRefused
  PROVE  /\ journal' = journal /\ db' = db
         /\ Uncommitted /\ \A r \in Roots : Sound(r)'
<1>1. /\ DirsTyped /\ Identified /\ OtherTypes /\ Numbered /\ journal' = journal /\ db' = db
      /\ ~ Exists("media", "live")
  BY TypeParts DEF IInv, AddAssetRefused
<1>2. journal.token # 0
  BY <1>1 DEF IInv, Settled, Roots
<1>3. Uncommitted
  <2>1. ~ Uncommitted => NewInPlace("media") /\ Attested
    BY <1>2 DEF IInv, Decided, Renewed, Roots
  <2> QED
    BY <1>1, <1>2, <2>1 DEF NewInPlace, Stage, Exists, Numbered, Roots
<1>4. \A r \in Roots : Sound(r)
  BY <1>3 DEF IInv, Undecided, Sound
<1>5. SetAside("media") /\ Missing("media")
  <2>1. ~ InPlace("media") /\ ~ Substituted("media")
    BY <1>1, <1>2 DEF InPlace, Substituted, Old, Exists, Numbered, Roots
  <2>2. SetAside("media")
    BY <1>4, <2>1 DEF Sound, Roots
  <2>3. ~ NewInPlace("media")
    BY <1>1, <1>2, <2>2 DEF SetAside, NewInPlace, Stage, Exists, Numbered, Roots
  <2> QED
    BY <2>1, <2>2, <2>3 DEF SetAside
<1> DEFINE d == [EmptyDir(FreshIds["media"]) EXCEPT !.ver = Partial]
<1>6. d.id # 0 /\ d.ver = Partial
  BY NewIdentities DEF EmptyDir, Roots, Ids
<1>7. /\ dirs'["media"]["live"] = d
      /\ \A q \in Roots, m \in Names : q # "media" \/ m # "live" => dirs'[q][m] = dirs[q][m]
  BY <1>1, AssetForms DEF Remade
<1> HIDE DEF d
<1>8. SetAside("media")'
  BY <1>1, <1>5, <1>6, <1>7 DEF SetAside, Missing, Substituted, Old, Stage, Exists, Names, Roots, Attested
<1>9. Sound("config")'
  BY <1>1, <1>4, <1>7, SameRoot DEF Roots, Names
<1> QED
  BY <1>1, <1>3, <1>8, <1>9 DEF Sound, Roots

\* A root that the swap does not touch stays what it was.
LEMMA SwappingRoot ==
  ASSUME NEW r \in Roots, Attested, dirs[r]["discarded"].ver = Empty, Swapping(r),
         journal' = journal, db' = db, attempts' = attempts,
         \A n \in Names : dirs'[r][n] = dirs[r][n]
  PROVE  /\ Swapping(r)' /\ Sound(r)'
         /\ InPlace(r) => InPlace(r)'
         /\ NewInPlace(r) => NewInPlace(r)'
<1> USE DEF Names, Exists, Old, Stage, Attested, Fresh
<1>1. InPlace(r) => InPlace(r)'
  BY DEF InPlace
<1>2. (Missing(r) => Missing(r)') /\ (NewInPlace(r) => NewInPlace(r)')
  BY DEF Missing, NewInPlace
<1>3. Swapping(r)'
  BY <1>1, <1>2 DEF Swapping
<1>4. Sound(r)'
  BY <1>1, <1>2 DEF Swapping, Sound, SetAside
<1> QED
  BY <1>1, <1>2, <1>3, <1>4

\* The swap takes each root from its old tree to nothing and from nothing to the
\* new tree, media first; when both roots have the new tree it is over.
LEMMA SwapRoots ==
  ASSUME IInv, Swap
  PROVE  /\ journal' = journal /\ db' = db /\ authority' = authority /\ attempts' = attempts
         /\ \/ /\ phase' = "commit" /\ dirs' = dirs /\ pinned' = LiveIds
               /\ \A r \in Roots : /\ Renewed(r) /\ Old(r, "previous")
                                   /\ Fresh(dirs[r]["live"])
            \/ /\ phase' = "swap" /\ \A r \in Roots : Swapping(r)' /\ Sound(r)'
               /\ ~ NewInPlace("media")' => InPlace("config")'
<1>1. /\ DirsTyped /\ Distinct /\ Identified /\ OtherTypes /\ Numbered /\ Attested
      /\ journal.token = attempts /\ journal.token # 0 /\ authority.staged = journal.staged
      /\ journal' = journal /\ db' = db /\ authority' = authority /\ attempts' = attempts
      /\ \A r \in Roots : Swapping(r)
      /\ ~ NewInPlace("media") => InPlace("config")
  BY TypeParts DEF IInv, Swap, Staging, Journaled, Authorized, bounds
<1>2. \A r \in Roots : journal.orig[r] # 0 /\ journal.staged[r] # 0
  BY <1>1 DEF Numbered
\* A root whose live directory is the stage has been promoted.
<1>3. ASSUME NEW r \in Roots, Stage(r, "live")
      PROVE  NewInPlace(r) /\ Old(r, "previous") /\ Fresh(dirs[r]["live"])
  <2>1. ~ (InPlace(r) /\ Stage(r, "staged")) /\ ~ Missing(r)
    BY <1>1, <1>2, <1>3 DEF Stage, Missing, Exists, Distinct, Names
  <2> QED
    BY <1>1, <2>1 DEF Swapping
<1>4. CASE LiveIds = authority.staged
  <2>1. /\ dirs' = dirs /\ pinned' = LiveIds /\ phase' = "commit"
    BY <1>4, SwapForms
  <2>2. \A r \in Roots : Stage(r, "live")
    BY <1>1, <1>4 DEF LiveIds, Stage
  <2>3. \A r \in Roots : Renewed(r) /\ Old(r, "previous") /\ Fresh(dirs[r]["live"])
    BY <1>1, <1>3, <2>2 DEF Renewed, Swapping, Old
  <2> QED
    BY <1>1, <2>1, <2>3
<1>5. CASE LiveIds # authority.staged
  <2>1. PICK r \in Roots : /\ r = NextToSwap /\ phase' = "swap"
                           /\ Exists(r, "live") => dirs' = Move(r, "live", "previous")
                           /\ ~ Exists(r, "live") => dirs' = Move(r, "staged", "live")
    BY <1>5, SwapForms
  <2>2. ~ Stage(r, "live") /\ (r = "config" => Stage("media", "live"))
    <3>1. \E q \in Roots : dirs[q]["live"].id # journal.staged[q]
      <4>1. LiveIds = [q \in Roots |-> dirs[q]["live"].id] /\ DOMAIN journal.staged = Roots
        BY <1>1 DEF LiveIds, OtherTypes, JournalType
      <4>2. journal.staged = [q \in Roots |-> journal.staged[q]]
        BY <1>1 DEF OtherTypes, JournalType
      <4> QED
        BY <1>1, <1>5, <4>1, <4>2
    <3> QED
      BY <1>1, <2>1, <3>1 DEF NextToSwap, Stage, Roots
  <2>3. ~ Exists(r, "discarded") /\ dirs[r]["discarded"].ver = Empty
    BY <1>1, Constants DEF Swapping, Identified, Exists, Names
  <2>6. /\ Swapping(r)' /\ Sound(r)'
        /\ \A q \in Roots : q # r => \A n \in Names : dirs'[q][n] = dirs[q][n]
    <3>1. CASE Exists(r, "live")
      <4>1. /\ dirs'[r]["previous"] = dirs[r]["live"] /\ dirs'[r]["live"] = NoDir
            /\ \A q \in Roots, n \in Names :
                 q # r \/ n \notin {"live", "previous"} => dirs'[q][n] = dirs[q][n]
        BY <1>1, <2>1, <3>1, Moved DEF Names
      <4>2. InPlace(r) /\ Stage(r, "staged") /\ Fresh(dirs[r]["staged"])
        BY <1>1, <2>2, <3>1 DEF Swapping, Missing, NewInPlace
      <4>3. /\ Missing(r)' /\ Old(r, "previous")' /\ Fresh(dirs[r]["staged"])'
            /\ ~ Exists(r, "discarded")' /\ dirs'[r]["discarded"].ver = Empty
        BY <1>1, <2>3, <4>1, <4>2, Constants DEF InPlace, Missing, Old, Stage, Exists, Names, Fresh
      <4>4. Swapping(r)' /\ Sound(r)'
        BY <1>1, <4>3 DEF Swapping, Sound, SetAside, Attested
      <4> QED
        BY <4>1, <4>4
    <3>2. CASE ~ Exists(r, "live")
      <4>1. /\ dirs'[r]["live"] = dirs[r]["staged"] /\ dirs'[r]["staged"] = NoDir
            /\ \A q \in Roots, n \in Names :
                 q # r \/ n \notin {"staged", "live"} => dirs'[q][n] = dirs[q][n]
        BY <1>1, <2>1, <3>2, Moved DEF Names
      <4>2. Missing(r) /\ Old(r, "previous") /\ Fresh(dirs[r]["staged"])
        BY <1>1, <1>2, <3>2 DEF Swapping, InPlace, NewInPlace, Old, Stage, Exists
      <4>3. /\ NewInPlace(r)' /\ Old(r, "previous")' /\ Fresh(dirs[r]["live"])'
            /\ ~ Exists(r, "discarded")' /\ dirs'[r]["discarded"].ver = Empty
        BY <1>1, <2>3, <4>1, <4>2, Constants DEF Missing, NewInPlace, Old, Stage, Exists, Names, Fresh
      <4>4. Swapping(r)' /\ Sound(r)'
        BY <1>1, <4>3 DEF Swapping, Sound, SetAside, Attested
      <4> QED
        BY <4>1, <4>4
    <3> QED
      BY <3>1, <3>2
  <2>7. ASSUME NEW q \in Roots, q # r
        PROVE  /\ Swapping(q)' /\ Sound(q)'
               /\ InPlace(q) => InPlace(q)'
               /\ NewInPlace(q) => NewInPlace(q)'
    <3>1. dirs[q]["discarded"].ver = Empty
      BY <1>1, <2>7, Constants DEF Swapping, Identified, Exists, Names
    <3> QED
      BY <1>1, <2>6, <2>7, <3>1, SwappingRoot
  <2>8. ~ NewInPlace("media")' => InPlace("config")'
    <3>1. CASE r = "media"
      <4>1. ~ NewInPlace("media")
        BY <2>2, <3>1 DEF NewInPlace
      <4> QED
        BY <1>1, <2>7, <3>1, <4>1 DEF Roots
    <3>2. CASE r = "config"
      <4>1. NewInPlace("media")
        BY <1>3, <2>2, <3>2 DEF Roots
      <4> QED
        BY <2>7, <3>2, <4>1 DEF Roots
    <3> QED
      BY <3>1, <3>2 DEF Roots
  <2> QED
    BY <1>1, <2>1, <2>6, <2>7, <2>8
<1> QED
  BY <1>4, <1>5

-----------------------------------------------------------------------------
(* Before the commit every root has its old tree, after it the new one.    *)

\* Every step keeps the old tree before the commit and the new one after it.
LEMMA RootsKept == IInv /\ [Next]_vars => Undecided' /\ Decided'
<1> SUFFICES ASSUME IInv, [Next]_vars
             PROVE  Undecided' /\ Decided'
  OBVIOUS
<1>1. /\ DirsTyped /\ Distinct /\ Identified /\ OtherTypes /\ Numbered /\ Settled /\ Undecided /\ Decided
      /\ Journaled /\ Staging /\ Recovering
  BY TypeParts DEF IInv
<1>2. /\ attempts \in Nat /\ db.ver \in Nat /\ journal.token \in Nat
  BY <1>1, BoundsAreNaturals DEF OtherTypes, JournalType
<1>3. /\ Uncommitted => \A r \in Roots : Sound(r)
      /\ journal.token # 0 /\ ~ Uncommitted => Attested /\ \A r \in Roots : Renewed(r)
  BY <1>1 DEF Undecided, Decided, Sound
<1>4. CASE Journals
  <2>1. db.ver < attempts /\ journal.token = 0
    BY <1>1, <1>4 DEF Journals, Recovering, Numbered
  <2>2. Uncommitted'
    BY <1>2, <1>4, <2>1, <1>1, PlansTyped DEF Journals, Uncommitted
  <2>3. ASSUME NEW r \in Roots
        PROVE  InPlace(r)'
    <3>1. /\ journal'.orig[r] = dirs[r]["live"].id /\ journal'.staged = NoId
      BY <1>4 DEF Journals, Plan, LiveIds
    <3>2. dirs[r]["live"].ver = db.ver /\ Clear(r)
      BY <1>1, <2>1 DEF Settled
    <3>3. dirs[r]["staged"].ver = Empty
      BY <1>1, <3>2, Constants DEF Identified, Clear, Exists, Names
    <3> QED
      BY <1>4, <3>1, <3>2, <3>3 DEF Journals, InPlace, Old, Clear, Exists, Attested
  <2> QED
    BY <2>2, <2>3 DEF Undecided, Decided
<1>5. CASE Attests
  <2>1. /\ journal.token = attempts /\ journal.token # 0 /\ db.ver < attempts /\ ~ Attested
    BY <1>1, <1>5 DEF Attests, Journaled, Numbered, Staging, Making
  <2>2. journal'.token = journal.token /\ journal'.orig = journal.orig /\ journal'.staged = StagedIds
    BY <1>1, <1>5 DEF Attests, OtherTypes, JournalType
  <2>3. Uncommitted /\ Uncommitted'
    BY <1>5, <2>1, <2>2 DEF Attests, Uncommitted
  <2>4. ASSUME NEW r \in Roots
        PROVE  InPlace(r)'
    <3>1. InPlace(r)
      BY <1>3, <2>1, <2>3 DEF Sound, SetAside
    <3>2. dirs[r]["discarded"].ver = Empty
      BY <1>1, <2>1, <3>1, Constants DEF InPlace, Identified, Exists, Names
    <3>3. StagedIds[r] = dirs[r]["staged"].id /\ StagedIds[r] # 0
      BY <1>1, <1>5 DEF StagedIds, Attests, Staging, Exists
    <3>4. Attested'
      BY <2>2, <3>3 DEF Attested, NoId
    <3> QED
      BY <1>5, <2>2, <3>1, <3>2, <3>3, <3>4 DEF Attests, InPlace, Old, Exists
  <2> QED
    BY <2>3, <2>4 DEF Undecided, Decided
<1>6. CASE Unjournals \/ Unmarks
  <2>1. journal'.token = 0
    BY <1>1, <1>6, Constants DEF Unjournals, Unmarks, Recovering
  <2> QED
    BY <2>1 DEF Undecided, Decided, Uncommitted
<1>7. CASE Commits
  <2>1. /\ journal.token = attempts /\ journal.token # 0 /\ Attested /\ \A r \in Roots : Renewed(r)
    BY <1>1, <1>7 DEF Commits, Journaled, Staging
  <2>2. ~ Uncommitted'
    BY <1>2, <1>7, <2>1 DEF Commits, Uncommitted
  <2>3. Attested' /\ \A r \in Roots : Renewed(r)'
    BY <1>7, <2>1 DEF Commits, Renewed, NewInPlace, Stage, Exists, Attested
  <2> QED
    BY <2>2, <2>3 DEF Undecided, Decided
<1>8. CASE Adds
  <2>1. \A r \in Roots : (Sound(r) => Sound(r)') /\ (Renewed(r) => Renewed(r)')
    BY <1>1, <1>8, AddsForms, SameRoot DEF Adds
  <2>2. (Uncommitted' <=> Uncommitted) /\ journal' = journal /\ (Attested' <=> Attested)
    BY <1>8 DEF Adds, Uncommitted, Attested
  <2> QED
    BY <1>3, <2>1, <2>2 DEF Undecided, Decided, Sound
<1>9. CASE UNCHANGED <<journal, db, marker>>
  <2>0. (Uncommitted' <=> Uncommitted) /\ journal' = journal /\ db' = db /\ (Attested' <=> Attested)
    BY <1>9 DEF Uncommitted, Attested
  <2> SUFFICES /\ Uncommitted => \A r \in Roots : Sound(r)'
               /\ journal.token # 0 /\ ~ Uncommitted => \A r \in Roots : Renewed(r)'
    BY <1>3, <2>0 DEF Undecided, Decided, Sound
  <2>1. CASE UNCHANGED vars \/ Quiet
    <3>1. dirs' = dirs
      BY <2>1, QuietSteps DEF vars, durable
    <3> QED
      BY <1>3, <2>0, <3>1, SameRoot
  <2>2. CASE Start \/ ServerCrash
    BY <1>1, <1>3, <2>0, <2>2, PlaceholderRoot DEF Start, ServerCrash, Uncommitted
  <2>3. CASE Undo
    <3>1. Uncommitted
      BY <1>1, <2>3 DEF Recovering, Undo
    <3> QED
      BY <2>3, <3>1, UndoRoot
  <2>4. CASE Sweep
    BY <2>4, SweepKeepsRoots DEF Sound
  <2>5. CASE Prepare \/ PrepareConfig \/ PrepareFails \/ Fill
    <3>1. Uncommitted
      <4>1. aim = "begin" /\ journal.token = attempts /\ journal.token # 0
        BY <1>1, <2>5 DEF Journaled, Making, Prepare, PrepareConfig, PrepareFails, Fill
      <4> QED
        BY <1>1, <4>1 DEF Numbered, Uncommitted
    <3> QED
      BY <2>5, <3>1, StagingKeepsRoots DEF Sound
  <2>6. CASE Swap
    <3>1. Uncommitted
      <4>1. aim = "begin" /\ journal.token = attempts /\ journal.token # 0
        BY <1>1, <2>6 DEF Journaled, Swap
      <4> QED
        BY <1>1, <4>1 DEF Numbered, Uncommitted
    <3>2. dirs' = dirs => \A r \in Roots : Sound(r)'
      BY <1>3, <2>0, <3>1, SameRoot
    <3> QED
      BY <2>6, <3>1, <3>2, SwapRoots
  <2>7. CASE \E a \in Assets : AddAsset(a)
    <3>1. Adds
      BY <2>7, <2>0 DEF AddAsset, Adds, Usable, memory, bounds
    <3> QED
      BY <1>1, <1>3, <2>0, <3>1, AddsForms, SameRoot
  <2>8. CASE AddAssetRefused
    BY <2>8, RefusedRoot
  <2> QED
    BY <2>1, <2>2, <2>3, <2>4, <2>5, <2>6, <2>7, <2>8, StepCases
<1> QED
  BY <1>4, <1>5, <1>6, <1>7, <1>8, <1>9, <1>1, DurableForms

-----------------------------------------------------------------------------
(* The steps of a restore, one after the other.                            *)

\* No other step leads into a restore.
LEMMA RestoreSteps ==
  ASSUME OtherTypes, [Next]_vars, phase' \in Making \cup {"swap", "commit"}
  PROVE  UNCHANGED vars \/ WriteJournal \/ Prepare \/ PrepareConfig \/ Attest \/ Fill \/ Promote \/ Swap
<1>1. ~ (Recovery \/ Failing)
  BY FinishForms DEF Recovery, Reconcile, Decide, Refresh, Cleanup, Rollback, Undo, Sweep, Unjournal,
                     Unmark, Failing, Crash, ServerCrash, ReconcileFails, WriteJournalFails,
                     PrepareFails, StepFails, SwapFails, CommitFails, Goto, Abort, Making
<1>2. ~ (Start \/ StartRestore \/ StartExport \/ (\E a \in Assets : AddAsset(a)) \/ AddAssetRefused)
  BY DEF Start, StartRestore, StartExport, AddAsset, AddAssetRefused, Usable, Goto, Making
<1>3. ~ (Commit \/ Export)
  BY DEF Commit, Export, Goto, Making
<1> QED
  BY <1>1, <1>2, <1>3 DEF Next, Restoring

\* The restore in progress is the one in the journal.
LEMMA JournaledKept == IInv /\ [Next]_vars => Journaled'
<1> SUFFICES ASSUME IInv, [Next]_vars, phase' \in Making \cup {"swap", "commit"}
             PROVE  aim' = "begin" /\ journal'.token = attempts' /\ journal'.token # 0
  BY DEF Journaled
<1>1. DirsTyped /\ OtherTypes /\ Numbered /\ Journaled /\ Recovering
  BY TypeParts DEF IInv
<1>2. CASE UNCHANGED vars
  BY <1>1, <1>2 DEF vars, durable, bounds, Journaled
<1>3. CASE WriteJournal
  <2>1. /\ phase = "journal" /\ journal' = Plan /\ aim' = aim /\ attempts' = attempts
    BY <1>3 DEF WriteJournal, Goto, bounds, Making
  <2>2. aim = "begin" /\ attempts # 0
    BY <1>1, <2>1, BoundsAreNaturals DEF Recovering, Numbered, OtherTypes
  <2> QED
    BY <1>1, <2>1, <2>2, PlansTyped
<1>4. CASE Prepare \/ PrepareConfig \/ Attest \/ Fill \/ Promote \/ Swap
  <2>1. phase \in Making \cup {"swap", "commit"} /\ attempts' = attempts
    BY <1>4 DEF Prepare, PrepareConfig, Attest, Fill, Promote, Swap, Making, bounds
  <2>2. journal'.token = journal.token
    BY <1>1, <1>4 DEF Prepare, PrepareConfig, Attest, Fill, Promote, Swap, OtherTypes, JournalType, durable
  <2>3. aim' = aim
    BY <1>4 DEF Prepare, PrepareConfig, Attest, Fill, Promote, Swap, Goto, Abort, Making
  <2> QED
    BY <1>1, <2>1, <2>2, <2>3 DEF Journaled
<1> QED
  BY <1>1, <1>2, <1>3, <1>4, RestoreSteps

\* The journal is written over a workspace that is whole and nothing else.
LEMMA JournalStep == IInv /\ WriteJournal => Staging'
<1> SUFFICES ASSUME IInv, WriteJournal
             PROVE  Staging'
  OBVIOUS
<1>1. /\ DirsTyped /\ OtherTypes /\ Authorized /\ Settled /\ journal.token = 0
      /\ phase = "journal" /\ dirs' = dirs /\ pinned' = pinned /\ authority' = authority
  BY TypeParts DEF IInv, WriteJournal, Recovering, memory
<1>2. CASE phase' = "idle"
  BY <1>2 DEF Staging, Making
<1>3. CASE phase' = "prepare" /\ journal' = Plan
  <2>1. pinned = LiveIds /\ authority.token = 0 /\ \A r \in Roots : Clear(r)
    BY <1>1 DEF Settled, Authorized
  <2>2. journal'.orig = LiveIds /\ ~ Attested'
    BY <1>3 DEF Plan, Attested
  <2>3. \A r \in Roots : Untouched(r)'
    BY <1>1, <2>1, <2>2 DEF Untouched, LiveIds, Clear, Exists
  <2> QED
    BY <1>1, <1>3, <2>1, <2>2, <2>3 DEF Staging, Making, Clear, Exists, Roots
<1> QED
  BY <1>2, <1>3 DEF WriteJournal, Goto

\* The media stage is made first, and beside an untouched root.
LEMMA PrepareStep == IInv /\ Prepare => Staging'
<1> SUFFICES ASSUME IInv, Prepare
             PROVE  Staging'
  OBVIOUS
<1>1. /\ DirsTyped /\ OtherTypes /\ Staging /\ phase = "prepare" /\ authority' = authority
  BY TypeParts DEF IInv, Prepare, memory
<1>2. CASE phase' = "reconcile"
  BY <1>2 DEF Staging, Making
<1>3. CASE phase' = "prepare2" /\ PrepareAllowed
  <2> DEFINE d == EmptyDir(FreshIds["media"])
  <2>1. d \in Dir /\ d.id # 0 /\ d.files = {}
    BY NewIdentities, Constants DEF Roots
  <2>2. dirs' = [dirs EXCEPT !["media"]["staged"] = d]
    BY <1>3 DEF Prepare
  <2> HIDE DEF d
  <2>3. Remade("media", "staged", d)
    BY <1>1, <2>1, <2>2, OneIsRemade DEF Roots, Names
  <2>4. /\ journal' = journal /\ pinned' = pinned /\ \A r \in Roots : Untouched(r)'
    BY StagingKeepsRoots
  <2>5. pinned = journal.orig /\ authority.token = 0 /\ ~ Attested /\ ~ Exists("config", "staged")
    BY <1>1 DEF Staging, Making
  <2>6. dirs'["media"]["staged"] = d /\ dirs'["config"]["staged"] = dirs["config"]["staged"]
    BY <2>3 DEF Remade, Roots, Names
  <2> QED
    BY <1>1, <1>3, <2>1, <2>4, <2>5, <2>6 DEF Staging, Making, Exists, Attested
<1> QED
  BY <1>2, <1>3 DEF Prepare, Goto, Abort

\* The config stage is the second; the authority names both.
LEMMA PrepareConfigStep == IInv /\ PrepareConfig => Staging'
<1> SUFFICES ASSUME IInv, PrepareConfig
             PROVE  Staging'
  OBVIOUS
<1>1. /\ DirsTyped /\ OtherTypes /\ Staging /\ phase = "prepare2" /\ phase' = "attest"
  BY TypeParts DEF IInv, PrepareConfig, Goto
<1> DEFINE d == EmptyDir(FreshIds["config"])
<1>2. d.id # 0 /\ d.files = {}
  BY NewIdentities, Constants DEF Roots
<1>3. Remade("config", "staged", d)
  BY <1>1, StagesAreMade
<1> HIDE DEF d
<1>4. /\ journal' = journal /\ pinned' = pinned /\ \A r \in Roots : Untouched(r)'
  BY StagingKeepsRoots
<1>5. authority' = [journal EXCEPT !.staged = StagedIds']
  BY DEF PrepareConfig, StagedIds
<1>6. authority'.token = journal.token /\ authority'.staged = StagedIds'
  BY <1>1, <1>5 DEF OtherTypes, JournalType
<1>7. pinned = journal.orig /\ ~ Attested /\ Exists("media", "staged") /\ dirs["media"]["staged"].files = {}
  BY <1>1 DEF Staging, Making
<1>8. dirs'["config"]["staged"] = d /\ dirs'["media"]["staged"] = dirs["media"]["staged"]
  BY <1>3 DEF Remade, Roots, Names
<1>9. \A r \in Roots : Exists(r, "staged")' /\ dirs'[r]["staged"].files = {}
  BY <1>2, <1>7, <1>8 DEF Exists, Roots
<1> QED
  BY <1>1, <1>4, <1>6, <1>7, <1>9 DEF Staging, Making, Attested

\* What is attested is what was made.
LEMMA AttestStep == IInv /\ Attest => Staging'
<1> SUFFICES ASSUME IInv, Attest
             PROVE  Staging'
  OBVIOUS
<1>1. /\ DirsTyped /\ OtherTypes /\ Staging /\ phase = "attest" /\ phase' = "fill"
      /\ dirs' = dirs /\ pinned' = pinned /\ authority' = authority
      /\ journal' = [journal EXCEPT !.staged = StagedIds]
  BY TypeParts DEF IInv, Attest, Goto, memory
<1>2. journal'.token = journal.token /\ journal'.orig = journal.orig /\ journal'.staged = StagedIds
  BY <1>1 DEF OtherTypes, JournalType
<1>3. /\ pinned = journal.orig /\ authority.token = journal.token
      /\ \A r \in Roots : Untouched(r) /\ Exists(r, "staged") /\ dirs[r]["staged"].files = {}
  BY <1>1 DEF Staging, Making
<1>4. StagedIds' = StagedIds /\ Attested'
  <2>1. StagedIds' = StagedIds
    BY <1>1 DEF StagedIds
  <2>2. StagedIds["media"] # 0
    BY <1>3 DEF StagedIds, Exists, Roots
  <2> QED
    BY <1>2, <2>1, <2>2 DEF Attested, NoId, Roots
<1>5. \A r \in Roots : Untouched(r)' /\ Exists(r, "staged")' /\ dirs'[r]["staged"].files = {}
  BY <1>1, <1>2, <1>3 DEF Untouched, Exists
<1> QED
  BY <1>1, <1>2, <1>3, <1>4, <1>5 DEF Staging, Making

\* Both stages are sealed when promotion begins.
LEMMA FillStep == IInv /\ Fill => Staging'
<1> SUFFICES ASSUME IInv, Fill
             PROVE  Staging'
  OBVIOUS
<1>1. /\ DirsTyped /\ OtherTypes /\ Staging /\ phase \in {"fill", "seal"}
      /\ authority' = authority /\ attempts' = attempts
      /\ phase = "fill" => phase' = "seal"
      /\ phase = "seal" => phase' = "promote"
  BY TypeParts DEF IInv, Fill, Goto, memory, bounds
<1>2. /\ journal' = journal /\ pinned' = pinned /\ \A r \in Roots : Untouched(r)'
  BY StagingKeepsRoots
<1>3. /\ pinned = journal.orig /\ authority.token = journal.token /\ Attested
      /\ StagedIds = journal.staged
      /\ \A r \in Roots : Exists(r, "staged") /\ dirs[r]["staged"].files = {}
  BY <1>1 DEF Staging, Making
<1>4. PICK v \in {Partial, attempts} :
        /\ phase = "seal" => v = attempts
        /\ \A r \in Roots : dirs'[r]["staged"] = [dirs[r]["staged"] EXCEPT !.ver = v]
  BY <1>1, FillForms DEF OtherTypes
<1>5. ASSUME NEW r \in Roots
      PROVE  /\ dirs'[r]["staged"].id = dirs[r]["staged"].id /\ dirs'[r]["staged"].ver = v
             /\ dirs'[r]["staged"].files = dirs[r]["staged"].files
  <2>1. dirs[r]["staged"] \in Dir /\ dirs'[r]["staged"] = [dirs[r]["staged"] EXCEPT !.ver = v]
    BY <1>1, <1>4 DEF DirsTyped, Names
  <2> QED
    BY <2>1 DEF Dir
<1>6. StagedIds' = StagedIds
  BY <1>5 DEF StagedIds
<1>7. \A r \in Roots : Exists(r, "staged")' /\ dirs'[r]["staged"].files = {}
  BY <1>3, <1>5 DEF Exists
<1>8. phase' = "promote" => \A r \in Roots : Fresh(dirs[r]["staged"])'
  BY <1>1, <1>4, <1>5, <1>7 DEF Fresh
<1> QED
  BY <1>1, <1>2, <1>3, <1>6, <1>7, <1>8 DEF Staging, Making, Attested

\* The swap begins with both roots in place.
LEMMA PromoteStep == IInv /\ Promote => Staging'
<1> SUFFICES ASSUME IInv, Promote
             PROVE  Staging'
  OBVIOUS
<1>1. /\ DirsTyped /\ OtherTypes /\ Staging /\ Numbered /\ Journaled /\ Undecided /\ phase = "promote"
      /\ dirs' = dirs /\ pinned' = pinned /\ authority' = authority /\ journal' = journal /\ db' = db
      /\ attempts' = attempts
  BY TypeParts DEF IInv, Promote, durable, memory, bounds
<1>2. CASE phase' = "reconcile"
  BY <1>2 DEF Staging, Making
<1>3. CASE phase' = "swap"
  <2>1. /\ pinned = journal.orig /\ authority.token = journal.token /\ Attested
        /\ StagedIds = journal.staged
        /\ \A r \in Roots : Untouched(r) /\ Fresh(dirs[r]["staged"])
    BY <1>1 DEF Staging, Making
  <2>2. Uncommitted
    BY <1>1 DEF Journaled, Making, Numbered, Uncommitted
  <2>3. \A r \in Roots : InPlace(r)
    <3>1. \A r \in Roots : journal.orig[r] # 0
      BY <1>1, <2>2 DEF Numbered, Uncommitted
    <3> QED
      BY <1>1, <2>1, <2>2, <3>1 DEF Undecided, SetAside, Old, Untouched, Exists
  <2>4. \A r \in Roots : Stage(r, "staged") /\ ~ Exists(r, "discarded")
    BY <2>1 DEF Stage, StagedIds, Untouched
  <2>5. \A r \in Roots : Swapping(r)
    BY <2>1, <2>3, <2>4 DEF Swapping
  <2>6. \A r \in Roots : dirs[r]["discarded"].ver = Empty
    BY <2>1, <2>3 DEF InPlace
  <2>7. \A r \in Roots : Swapping(r)' /\ InPlace(r)'
    BY <1>1, <2>1, <2>3, <2>5, <2>6, SwappingRoot
  <2> QED
    BY <1>1, <1>3, <2>1, <2>7 DEF Staging, Making, Attested, Roots
<1> QED
  BY <1>2, <1>3 DEF Promote, Goto, Abort

\* The swap ends with both roots renewed, the old trees aside.
LEMMA SwapStep == IInv /\ Swap => Staging'
<1> SUFFICES ASSUME IInv, Swap
             PROVE  Staging'
  OBVIOUS
<1>1. /\ Staging /\ phase = "swap" /\ Attested /\ authority.token = journal.token
      /\ journal' = journal /\ db' = db /\ authority' = authority /\ attempts' = attempts
  BY SwapRoots DEF IInv, Staging, Swap
<1>2. CASE /\ phase' = "commit" /\ dirs' = dirs /\ pinned' = LiveIds
           /\ \A r \in Roots : Renewed(r) /\ Old(r, "previous") /\ Fresh(dirs[r]["live"])
  <2>1. \A r \in Roots : Renewed(r)' /\ Old(r, "previous")' /\ Fresh(dirs[r]["live"])'
    BY <1>1, <1>2, SameRoot DEF Old, Fresh
  <2>2. LiveIds' = LiveIds
    BY <1>2 DEF LiveIds
  <2> QED
    BY <1>1, <1>2, <2>1, <2>2 DEF Staging, Making, Attested
<1>3. CASE /\ phase' = "swap" /\ \A r \in Roots : Swapping(r)' /\ Sound(r)'
           /\ ~ NewInPlace("media")' => InPlace("config")'
  BY <1>1, <1>3 DEF Staging, Making, Attested
<1> QED
  BY <1>2, <1>3, SwapRoots

\* Every step of a restore leaves what the next one needs.
LEMMA StagingKept == IInv /\ [Next]_vars => Staging'
<1> SUFFICES ASSUME IInv, [Next]_vars
             PROVE  Staging'
  OBVIOUS
<1>1. CASE phase' \notin Making \cup {"swap", "commit"}
  BY <1>1 DEF Staging, Making
<1>2. CASE UNCHANGED vars
  <2>1. Staging
    BY DEF IInv
  <2>2. UNCHANGED <<dirs, journal, db, authority, pinned, attempts, phase>>
    BY <1>2 DEF vars, durable, memory, bounds
  <2>3. /\ \A r \in Roots : /\ Untouched(r)' = Untouched(r) /\ Swapping(r)' = Swapping(r)
                            /\ InPlace(r)' = InPlace(r) /\ NewInPlace(r)' = NewInPlace(r)
                            /\ Renewed(r)' = Renewed(r) /\ Old(r, "previous")' = Old(r, "previous")
        /\ Attested' = Attested /\ StagedIds' = StagedIds /\ LiveIds' = LiveIds
        /\ "media" \in Roots /\ "config" \in Roots
    BY <2>2 DEF Untouched, Exists, Attested, StagedIds, Fresh, Swapping, InPlace, Old, Stage, Missing,
                NewInPlace, Renewed, LiveIds, Roots
  <2> QED
    BY <2>1, <2>2, <2>3 DEF Staging, Exists, Fresh
<1> QED
  BY <1>1, <1>2, TypeParts, RestoreSteps, JournalStep, PrepareStep, PrepareConfigStep, AttestStep,
     FillStep, PromoteStep, SwapStep DEF IInv

-----------------------------------------------------------------------------
(* The steps of a recovery, one after the other.                           *)

RecoveryPhases ==
  {"refresh", "cleanup", "rollback", "undo", "sweep", "unjournal", "unmark", "journal", "export"}

\* No other step leads into a recovery.
LEMMA RecoverySteps ==
  ASSUME OtherTypes, [Next]_vars, phase' \in RecoveryPhases
  PROVE  \/ UNCHANGED vars \/ Decide \/ Refresh \/ Commit \/ Rollback \/ Undo \/ Cleanup \/ Sweep
         \/ Unjournal \/ Unmark
<1>1. ~ (WriteJournal \/ Prepare \/ PrepareConfig \/ Attest \/ Fill \/ Promote \/ Swap \/ Export)
  BY DEF WriteJournal, Prepare, PrepareConfig, Attest, Fill, Promote, Swap, Export, Goto, Abort,
         RecoveryPhases
<1>2. ~ (Failing \/ Reconcile)
  BY FinishForms DEF Failing, Crash, ServerCrash, ReconcileFails, WriteJournalFails, PrepareFails,
                     StepFails, SwapFails, CommitFails, Reconcile, Goto, Abort, RecoveryPhases
<1>3. ~ (Start \/ StartRestore \/ StartExport \/ (\E a \in Assets : AddAsset(a)) \/ AddAssetRefused)
  BY DEF Start, StartRestore, StartExport, AddAsset, AddAssetRefused, Usable, Goto, RecoveryPhases
<1> QED
  BY <1>1, <1>2, <1>3 DEF Next, Restoring, Recovery

\* Where the rollback preflight lets a rollback begin, no request has made a media root.
LEMMA RollbackFindsNoMadeRoot ==
  ASSUME IInv, Uncommitted, RollbackAllowed("media")
  PROVE  ~ Recreated
<1>1. /\ Identified /\ OtherTypes /\ Numbered /\ Undecided
  BY DEF IInv, TypeOK, OtherTypes
<1>2. /\ db.ver \in Nat /\ journal.token \in Nat /\ "media" \in Roots /\ journal.token # 0
  BY <1>1, BoundsAreNaturals DEF OtherTypes, JournalType, Roots, Uncommitted
<1>3. CASE InPlace("media")
  BY <1>2, <1>3, Constants DEF InPlace, Old, Recreated
<1>4. CASE SetAside("media")
  <2>1. Attested /\ Exists("media", "previous") /\ journal.staged["media"] # 0
    BY <1>1, <1>2, <1>4 DEF SetAside, Old, Exists, Numbered
  <2>2. Swapped("media")
    BY <2>1 DEF RollbackAllowed, Exists
  <2>3. CASE ~ Exists("media", "live")
    BY <1>1, <1>2, <2>3, Constants DEF Identified, Exists, Recreated, Names
  <2>4. CASE Stage("media", "live") /\ ~ Exists("media", "staged")
    <3>1. NewInPlace("media")
      BY <1>4, <2>1, <2>4 DEF SetAside, Missing, Substituted, Stage, Exists
    <3> QED
      BY <1>2, <3>1, Constants DEF NewInPlace, Recreated
  <2>5. CASE dirs["media"]["live"].ver = Empty
    BY <2>5, Constants DEF Recreated
  <2> QED
    BY <2>2, <2>3, <2>4, <2>5 DEF Swapped, Stage
<1> QED
  BY <1>1, <1>2, <1>3, <1>4 DEF Undecided

\* Every step of a recovery leaves what the next one needs.
LEMMA RecoveringKept == IInv /\ [Next]_vars => Recovering'
<1> SUFFICES ASSUME IInv, [Next]_vars
             PROVE  Recovering'
  OBVIOUS
<1>1. /\ DirsTyped /\ Distinct /\ Identified /\ OtherTypes /\ Numbered /\ Authorized /\ Recovering
      /\ Journaled /\ Staging
  BY TypeParts DEF IInv
<1>2. /\ attempts \in Nat /\ db.ver \in Nat /\ journal.token \in Nat
  BY <1>1, BoundsAreNaturals DEF OtherTypes, JournalType
<1>3. CASE phase' \notin RecoveryPhases
  BY <1>3 DEF Recovering, RecoveryPhases
<1>4. CASE UNCHANGED vars
  BY <1>1, <1>4 DEF vars, durable, memory, Recovering, Uncommitted, Recreated, InPlace, Old, Exists,
                    Attested, LiveIds, Clear
<1>5. CASE Decide
  <2>1. /\ journal' = journal /\ db' = db
        /\ \/ phase' = "unmark" /\ journal.token = 0
           \/ phase' = "refresh" /\ Committed
           \/ phase' = "rollback" /\ journal.token # 0 /\ ~ Committed
    BY <1>5 DEF Decide, Goto, durable
  <2>2. Committed => journal.token # 0 /\ ~ Uncommitted
    BY <1>1, <1>2 DEF Committed, Uncommitted, Numbered
  <2>3. journal.token # 0 /\ ~ Committed => Uncommitted
    BY <1>1, <1>2 DEF Committed, Uncommitted, Numbered
  <2> QED
    BY <2>1, <2>2, <2>3 DEF Recovering, Uncommitted
<1>6. CASE Refresh
  <2>1. CASE phase' = "cleanup" /\ pinned' = LiveIds
    BY <1>1, <1>6, <2>1 DEF Recovering, Refresh, Uncommitted, LiveIds, durable
  <2>2. CASE Finish(FALSE)
    BY <1>1, <2>2, FinishForms DEF Recovering
  <2> QED
    BY <1>6, <2>1, <2>2 DEF Refresh, Goto
<1>7. CASE Commit
  <2>1. /\ journal.token = attempts /\ journal.token # 0 /\ pinned = LiveIds
    BY <1>1, <1>7 DEF Journaled, Staging, Commit
  <2>2. /\ dirs' = dirs /\ pinned' = pinned /\ journal' = journal /\ db'.ver = attempts
        /\ phase' = "cleanup"
    BY <1>7 DEF Commit, CommitRows, Goto, memory
  <2>3. ~ Uncommitted'
    BY <1>2, <2>1, <2>2 DEF Uncommitted
  <2> QED
    BY <2>1, <2>2, <2>3 DEF Recovering, LiveIds
<1>8. CASE Rollback
  <2>1. CASE phase' = "undo" /\ \A r \in Roots : RollbackAllowed(r)
    <3>1. Uncommitted /\ ~ Recreated
      BY <1>1, <1>8, <2>1, RollbackFindsNoMadeRoot DEF Recovering, Rollback, Roots
    <3> QED
      BY <1>8, <2>1, <3>1 DEF Recovering, Rollback, Uncommitted, Recreated, durable
  <2>2. CASE Finish(FALSE)
    BY <1>1, <2>2, FinishForms DEF Recovering
  <2> QED
    BY <1>8, <2>1, <2>2 DEF Rollback, Goto
<1>9. CASE Undo
  <2>1. Uncommitted /\ Uncommitted' /\ journal' = journal
    BY <1>1, <1>9 DEF Recovering, Undo, Uncommitted
  <2>2. phase' \in {"undo", "sweep"}
    BY <1>1, <1>9, UndoForms
  <2> QED
    BY <1>9, <2>1, <2>2, UndoRoot DEF Recovering, Uncommitted
<1>10. CASE Cleanup
  <2>1. CASE phase' = "sweep"
    BY <1>1, <1>10, <2>1 DEF Recovering, Cleanup, Uncommitted, LiveIds, durable
  <2>2. CASE Finish(FALSE)
    BY <1>1, <2>2, FinishForms DEF Recovering
  <2> QED
    BY <1>10, <2>1, <2>2 DEF Cleanup, Goto
<1>11. CASE Sweep
  <2>1. /\ journal.token # 0 /\ (~ Uncommitted => pinned = LiveIds)
        /\ journal' = journal /\ (Uncommitted' <=> Uncommitted) /\ LiveIds' = LiveIds
        /\ Uncommitted => \A r \in Roots : InPlace(r)'
    BY <1>1, <1>11, SweepKeepsRoots DEF Recovering, Sweep, Uncommitted
  <2>2. CASE phase' = "sweep" /\ pinned' = pinned
    BY <2>1, <2>2 DEF Recovering
  <2>3. CASE Sweeps
    <3>1. pinned' = LiveIds
      BY <1>1, <1>2, <2>1, <2>3 DEF Sweeps, Committed, Uncommitted, Numbered
    <3>2. authority'.token = 0
      BY <1>1, <2>3, Constants DEF Sweeps, Released, Authorized
    <3>3. \A r \in Roots : Clear(r)'
      BY <2>3 DEF Sweeps, Clear, Exists
    <3> QED
      BY <2>1, <2>3, <3>1, <3>2, <3>3 DEF Recovering, Sweeps
  <2> QED
    BY <1>11, <2>2, <2>3, SweepEnds
<1>12. CASE Unjournal
  BY <1>12, Constants DEF Unjournal, Goto, Recovering
<1>13. CASE Unmark
  <2>1. journal.token = 0 /\ journal' = journal /\ marker' = 0 /\ Finish(TRUE)
    BY <1>1, <1>13 DEF Unmark, Recovering
  <2>2. /\ phase' \in {"idle", "journal", "export", "boot"}
        /\ phase' = "journal" => aim' = "begin"
    BY <1>1, <2>1, FinishForms
  <2> QED
    BY <2>1, <2>2 DEF Recovering
<1> QED
  BY <1>1, <1>3, <1>4, <1>5, <1>6, <1>7, <1>8, <1>9, <1>10, <1>11, <1>12, <1>13, RecoverySteps

-----------------------------------------------------------------------------
(* The invariant.                                                          *)

\* An export reads a workspace that is whole.
LEMMA ExportsKept == IInv /\ [Next]_vars => ExportsAreWhole'
<1> SUFFICES ASSUME IInv, [Next]_vars
             PROVE  ExportsAreWhole'
  OBVIOUS
<1>1. ExportsAreWhole /\ Settled /\ Recovering
  BY DEF IInv
<1>2. CASE exported' = exported
  BY <1>1, <1>2 DEF ExportsAreWhole
<1>3. CASE Export
  <2>1. journal.token = 0
    BY <1>1, <1>3 DEF Export, Recovering
  <2>2. \A r \in Roots : dirs[r]["live"].ver = db.ver
    BY <1>1, <2>1 DEF Settled
  <2>3. exported' = <<db.ver, dirs["media"]["live"].ver, dirs["config"]["live"].ver>>
    BY <1>3 DEF Export
  <2> QED
    BY <2>2, <2>3 DEF ExportsAreWhole, Roots
<1>4. UNCHANGED vars \/ Recovery \/ (Restoring /\ ~ Export) => exported' = exported
  BY DEF vars, bounds, Recovery, Reconcile, Decide, Refresh, Cleanup, Rollback, Undo, Sweep, Unjournal,
         Unmark, Restoring, WriteJournal, Prepare, PrepareConfig, Attest, Fill, Promote, Swap, Commit
<1>5. Failing => exported' = exported
  BY DEF Failing, Crash, ServerCrash, ReconcileFails, WriteJournalFails, PrepareFails, StepFails,
         SwapFails, CommitFails
<1>6. Start \/ StartRestore \/ StartExport \/ (\E a \in Assets : AddAsset(a)) \/ AddAssetRefused =>
        exported' = exported
  BY DEF Start, StartRestore, StartExport, AddAsset, AddAssetRefused, bounds
<1> QED
  BY <1>2, <1>3, <1>4, <1>5, <1>6 DEF Next

\* A new workspace is whole.
LEMMA InitHolds == Init => IInv
<1> SUFFICES ASSUME Init
             PROVE  IInv
  OBVIOUS
<1>1. /\ \A r \in Roots, n \in Names :
           dirs[r][n] = IF n # "live" THEN NoDir
                        ELSE [id |-> IF r = "media" THEN 1 ELSE 2, ver |-> 0, files |-> {}]
      /\ dirs \in [Roots -> [Names -> Dir]]
  <2>1. NoDir \in Dir /\ \A i \in {1, 2} : [id |-> i, ver |-> 0, files |-> {}] \in Dir
    BY Constants, BoundsAreNaturals DEF Dir, Ids
  <2> QED
    BY <2>1 DEF Init
<1>2. ASSUME NEW r \in Roots
      PROVE  /\ dirs[r]["live"].id = (IF r = "media" THEN 1 ELSE 2)
             /\ dirs[r]["live"].ver = 0
             /\ \A n \in Names \ {"live"} : dirs[r][n] = NoDir
  <2>1. dirs[r]["live"] = [id |-> IF r = "media" THEN 1 ELSE 2, ver |-> 0, files |-> {}]
    BY <1>1 DEF Names
  <2>2. \A n \in Names \ {"live"} : dirs[r][n] = NoDir
    BY <1>1 DEF Names
  <2> QED
    BY <2>1, <2>2
<1>3. /\ NoDir.id = 0 /\ NoJournal \in JournalType /\ NoJournal.token = 0
      /\ NoId \in [Roots -> Ids \cup {0}]
  BY Constants DEF NoId
<1>4. journal = NoJournal /\ authority = NoJournal /\ pinned = NoId /\ db = [ver |-> 0, rows |-> {}]
      /\ marker = 0 /\ phase = "down" /\ aim = "boot" /\ ensured = FALSE /\ attempts = 0
      /\ crashes = 0 /\ faults = 0 /\ exported = <<0, 0, 0>>
  BY DEF Init
<1>5. TypeOK
  <2>1. OtherTypes
    <3>1. ensured \in BOOLEAN
      BY <1>4
    <3>2. /\ db \in [ver : 0 .. MaxRestores, rows : SUBSET Assets]
          /\ marker \in 0 .. MaxRestores /\ attempts \in 0 .. MaxRestores
          /\ crashes \in 0 .. MaxCrashes /\ faults \in 0 .. MaxFaults
          /\ journal \in JournalType /\ authority \in JournalType
          /\ pinned \in [Roots -> Ids \cup {0}]
          /\ phase \in Phases /\ aim \in {"boot", "begin", "abort", "done", "export"}
      BY <1>3, <1>4, BoundsAreNaturals DEF Phases
    <3> QED
      BY <3>1, <3>2, Zenon DEF OtherTypes
  <2>2. Distinct
    BY <1>2, <1>3 DEF Distinct, Exists, Roots, Names
  <2> QED
    BY <1>1, <2>1, <2>2, TypeParts DEF DirsTyped
<1>6. Identified
  BY <1>2 DEF Identified, Names, Roots
<1>7. Settled
  BY <1>2, <1>3, <1>4 DEF Settled, Clear, Exists, Roots, Names
<1>8. Numbered /\ Authorized /\ Undecided /\ Decided
  BY <1>3, <1>4 DEF Numbered, Authorized, Undecided, Decided, Uncommitted
<1>9. Journaled /\ Staging /\ Recovering
  BY <1>4 DEF Journaled, Staging, Recovering, Making
<1>10. ExportsAreWhole
  BY <1>4 DEF ExportsAreWhole
<1> QED
  BY <1>5, <1>6, <1>7, <1>8, <1>9, <1>10 DEF IInv

\* The invariant is inductive.
LEMMA StepKeeps == IInv /\ [Next]_vars => IInv'
<1> SUFFICES ASSUME IInv, [Next]_vars
             PROVE  IInv'
  OBVIOUS
<1>1. DirsTyped /\ OtherTypes
  BY TypeParts DEF IInv
<1>2. DirsTyped' /\ Distinct' /\ Identified'
  BY DirsKept
<1>3. TypeOK'
  <2>1. OtherTypes'
    BY <1>1, <1>2, OtherTypesKept
  <2> QED
    BY <1>2, <2>1 DEF TypeOK, DirsTyped, Distinct, OtherTypes
<1> QED
  BY <1>2, <1>3, NumberedKept, AuthorizedKept, SettledKept, RootsKept, JournaledKept, StagingKept,
     RecoveringKept, ExportsKept DEF IInv

\* Whatever step a crash or a failure interrupts, journal, marker, rows and
\* directories stay in one of the three relations that a new server can finish.
THEOREM InductiveInvariant == Spec => []IInv
<1>1. Init => IInv
  BY InitHolds
<1>2. IInv /\ [Next]_vars => IInv'
  BY StepKeeps
<1> QED
  BY <1>1, <1>2, PTL DEF Spec

\* Each root has a complete tree of the workspace that the rows belong to.
LEMMA TreesSurvive == IInv => OneTreeAlwaysSurvives
<1> SUFFICES ASSUME IInv
             PROVE  OneTreeAlwaysSurvives
  OBVIOUS
<1>1. CASE journal.token = 0
  BY <1>1 DEF IInv, Settled, OneTreeAlwaysSurvives
<1>2. CASE Uncommitted
  BY <1>2 DEF IInv, Undecided, InPlace, SetAside, Old, OneTreeAlwaysSurvives
<1>3. CASE journal.token # 0 /\ ~ Uncommitted
  <2>1. db.ver \in Nat /\ journal.token \in Nat
    BY BoundsAreNaturals DEF IInv, TypeOK, JournalType
  <2>2. db.ver = journal.token
    BY <1>3, <2>1 DEF IInv, Numbered, Uncommitted
  <2> QED
    BY <1>3, <2>2 DEF IInv, Decided, Renewed, NewInPlace, OneTreeAlwaysSurvives
<1> QED
  BY <1>1, <1>2, <1>3

\* The workspace is never torn: settled it is all old or all new, on the way a
\* complete tree of each root survives, and exports are of one workspace.
THEOREM WorkspaceStaysWhole == Spec => []WorkspaceIsWhole
<1>1. IInv => WorkspaceIsWhole
  <2> SUFFICES ASSUME IInv
               PROVE  SettledIsWhole /\ OneTreeAlwaysSurvives
    BY DEF IInv, WorkspaceIsWhole
  <2>1. SettledIsWhole
    BY DEF IInv, SettledIsWhole, Settled, Whole, Clear, Names, Numbered
  <2>2. OneTreeAlwaysSurvives
    BY TreesSurvive
  <2> QED
    BY <2>1, <2>2
<1> QED
  BY <1>1, InductiveInvariant, PTL

\* No preflight of the native process refuses, in a recovery or in a restore, and
\* every tree that is not live belongs to the restore that the journal names.
THEOREM PreflightsAlwaysPass == Spec => []PreflightsPass
<1>1. IInv => PreflightsPass
  <2> SUFFICES ASSUME IInv
               PROVE  PreflightsPass
    OBVIOUS
  <2>1. /\ Distinct /\ Identified /\ OtherTypes /\ Numbered /\ Authorized /\ Settled /\ Undecided /\ Decided
        /\ Journaled /\ Staging /\ Recovering
    BY TypeParts DEF IInv
  <2>2. ASSUME phase = "rollback", ~ Recreated
        PROVE  AuthorityAgrees /\ \A r \in Roots : RollbackAllowed(r)
    <3>1. Uncommitted /\ journal.token # 0
      BY <2>1, <2>2 DEF Recovering, Uncommitted
    <3>2. AuthorityAgrees
      BY <2>1, <3>1 DEF Authorized, AuthorityAgrees
    <3>3. ASSUME NEW r \in Roots
          PROVE  RollbackAllowed(r)
      <4>1. journal.orig[r] # 0 /\ (Attested => journal.staged[r] # 0)
        BY <2>1, <3>1 DEF Numbered
      <4>2. CASE InPlace(r)
        BY <4>2 DEF RollbackAllowed, InPlace, Old, Exists
      <4>3. CASE SetAside(r)
        <5>1. dirs[r]["staged"].id \in {0, journal.staged[r]}
          BY <4>3 DEF SetAside, Missing, NewInPlace, Substituted, Stage, Exists
        <5>2. Swapped(r)
          <6>1. CASE Missing(r) \/ NewInPlace(r)
            BY <6>1 DEF Missing, NewInPlace, Swapped, Stage
          <6>2. CASE Substituted(r)
            <7>1. dirs[r]["live"].ver = Empty
              BY <2>2, <6>2 DEF Substituted, Recreated
            <7>2. dirs[r]["live"].id # journal.staged[r]
              BY <2>1, <6>2 DEF Substituted, Stage, Distinct, Names
            <7> QED
              BY <6>2, <7>1, <7>2 DEF Substituted, Swapped, Stage
          <6> QED
            BY <4>3, <6>1, <6>2 DEF SetAside
        <5> QED
          BY <4>1, <4>3, <5>1, <5>2 DEF RollbackAllowed, SetAside, Old
      <4> QED
        BY <2>1, <3>1, <4>2, <4>3 DEF Undecided
    <3> QED
      BY <3>2, <3>3
  <2>3. ASSUME phase \in {"refresh", "cleanup"}
        PROVE  Promoted /\ CleanupAllowed
    <3>1. Attested /\ \A r \in Roots : Renewed(r)
      BY <2>1, <2>3 DEF Recovering, Decided
    <3>2. Promoted
      BY <3>1 DEF Promoted, Renewed, NewInPlace, Stage
    <3>3. ASSUME NEW r \in Roots
          PROVE  /\ dirs[r]["staged"].id = 0 /\ dirs[r]["discarded"].ver = Empty
                 /\ dirs[r]["previous"].id \in {0, journal.orig[r]}
      BY <2>1, <3>1, Constants DEF Renewed, NewInPlace, Exists, Identified, Names
    <3> QED
      BY <3>1, <3>2, <3>3 DEF CleanupAllowed
  <2>4. RestoreNeverRefused
    <3>1. ASSUME phase = "prepare"
          PROVE  PrepareAllowed
      BY <2>1, <3>1 DEF Staging, Making, PrepareAllowed, Untouched, Exists, Names, Roots
    <3>2. ASSUME phase = "promote"
          PROVE  PromoteAllowed
      <4>1. journal.token # 0
        BY <2>1, <3>2 DEF Journaled, Making
      <4>2. /\ pinned = journal.orig /\ StagedIds = journal.staged /\ authority.staged = journal.staged
            /\ \A r \in Roots : Untouched(r)
        BY <2>1, <3>2, <4>1 DEF Staging, Making, Authorized
      <4>3. \A r \in Roots : dirs[r]["staged"].id = authority.staged[r]
        BY <4>2 DEF StagedIds
      <4> QED
        BY <4>2, <4>3 DEF PromoteAllowed, Untouched
    <3> QED
      BY <3>1, <3>2 DEF RestoreNeverRefused
  <2>5. ResidueIsJournaled
    BY <2>1 DEF ResidueIsJournaled, Settled, Clear, Names
  <2> QED
    BY <2>2, <2>3, <2>4, <2>5 DEF PreflightsPass, RecoveryNeverStuck
<1> QED
  BY <1>1, InductiveInvariant, PTL

-----------------------------------------------------------------------------
(* A restore happens at once.                                              *)

\* The current tree of a root belongs to the workspace of the rows.
CurrentIsWhole == \A r \in Roots : Current(r).ver = db.ver

\* Some tree of each root is current.
LEMMA CurrentStaysWhole == IInv => CurrentIsWhole
BY TreesSurvive DEF OneTreeAlwaysSurvives, Current, CurrentIsWhole

\* Where a tree has been set aside, what is live is not the workspace of the rows.
LEMMA AsideIsCurrent ==
  ASSUME IInv, Uncommitted, NEW r \in Roots, SetAside(r)
  PROVE  dirs[r]["live"].ver # db.ver
<1>1. db.ver \in Nat /\ journal.token \in Nat /\ Identified
  BY BoundsAreNaturals DEF IInv, TypeOK, JournalType
<1>2. CASE Missing(r)
  BY <1>1, <1>2, Constants DEF Missing, Identified, Exists, Names
<1>3. CASE NewInPlace(r)
  BY <1>1, <1>3 DEF NewInPlace, Uncommitted
<1>4. CASE Substituted(r)
  BY <1>1, <1>4, Constants DEF Substituted
<1> QED
  BY <1>2, <1>3, <1>4 DEF SetAside

\* Only a request and the commit change the current media tree: every rename
\* takes it with its files to the name where it is current again.
LEMMA CurrentKept ==
  ASSUME IInv, [Next]_vars, db' = db
  PROVE  Current("media")' = Current("media")
<1>1. /\ DirsTyped /\ Distinct /\ Identified /\ OtherTypes /\ Numbered /\ Undecided /\ Decided
      /\ Journaled /\ Staging /\ Recovering /\ "media" \in Roots /\ {"live", "previous"} \subseteq Names
  BY TypeParts DEF IInv, Roots, Names
<1>2. db.ver \in Nat /\ journal.token \in Nat
  BY <1>1, BoundsAreNaturals DEF OtherTypes, JournalType
<1>3. CASE \A n \in {"live", "previous"} : dirs'["media"][n] = dirs["media"][n]
  BY <1>3 DEF Current
<1>4. CASE UNCHANGED vars \/ Quiet
  BY <1>4, <1>3, QuietSteps DEF vars, durable
<1>5. CASE Start \/ ServerCrash
  <2>1. CASE Exists("media", "live")
    BY <1>1, <1>3, <1>5, <2>1, PlaceholderForms DEF Start, ServerCrash
  <2>2. CASE ~ Exists("media", "live")
    <3>1. /\ dirs'["media"]["live"] = EmptyDir(FreshIds["media"])
          /\ dirs'["media"]["previous"] = dirs["media"]["previous"]
      BY <1>1, <1>5, <2>2, PlaceholderForms DEF Start, ServerCrash
    <3>2. dirs["media"]["live"].ver = Empty /\ dirs'["media"]["live"].ver = Empty
      BY <1>1, <2>2, <3>1, Constants, NewIdentities DEF Identified, Exists
    <3> QED
      BY <1>2, <3>1, <3>2, Constants DEF Current
  <2> QED
    BY <2>1, <2>2
<1>6. CASE Undo
  <2>1. Uncommitted /\ \A r \in Roots : Sound(r)
    BY <1>1, <1>6 DEF Recovering, Undo, Undecided, Sound
  <2>2. ASSUME Exists("media", "previous"),
               \/ ~ Exists("media", "live") /\ dirs' = Move("media", "previous", "live")
               \/ dirs' = Move("media", "live", "staged")
               \/ Remade("media", "live", NoDir)
               \/ dirs' = Move("media", "live", "discarded")
        PROVE  Current("media")' = Current("media")
    <3>1. SetAside("media") /\ dirs["media"]["live"].ver # db.ver /\ dirs["media"]["previous"].ver = db.ver
      BY <1>1, <2>1, <2>2, AsideIsCurrent DEF Sound, InPlace, SetAside, Old
    <3>2. CASE dirs' = Move("media", "previous", "live")
      BY <1>1, <3>1, <3>2, Moved DEF Current
    <3>3. CASE /\ dirs'["media"]["live"] = NoDir
               /\ dirs'["media"]["previous"] = dirs["media"]["previous"]
      BY <1>2, <3>1, <3>3, Constants DEF Current
    <3>4. CASE Remade("media", "live", NoDir)
      BY <1>1, <3>3, <3>4 DEF Remade
    <3>5. CASE dirs' = Move("media", "live", "staged") \/ dirs' = Move("media", "live", "discarded")
      BY <1>1, <3>3, <3>5, Moved DEF Names
    <3> QED
      BY <2>2, <3>2, <3>4, <3>5
  <2>3. ASSUME NEW r \in Roots, r # "media",
               \/ dirs' = Move(r, "previous", "live") \/ dirs' = Move(r, "live", "staged")
               \/ Remade(r, "live", NoDir) \/ dirs' = Move(r, "live", "discarded")
        PROVE  Current("media")' = Current("media")
    <3>1. CASE Remade(r, "live", NoDir)
      BY <1>1, <1>3, <2>3, <3>1 DEF Remade
    <3>2. ASSUME NEW from \in Names, NEW to \in Names, from # to, dirs' = Move(r, from, to)
          PROVE  Current("media")' = Current("media")
      BY <1>1, <1>3, <2>3, <3>2, Moved
    <3> QED
      BY <2>3, <3>1, <3>2 DEF Names
  <2> QED
    BY <1>1, <1>3, <1>6, <2>2, <2>3, UndoForms
<1>7. CASE Sweep
  <2>1. dirs["media"]["live"].ver = db.ver
    <3>1. CASE Uncommitted
      BY <1>1, <1>7, <3>1 DEF Recovering, Sweep, InPlace, Old
    <3>2. CASE ~ Uncommitted
      BY <1>1, <1>2, <1>7, <3>2 DEF Recovering, Sweep, Decided, Renewed, NewInPlace, Numbered, Uncommitted
    <3> QED
      BY <3>1, <3>2
  <2>2. dirs'["media"]["live"] = dirs["media"]["live"]
    BY <1>1, <1>7, SweepForms DEF Remade
  <2> QED
    BY <2>1, <2>2 DEF Current
<1>8. CASE Prepare \/ PrepareConfig \/ PrepareFails
  BY <1>1, <1>3, <1>8, StagesAreMade DEF Remade
<1>9. CASE Fill
  BY <1>1, <1>3, <1>9, FillForms DEF OtherTypes, Names
<1>10. CASE Swap
  <2>1. /\ Swapping("media") /\ Uncommitted
    <3>1. journal.token = attempts /\ aim = "begin" /\ journal.token # 0
      BY <1>1, <1>10 DEF Journaled, Swap
    <3> QED
      BY <1>1, <1>10, <3>1 DEF Staging, Swap, Numbered, Uncommitted
  <2>2. CASE dirs' = dirs
    BY <1>3, <2>2
  <2>3. CASE \E r \in Roots : r # "media" /\ (dirs' = Move(r, "live", "previous") \/ dirs' = Move(r, "staged", "live"))
    <3>1. PICK r \in Roots : r # "media" /\ \/ dirs' = Move(r, "live", "previous")
                                             \/ dirs' = Move(r, "staged", "live")
      BY <2>3
    <3>2. {"live", "previous", "staged"} \subseteq Names
      BY DEF Names
    <3>3. dirs'["media"]["live"] = dirs["media"]["live"] /\ dirs'["media"]["previous"] = dirs["media"]["previous"]
      <4>1. CASE dirs' = Move(r, "live", "previous")
        BY <1>1, <3>1, <3>2, <4>1, Moved
      <4>2. CASE dirs' = Move(r, "staged", "live")
        BY <1>1, <3>1, <3>2, <4>2, Moved
      <4> QED
        BY <3>1, <4>1, <4>2
    <3> QED
      BY <1>3, <3>3
  <2>4. CASE Exists("media", "live") /\ "media" = NextToSwap /\ dirs' = Move("media", "live", "previous")
    <3>1. dirs'["media"]["live"] = NoDir /\ dirs'["media"]["previous"] = dirs["media"]["live"]
      BY <1>1, <2>4, Moved
    <3>2. ~ NewInPlace("media")
      <4>1. authority.staged = journal.staged
        BY <1>1, <1>10 DEF IInv, Authorized, Staging, Swap, Journaled
      <4> QED
        BY <2>4, <4>1 DEF NextToSwap, NewInPlace, Stage
    <3>3. InPlace("media")
      BY <2>1, <2>4, <3>2 DEF Swapping, Missing
    <3> QED
      BY <1>2, <3>1, <3>3, Constants DEF InPlace, Old, Current
  <2>5. CASE ~ Exists("media", "live") /\ dirs' = Move("media", "staged", "live")
    <3>1. /\ dirs'["media"]["live"] = dirs["media"]["staged"]
          /\ dirs'["media"]["previous"] = dirs["media"]["previous"]
      BY <1>1, <2>5, Moved DEF Names
    <3>2. dirs["media"]["live"].ver = Empty
      BY <1>1, <2>5, Constants DEF Identified, Exists
    <3>3. dirs["media"]["staged"].ver = attempts /\ journal.token = attempts
      <4>1. journal.orig["media"] # 0 /\ journal.staged["media"] # 0
        BY <1>1, <1>10, <2>1 DEF Numbered, Uncommitted, Staging, Swap
      <4>2. ~ InPlace("media") /\ ~ NewInPlace("media")
        BY <2>5, <4>1 DEF InPlace, NewInPlace, Old, Stage, Exists
      <4> QED
        BY <1>1, <1>10, <2>1, <4>2 DEF Swapping, Fresh, Journaled, Swap
    <3> QED
      BY <1>2, <2>1, <3>1, <3>2, <3>3, Constants DEF Current, Uncommitted
  <2> QED
    BY <1>10, <2>2, <2>3, <2>4, <2>5, SwapForms
<1>11. ~ \E a \in Assets : AddAsset(a)
  BY <1>1 DEF AddAsset, OtherTypes
<1>12. CASE AddAssetRefused
  <2>1. dirs'["media"]["previous"] = dirs["media"]["previous"]
    BY <1>1, <1>12, AssetForms DEF Remade
  <2>2. dirs'["media"]["live"].ver = Partial
    BY <1>1, <1>12, AssetForms DEF Remade, EmptyDir
  <2>3. dirs["media"]["live"].ver = Empty
    BY <1>1, <1>12, Constants DEF Identified, AddAssetRefused, Exists
  <2> QED
    BY <1>2, <2>1, <2>2, <2>3, Constants DEF Current
<1> QED
  BY <1>4, <1>5, <1>6, <1>7, <1>8, <1>9, <1>10, <1>11, <1>12, StepCases

\* A request adds to rows and files of the current workspace together.
LEMMA AddRefines ==
  ASSUME SplitIsLeftAlone, IInv, CurrentIsWhole, CurrentIsWhole', [Next]_vars, NEW a \in Assets, AddAsset(a)
  PROVE  Abstract!Add(a)
<1>1. /\ DirsTyped /\ OtherTypes /\ "media" \in Roots /\ "live" \in Names
      /\ dirs["media"]["live"].ver = db.ver
  BY TypeParts DEF IInv, AddAsset, Whole, Roots, Names
<1> DEFINE d == [dirs["media"]["live"] EXCEPT !.files = @ \cup {a}]
<1>2. dirs["media"]["live"] \in Dir
  BY <1>1 DEF DirsTyped
<1>3. d.ver = db.ver /\ d.files = dirs["media"]["live"].files \cup {a}
  BY <1>1, <1>2 DEF Dir
<1>4. dirs'["media"]["live"] = d
  BY <1>1, AssetForms DEF Remade
<1>5. db'.ver = db.ver /\ db'.rows = db.rows \cup {a} /\ a \notin db.rows
  BY <1>1 DEF AddAsset, OtherTypes
<1> HIDE DEF d
<1>6. Current("media")'.files = Current("media").files \cup {a}
  BY <1>1, <1>3, <1>4, <1>5 DEF Current
<1> QED
  BY <1>5, <1>6 DEF Abstract!Add, CurrentIsWhole, Roots

\* The commit replaces all three parts.
LEMMA CommitRefines ==
  ASSUME IInv, CurrentIsWhole', Commits
  PROVE  Abstract!Replace(attempts) /\ attempts \in 1 .. MaxRestores
<1>1. /\ OtherTypes /\ journal.token = attempts /\ journal.token # 0 /\ db.ver < attempts
      /\ Renewed("media") /\ Fresh(dirs["media"]["live"])
  BY TypeParts DEF IInv, Commits, Staging, Journaled, Numbered, Roots
<1>2. attempts \in 1 .. MaxRestores
  BY <1>1, BoundsAreNaturals DEF OtherTypes
<1>3. db'.ver = attempts /\ db'.rows = {} /\ dirs' = dirs
  BY DEF Commits
<1>4. Current("media")'.files = {}
  BY <1>1, <1>3 DEF Current, Fresh
<1> QED
  BY <1>1, <1>2, <1>3, <1>4 DEF Abstract!Replace, CurrentIsWhole, Roots

\* Every other step changes no part.
LEMMA StepRefines ==
  ASSUME SplitIsLeftAlone, IInv, CurrentIsWhole, CurrentIsWhole', [Next]_vars
  PROVE  [Abstract!Next]_(Abstract!vars)
<1>1. OtherTypes
  BY TypeParts DEF IInv
<1>2. CASE db' = db
  <2>1. Current("media")' = Current("media")
    BY <1>2, CurrentKept
  <2> QED
    BY <1>2, <2>1 DEF Abstract!vars, CurrentIsWhole, Roots
<1>3. CASE Commits
  BY <1>3, CommitRefines DEF Abstract!Next
<1>4. CASE \E a \in Assets : AddAsset(a)
  BY <1>4, AddRefines DEF Abstract!Next
<1> QED
  BY <1>1, <1>2, <1>3, <1>4, DurableForms DEF Journals, Attests, Unjournals, Unmarks, Adds

\* When nobody adds an asset to a workspace whose parts disagree, a restore
\* happens at once or not at all, whatever crashes and failures it meets.
THEOREM RestoresAreAtomic ==
  ASSUME SplitIsLeftAlone
  PROVE  Spec => ImplementsAtomicWorkspace
<1>1. Init => Abstract!Init
  <2> SUFFICES ASSUME Init
               PROVE  Abstract!Init
    OBVIOUS
  <2>1. \A r \in Roots : dirs[r]["live"] = [id |-> IF r = "media" THEN 1 ELSE 2, ver |-> 0, files |-> {}]
    BY DEF Init, Names
  <2>2. ASSUME NEW r \in Roots
        PROVE  dirs[r]["live"].ver = 0 /\ dirs[r]["live"].files = {}
    <3>1. PICK i : dirs[r]["live"] = [id |-> i, ver |-> 0, files |-> {}]
      BY <2>1
    <3> QED
      BY <3>1
  <2>3. db = [ver |-> 0, rows |-> {}]
    BY DEF Init
  <2>4. \A r \in Roots : Current(r).ver = 0 /\ Current(r).files = {}
    BY <2>2, <2>3 DEF Current
  <2> QED
    BY <2>3, <2>4 DEF Abstract!Init, Roots
<1>2. IInv => CurrentIsWhole
  BY CurrentStaysWhole
<1>3. IInv /\ CurrentIsWhole /\ CurrentIsWhole' /\ [Next]_vars => [Abstract!Next]_(Abstract!vars)
  BY StepRefines
<1> QED
  BY <1>1, <1>2, <1>3, InductiveInvariant, PTL DEF Spec, ImplementsAtomicWorkspace, Abstract!Spec
===============================================================================
