------------------------ MODULE ModelDownloadsProofs ------------------------
(***************************************************************************)
(* What holds of the downloads, the deletions and the stop of the bridge   *)
(* for every set of jobs and destinations, every assignment of the one to  *)
(* the other, and any number of starts, faults and restarts: a destination *)
(* has one writer, a stop leaves nobody behind, and what a job says of its *)
(* end is what happened.                                                   *)
(***************************************************************************)
EXTENDS ModelDownloads, FiniteSetTheorems, SequenceTheorems, TLAPS

Statuses == Terminal \cup Active \cup {"none"}
Reasons == {"none", "step", "stopped"}
JobTable == [Jobs -> [status : Statuses, owns : BOOLEAN, cancel : BOOLEAN, why : Reasons]]
Tasks == Working \cup {"none", "reserved", "over"}
Stages == {"idle", "acquire", "settle", "cancel", "poll", "renew", "stage", "commit", "release",
           "done", "gone"}
Names == Dests \X {"file", "part"}
Takings == Dests \X {"file", "part"} \X {"none", "good", "wrong", "partial", "whole"}

\* The table of jobs with its history, the tasks, the disk and the bridge.
TableTypes ==
  /\ job \in JobTable /\ finished \in Seq(Jobs) /\ told \subseteq Jobs
  /\ In(finished) = {j \in Jobs : job[j].status \in Terminal}
OtherTypes ==
  /\ asked \subseteq Jobs /\ task \in [Jobs -> Tasks]
  /\ bridge \in {"open", "revoked", "draining", "drained"}
DiskTypes ==
  /\ file \in [Dests -> {"none", "good", "wrong"}]
  /\ part \in [Dests -> {"none", "partial", "whole", "wrong"}]
DelTypes ==
  /\ lease \in [Dests -> Deletions \cup {None}]
  /\ del \in [Deletions -> [at : Stages, left : SUBSET (Dests \cup Jobs \cup Names),
                            taken : SUBSET Takings, beats : BOOLEAN]]
  /\ \A x \in Deletions : /\ del[x].at \in {"cancel", "commit", "release", "done"} => del[x].left \subseteq Jobs
                          /\ del[x].at = "stage" => del[x].left \subseteq Names

\* A destination is owned by one active job, and a task that can still touch
\* it belongs to the owner.
Owners ==
  /\ \A j \in Jobs : job[j].owns => job[j].status \in Active
  /\ \A j, k \in Jobs : job[j].owns /\ job[k].owns /\ D(j) = D(k) => j = k
  /\ \A j \in Jobs : task[j] \in Working \cup {"reserved"} => job[j].owns
  /\ \A j \in Jobs : job[j].status = "none" => task[j] = "none"

\* What a deletion has renewed stays leased to it, and nobody's download.
Safe(x, d) == lease[d] = x /\ \A j \in Jobs : job[j].owns => D(j) # d
Leases ==
  \A x \in Deletions :
    /\ del[x].at = "renew" => \A d \in FilesOf[x] \ del[x].left : Safe(x, d)
    /\ del[x].at \in {"stage", "commit"} /\ del[x].beats => \A d \in FilesOf[x] : Safe(x, d)

Counted == {j \in Jobs : task[j] \notin {"none", "reserved"}}
Stops ==
  /\ active = Cardinality(Counted)
  /\ bridge \in {"draining", "drained"} => ~ Handling
  /\ bridge = "drained" => active = 0

IInv == TableTypes /\ OtherTypes /\ DiskTypes /\ DelTypes /\ Owners /\ Leases /\ Stops

-----------------------------------------------------------------------------
(* Sequences and the count of tasks.                                       *)

LEMMA InAppend ==
  ASSUME NEW S, NEW s \in Seq(S), NEW e \in S
  PROVE  Append(s, e) \in Seq(S) /\ In(Append(s, e)) = In(s) \cup {e}
<1> DEFINE t == Append(s, e)
<1>1. t \in Seq(S) /\ Len(t) = Len(s) + 1 /\ t[Len(s) + 1] = e /\ \A i \in 1 .. Len(s) : t[i] = s[i]
  BY AppendProperties
<1>2. Len(s) \in Nat
  OBVIOUS
<1>3. 1 .. Len(t) = (1 .. Len(s)) \cup {Len(s) + 1}
  BY <1>1, <1>2
<1> HIDE DEF t
<1>4. In(t) = In(s) \cup {e}
  BY <1>1, <1>3 DEF In
<1> QED
  BY <1>1, <1>4 DEF t

\* What is left of a sequence when its first n elements go.
LEMMA InDropped ==
  ASSUME NEW S, NEW s \in Seq(S), NEW n \in 0 .. Len(s)
  PROVE  /\ SubSeq(s, n + 1, Len(s)) \in Seq(S)
         /\ In(SubSeq(s, n + 1, Len(s))) \subseteq In(s)
         /\ \A e \in In(s) \ In(SubSeq(s, n + 1, Len(s))) : \E i \in 1 .. n : e = s[i]
<1> DEFINE t == SubSeq(s, n + 1, Len(s))
<1>1. Len(s) \in Nat /\ n \in Nat /\ n <= Len(s) /\ \A i \in 1 .. Len(s) : s[i] \in S
  OBVIOUS
<1>2. t \in Seq(S) /\ Len(t) = Len(s) - n /\ \A i \in 1 .. Len(s) - n : t[i] = s[n + i]
  <2>1. \A i \in n + 1 .. Len(s) : s[i] \in S
    BY <1>1
  <2>2. /\ t \in Seq(S)
        /\ Len(t) = IF n + 1 <= Len(s) THEN Len(s) - (n + 1) + 1 ELSE 0
        /\ \A i \in 1 .. Len(s) - (n + 1) + 1 : t[i] = s[n + 1 + i - 1]
    BY <1>1, <2>1, SubSeqProperties
  <2> QED
    BY <1>1, <2>2
<1> HIDE DEF t
<1>3. In(t) \subseteq In(s)
  <2> SUFFICES ASSUME NEW i \in 1 .. Len(t)  PROVE t[i] \in In(s)
    BY DEF In
  <2>1. i \in 1 .. Len(s) - n /\ n + i \in 1 .. Len(s)
    BY <1>1, <1>2
  <2> QED
    BY <1>2, <2>1 DEF In
<1>4. ASSUME NEW e \in In(s) \ In(t)  PROVE \E i \in 1 .. n : e = s[i]
  <2>1. PICK i \in 1 .. Len(s) : e = s[i]
    BY DEF In
  <2>2. CASE i > n
    <3>1. i - n \in 1 .. Len(t) /\ t[i - n] = s[i]
      BY <1>1, <1>2, <2>1, <2>2
    <3> QED
      BY <2>1, <3>1 DEF In
  <2> QED
    BY <1>1, <2>1, <2>2
<1> QED
  BY <1>2, <1>3, <1>4 DEF t

LEMMA CountedFinite == IsFiniteSet(Counted) /\ Cardinality(Counted) \in Nat
BY FS_Subset, FS_CardinalityType, JobsFinite, Counted \in SUBSET Jobs DEF Counted

-----------------------------------------------------------------------------
(* The table of jobs.                                                      *)

\* A step that gives no destination a new owner and keeps what a job has ended with.
NoNewOwner == \A j \in Jobs : job'[j].owns => job[j].owns /\ job'[j].status \in Active
SameOwners == \A j \in Jobs : job'[j].owns = job[j].owns /\ job'[j].status = job[j].status

LEMMA CanceledKeeps ==
  ASSUME TableTypes, NEW js, job' = Canceled(js), finished' = finished, told' \subseteq Jobs
  PROVE  TableTypes' /\ SameOwners
<1>1. \A j \in Jobs : /\ job'[j] \in [status : Statuses, owns : BOOLEAN, cancel : BOOLEAN, why : Reasons]
                      /\ job'[j].owns = job[j].owns /\ job'[j].status = job[j].status
  BY DEF TableTypes, JobTable, Canceled
<1>2. job' \in JobTable
  BY <1>1 DEF Canceled, JobTable
<1> QED
  BY <1>1, <1>2 DEF TableTypes, SameOwners

LEMMA RequestKeeps ==
  ASSUME TableTypes, NEW j \in Jobs, RequestCancel(j)
  PROVE  TableTypes' /\ SameOwners
<1>1. CASE job[j].status = "none"
  <2>1. UNCHANGED <<job, finished>> /\ told' \subseteq Jobs
    BY <1>1 DEF RequestCancel, TableTypes
  <2> QED
    BY <2>1 DEF TableTypes, SameOwners, In
<1>2. CASE job[j].status # "none"
  <2>1. job' = Canceled({j}) /\ finished' = finished /\ told' \subseteq Jobs
    BY <1>2 DEF RequestCancel, TableTypes
  <2> QED
    BY <2>1, CanceledKeeps
<1> QED
  BY <1>1, <1>2

LEMMA WithIs ==
  ASSUME job \in JobTable, NEW j \in Jobs, NEW status \in Statuses, NEW why \in Reasons
  PROVE  /\ With(j, status, why) \in JobTable
         /\ With(j, status, why)[j].status = status
         /\ status \in Terminal => With(j, status, why)[j].owns = FALSE
         /\ status \notin Terminal => With(j, status, why)[j].owns = TRUE
         /\ \A k \in Jobs \ {j} : With(j, status, why)[k] = job[k]
<1> DEFINE Row == [status : Statuses, owns : BOOLEAN, cancel : BOOLEAN, why : Reasons]
           new == [job[j] EXCEPT !.status = status, !.owns = status \notin Terminal,
                              !.why = IF status = "error" THEN why ELSE "none"]
<1>1. With(j, status, why) = [job EXCEPT ![j] = new]
  BY DEF With, JobTable
<1>2. job[j] \in Row
  BY DEF JobTable
<1>3. /\ new \in Row /\ new.status = status
      /\ status \in Terminal => new.owns = FALSE
      /\ status \notin Terminal => new.owns = TRUE
  BY <1>2 DEF Reasons
<1> HIDE DEF new, Row
<1>4. job \in [Jobs -> Row] /\ JobTable = [Jobs -> Row]
  BY DEF JobTable, Row
<1> QED
  BY <1>1, <1>3, <1>4

\* What committing a status may make of the table.
Outcome(new, j, status) ==
  /\ new \in JobTable
  /\ \A k \in Jobs \ {j} : new[k] = job[k]
  /\ job[j].status \in Terminal \cup {"none"} =>
       new[j].status = job[j].status /\ new[j].owns = job[j].owns
  /\ job[j].status \in Active /\ status = "downloading" =>
       new[j].status \in Active /\ new[j].owns = TRUE
  /\ job[j].status \in Active /\ status \in Terminal =>
       new[j].status \in Terminal /\ new[j].owns = FALSE

LEMMA WithOutcome ==
  ASSUME job \in JobTable, NEW j \in Jobs, NEW why \in Reasons, NEW status \in Statuses,
         NEW wanted \in Terminal \cup {"downloading"},
         wanted = "downloading" <=> status = "downloading", status \in Terminal \cup {"downloading"},
         job[j].status \in Terminal \cup {"none"} => job[j].status = status /\ job[j].owns = FALSE
  PROVE  Outcome(With(j, status, why), j, wanted)
<1> DEFINE new == With(j, status, why)
<1>1. /\ new \in JobTable
      /\ new[j].status = status
      /\ status \in Terminal => new[j].owns = FALSE
      /\ status \notin Terminal => new[j].owns = TRUE
      /\ \A k \in Jobs \ {j} : new[k] = job[k]
  BY WithIs, Zenon
<1> HIDE DEF new
<1>2. "downloading" \in Active /\ "downloading" \notin Terminal \cup {"none"}
  BY DEF Terminal, Active
<1>3. Outcome(new, j, wanted)
  BY <1>1, <1>2 DEF Outcome
<1> QED
  BY <1>3 DEF new

LEMMA CommittedIs ==
  ASSUME job \in JobTable, Owners, NEW j \in Jobs, NEW why \in Reasons,
         NEW status \in Terminal \cup {"downloading"}, status = "downloading" => job[j].owns = TRUE
  PROVE  Outcome(Committed(j, status, why), j, status)
<1> DEFINE new == Committed(j, status, why)
<1>1. status \in Statuses /\ "canceled" \in Statuses /\ "canceled" \in Terminal /\ "canceled" # "downloading"
      /\ "downloading" \in Active /\ (status = "downloading" <=> status \notin Terminal)
  BY DEF Statuses, Terminal, Active
<1>2. Active \cap (Terminal \cup {"none"}) = {} /\ job[j].status \in Terminal \cup {"none"} \cup Active
  BY DEF JobTable, Statuses, Terminal, Active
<1>3. job[j].owns \in BOOLEAN /\ (job[j].status \notin Active => job[j].owns = FALSE)
  BY DEF JobTable, Owners
<1>4. CASE job[j].status \in Terminal \cup {"none"} /\ job[j].status # status
  <2>1. new = job
    BY <1>4 DEF Committed
  <2> QED
    BY <1>2, <1>4, <2>1 DEF Outcome
<1>5. CASE job[j].status \in Terminal \cup {"none"} /\ job[j].status = status
  <2>1. new = With(j, status, why)
    BY <1>5 DEF Committed
  <2>2. status \in Terminal /\ job[j].owns = FALSE
    BY <1>1, <1>2, <1>3, <1>5
  <2> QED
    BY <1>1, <1>5, <2>1, <2>2, WithOutcome
<1>6. CASE job[j].status \in Active
  <2>1. CASE job[j].cancel /\ status \notin Terminal
    <3>1. new = job
      BY <1>2, <1>6, <2>1 DEF Committed
    <3> QED
      BY <1>1, <1>2, <1>6, <2>1, <3>1 DEF Outcome
  <2>2. CASE job[j].cancel /\ status \in Terminal
    <3>1. new = With(j, "canceled", why)
      BY <1>2, <1>6, <2>2 DEF Committed
    <3> QED
      BY <1>1, <1>2, <1>6, <2>2, <3>1, WithOutcome
  <2>3. CASE ~ job[j].cancel
    <3>1. new = With(j, status, why)
      BY <1>2, <1>6, <2>3 DEF Committed
    <3> QED
      <4>1. status \in Terminal \cup {"downloading"} /\ job[j].status \notin Terminal \cup {"none"}
        BY <1>2, <1>6
      <4> QED
        BY <1>1, <3>1, <4>1, WithOutcome
  <2> QED
    BY <2>1, <2>2, <2>3
<1> QED
  BY <1>2, <1>4, <1>5, <1>6

LEMMA CommitKeeps ==
  ASSUME TableTypes, Owners, NEW j \in Jobs, NEW why \in Reasons,
         NEW status \in Terminal \cup {"downloading"}, status = "downloading" => job[j].owns = TRUE,
         Commit(j, status, why)
  PROVE  TableTypes' /\ Outcome(job', j, status)
<1>1. Outcome(job', j, status) /\ told' = told
  BY CommittedIs DEF Commit, TableTypes
<1>2. Active \cap (Terminal \cup {"none"}) = {} /\ job[j].status \in Terminal \cup {"none"} \cup Active
      /\ job'[j].status \in Terminal \cup {"none"} \cup Active
  BY <1>1 DEF TableTypes, JobTable, Statuses, Terminal, Active, Outcome
<1>3. CASE job[j].status \in Active /\ job'[j].status \in Terminal
  <2>1. finished' = Append(finished, j)
    BY <1>3 DEF Commit
  <2>2. finished' \in Seq(Jobs) /\ In(finished') = In(finished) \cup {j}
    BY <2>1, InAppend DEF TableTypes
  <2>3. {k \in Jobs : job'[k].status \in Terminal} = {k \in Jobs : job[k].status \in Terminal} \cup {j}
    BY <1>1, <1>2, <1>3 DEF Outcome
  <2> QED
    BY <1>1, <2>2, <2>3 DEF TableTypes, Outcome, In
<1>4. CASE ~ (job[j].status \in Active /\ job'[j].status \in Terminal)
  <2>1. finished' = finished
    BY <1>4 DEF Commit
  <2>2. job'[j].status \in Terminal <=> job[j].status \in Terminal
    BY <1>1, <1>2, <1>4 DEF Outcome
  <2>3. {k \in Jobs : job'[k].status \in Terminal} = {k \in Jobs : job[k].status \in Terminal}
    BY <1>1, <2>2 DEF Outcome
  <2> QED
    BY <1>1, <2>1, <2>3 DEF TableTypes, Outcome, In
<1> QED
  BY <1>3, <1>4

-----------------------------------------------------------------------------
(* What a step leaves of the other parts of the invariant.                 *)

LEMMA LeasesKept ==
  ASSUME Leases, NoNewOwner, UNCHANGED <<lease, del>>
  PROVE  Leases'
BY DEF Leases, Safe, NoNewOwner, D

LEMMA SameOwnersAreNotNew ==
  ASSUME Owners, SameOwners
  PROVE  NoNewOwner
BY DEF Owners, SameOwners, NoNewOwner

LEMMA OwnersKept ==
  ASSUME Owners, SameOwners, UNCHANGED task
  PROVE  Owners'
BY DEF Owners, SameOwners, D

LEMMA StopsKept ==
  ASSUME Stops, UNCHANGED <<task, active, bridge>>, asked' \subseteq asked \/ bridge = "open"
  PROVE  Stops'
BY DEF Stops, Counted, Handling

\* A task that is counted moves on and stays counted.
LEMMA CountedStays ==
  ASSUME Stops, OtherTypes, NEW j \in Jobs, task[j] \in Working \cup {"over"},
         NEW s \in Working \cup {"over"}, task' = [task EXCEPT ![j] = s],
         UNCHANGED <<active, bridge, asked>>
  PROVE  Stops'
<1>1. {"none", "reserved"} \cap (Working \cup {"over"}) = {}
  BY DEF Working
<1>2. \A k \in Jobs : task'[k] = IF k = j THEN s ELSE task[k]
  BY DEF OtherTypes
<1>3. Counted' = Counted
  BY <1>1, <1>2 DEF Counted
<1>4. \A k \in Jobs : task'[k] = "reserved" => task[k] = "reserved"
  BY <1>1, <1>2
<1> QED
  BY <1>3, <1>4 DEF Stops, Handling

LEMMA CountedGoes ==
  ASSUME Stops, OtherTypes, NEW j \in Jobs, task[j] = "over",
         task' = [task EXCEPT ![j] = "none"], active' = active - 1,
         UNCHANGED <<bridge, asked>>
  PROVE  Stops'
<1>1. \A k \in Jobs : task'[k] = IF k = j THEN "none" ELSE task[k]
  BY DEF OtherTypes
<1>2. Counted' = Counted \ {j} /\ j \in Counted
  BY <1>1 DEF Counted
<1>3. Cardinality(Counted') = Cardinality(Counted) - 1
  BY <1>2, CountedFinite, FS_RemoveElement
<1>4. active # 0
  BY <1>2, CountedFinite, FS_EmptySet DEF Stops
<1>5. \A k \in Jobs : task'[k] = "reserved" => task[k] = "reserved"
  BY <1>1
<1> QED
  BY <1>3, <1>4, <1>5 DEF Stops, Handling

-----------------------------------------------------------------------------
(* The steps of a task.  Each has one of four forms.                       *)

Proceeds(j) == task[j] \in Working /\ \E s \in Working \cup {"over"} : Goto(j, s)
Ends(j) == task[j] \in Working /\ \E status \in Terminal : End(j, status)
Streams(j) ==
  /\ task[j] \in Working /\ Commit(j, "downloading", "none")
  /\ task' = [task EXCEPT ![j] = "stream"]
Leaves(j) ==
  /\ task[j] = "over" /\ Commit(j, "error", "stopped")
  /\ task' = [task EXCEPT ![j] = "none"] /\ active' = active - 1

Works(j) == Proceeds(j) \/ Ends(j) \/ Streams(j)

LEMMA TaskForms ==
  ASSUME NEW j \in Jobs, TaskStep(j)
  PROVE  Leaves(j) \/ (UNCHANGED active /\ Works(j))
<1> USE DEF Working, Terminal, Abandon, At, Works
<1>1. Begin(j) => Works(j)
  BY DEF Begin, Proceeds, Ends
<1>2. Trust(j) => Works(j)
  BY DEF Trust, Proceeds, Ends
<1>3. Distrust(j) => Works(j)
  BY DEF Distrust, Proceeds
<1>4. Connect(j) => Works(j)
  BY DEF Connect, Proceeds, Ends, Streams
<1>5. Stream(j) => Works(j)
  BY DEF Stream, Proceeds, Ends
<1>6. Hash(j) => Works(j)
  BY DEF Hash, Proceeds, Ends
<1>7. Rename(j) => Works(j)
  BY DEF Rename, Proceeds, Ends
<1>8. Publish(j) => Works(j)
  BY DEF Publish, Ends
<1>9. Discard(j) => Works(j)
  BY DEF Discard, Proceeds
<1>10. Failed(j) => Works(j)
  BY DEF Failed, Ends
<1>11. Panic(j) => Works(j)
  BY DEF Panic, Proceeds
<1>12. Drop(j) => Leaves(j)
  BY DEF Drop, Leaves
<1> QED
  BY <1>1, <1>2, <1>3, <1>4, <1>5, <1>6, <1>7, <1>8, <1>9, <1>10, <1>11, <1>12 DEF TaskStep

LEMMA TaskDisk ==
  ASSUME DiskTypes, NEW j \in Jobs, TaskStep(j)
  PROVE  DiskTypes'
<1>1. CASE UNCHANGED disk
  BY <1>1 DEF DiskTypes, disk
<1>2. CASE Distrust(j)
  BY <1>2 DEF Distrust, DiskTypes, At1
<1>3. CASE Connect(j)
  BY <1>1, <1>3 DEF Connect, DiskTypes, At1, KeepDisk
<1>4. CASE Stream(j)
  BY <1>4 DEF Stream, DiskTypes, At1
<1>5. CASE Rename(j)
  BY <1>1, <1>5 DEF Rename, DiskTypes, At1, KeepDisk
<1>6. CASE Discard(j)
  BY <1>6 DEF Discard, DiskTypes, At1
<1> QED
  BY <1>1, <1>2, <1>3, <1>4, <1>5, <1>6
     DEF TaskStep, Begin, Trust, Hash, Publish, Failed, Panic, Drop, KeepDisk

\* The task moves to s; its job may have ended, and has when s is past the work.
LEMMA MoveKeepsOwners ==
  ASSUME TableTypes, OtherTypes, Owners, TableTypes', NEW j \in Jobs, NEW s \in Tasks,
         task' = [task EXCEPT ![j] = s], s # "reserved",
         \A k \in Jobs \ {j} : job'[k] = job[k],
         job'[j].owns => job[j].owns /\ job'[j].status \in Active,
         s \in Working => job'[j].owns, job[j].status # "none" => job'[j].status # "none",
         job[j].status = "none" => s = "none"
  PROVE  Owners' /\ NoNewOwner
<1>1. \A k \in Jobs : task'[k] = IF k = j THEN s ELSE task[k]
  BY DEF OtherTypes
<1>2. NoNewOwner
  BY DEF NoNewOwner, Owners
<1>3. \A k, l \in Jobs : job'[k].owns /\ job'[l].owns /\ D(k) = D(l) => k = l
  BY <1>2 DEF NoNewOwner, Owners
<1>4. \A k \in Jobs : task'[k] \in Working \cup {"reserved"} => job'[k].owns
  BY <1>1 DEF Owners
<1>5. \A k \in Jobs : job'[k].status = "none" => task'[k] = "none"
  BY <1>1 DEF Owners
<1> QED
  BY <1>2, <1>3, <1>4, <1>5 DEF Owners, NoNewOwner, D

LEMMA TaskStepKeeps ==
  ASSUME IInv, NEW j \in Jobs, TaskStep(j)
  PROVE  IInv'
<1> USE DEF IInv
<1>1. Owners /\ OtherTypes /\ TableTypes /\ task[j] \in Tasks /\ UNCHANGED <<asked, lease, del, bridge>>
  BY DEF OtherTypes, TaskStep
<1>2. job[j].status \in Terminal \cup {"none"} \cup Active /\ Active \cap (Terminal \cup {"none"}) = {}
  BY DEF TableTypes, JobTable, Statuses, Terminal, Active
<1>3. /\ {"none", "reserved", "over"} \cap Working = {} /\ "stream" \in Working
      /\ Terminal \cap Active = {} /\ "none" \notin Terminal \cup Active
      /\ "error" \in Terminal /\ "downloading" \notin Terminal
  BY DEF Working, Terminal, Active
<1>4. task[j] \in Working => job[j].owns = TRUE /\ job[j].status \in Active
  BY DEF Owners, TableTypes, JobTable
<1>5. DiskTypes' /\ DelTypes'
  BY <1>1, TaskDisk DEF DelTypes
<1>6. ASSUME NEW s \in Tasks, s # "reserved", task' = [task EXCEPT ![j] = s], TableTypes', Stops',
             \A k \in Jobs \ {j} : job'[k] = job[k],
             job'[j].owns => job[j].owns /\ job'[j].status \in Active,
             s \in Working => job'[j].owns, job[j].status # "none" => job'[j].status # "none",
             job[j].status = "none" => s = "none"
      PROVE  IInv'
  <2>1. Owners' /\ NoNewOwner
    BY <1>1, <1>6, MoveKeepsOwners
  <2>2. Leases'
    BY <1>1, <2>1, LeasesKept
  <2>3. OtherTypes'
    BY <1>1, <1>6 DEF OtherTypes
  <2> QED
    BY <1>5, <1>6, <2>1, <2>2, <2>3
<1>7. CASE Proceeds(j) /\ UNCHANGED active
  <2>1. PICK s \in Working \cup {"over"} : task' = [task EXCEPT ![j] = s] /\ UNCHANGED table
    BY <1>7 DEF Proceeds, Goto
  <2>2. TableTypes' /\ job' = job
    BY <2>1 DEF TableTypes, table, In
  <2>3. Stops'
    BY <1>1, <1>7, <2>1, CountedStays DEF Proceeds
  <2>4. s \in Tasks /\ s # "reserved" /\ (job[j].status = "none" => s = "none")
    BY <1>3, <1>4, <1>7, <2>1 DEF Tasks, Proceeds
  <2> QED
    BY <1>4, <1>6, <1>7, <2>1, <2>2, <2>3, <2>4 DEF Proceeds
<1>8. CASE Ends(j) /\ UNCHANGED active
  <2>1. PICK status \in Terminal : Commit(j, status, "step") /\ task' = [task EXCEPT ![j] = "over"]
    BY <1>8 DEF Ends, End
  <2>2. TableTypes' /\ Outcome(job', j, status)
    BY <1>1, <1>3, <2>1, CommitKeeps DEF Reasons
  <2>3. Stops'
    BY <1>1, <1>8, <2>1, CountedStays DEF Ends
  <2>4. job'[j].status \in Terminal /\ job'[j].owns = FALSE /\ \A k \in Jobs \ {j} : job'[k] = job[k]
    BY <1>4, <1>8, <2>2 DEF Outcome, Ends
  <2> QED
    BY <1>2, <1>3, <1>4, <1>6, <1>8, <2>1, <2>2, <2>3, <2>4 DEF Tasks, Ends
<1>9. CASE Streams(j) /\ UNCHANGED active
  <2>1. Commit(j, "downloading", "none") /\ task' = [task EXCEPT ![j] = "stream"]
    BY <1>9 DEF Streams
  <2>2. TableTypes' /\ Outcome(job', j, "downloading")
    BY <1>1, <1>4, <1>9, <2>1, CommitKeeps DEF Reasons, Streams
  <2>3. Stops'
    BY <1>1, <1>3, <1>9, <2>1, CountedStays DEF Streams
  <2>4. job'[j].status \in Active /\ job'[j].owns = TRUE /\ \A k \in Jobs \ {j} : job'[k] = job[k]
    BY <1>4, <1>9, <2>2 DEF Outcome, Streams
  <2> QED
    BY <1>2, <1>3, <1>4, <1>6, <1>9, <2>1, <2>2, <2>3, <2>4 DEF Tasks, Streams
<1>10. CASE Leaves(j)
  <2>1. Commit(j, "error", "stopped") /\ task' = [task EXCEPT ![j] = "none"]
    BY <1>10 DEF Leaves
  <2>2. TableTypes' /\ Outcome(job', j, "error")
    BY <1>1, <1>3, <2>1, CommitKeeps DEF Reasons
  <2>3. Stops'
    BY <1>1, <1>10, CountedGoes DEF Leaves
  <2>4. job[j].status \in Active => job'[j].status \in Terminal /\ job'[j].owns = FALSE
    BY <1>3, <2>2 DEF Outcome
  <2>5. job[j].status \notin Active => job'[j].status = job[j].status /\ job'[j].owns = job[j].owns
    BY <1>2, <2>2 DEF Outcome
  <2>6. \A k \in Jobs \ {j} : job'[k] = job[k]
    BY <2>2 DEF Outcome
  <2>7. job'[j].owns => job[j].owns /\ job'[j].status \in Active
    BY <2>4, <2>5 DEF Owners
  <2>8. job[j].status # "none" => job'[j].status # "none"
    BY <1>3, <2>4, <2>5
  <2>9. "none" \in Tasks /\ "none" \notin Working
    BY <1>3 DEF Tasks
  <2> QED
    BY <1>6, <2>1, <2>2, <2>3, <2>6, <2>7, <2>8, <2>9
<1> QED
  BY <1>7, <1>8, <1>9, <1>10, TaskForms DEF Works

-----------------------------------------------------------------------------
(* Starts and cancels.                                                     *)

\* Forgetting the oldest of the history, and nothing else of the table.
Pruned(kept) == [k \in Jobs |-> IF k \in In(finished) \ In(kept) THEN NoJob ELSE job[k]]

LEMMA PrunedIs ==
  ASSUME TableTypes, Owners, NEW kept \in Histories
  PROVE  /\ kept \in Seq(Jobs) /\ Pruned(kept) \in JobTable
         /\ In(kept) = {k \in Jobs : Pruned(kept)[k].status \in Terminal}
         /\ \A k \in Jobs : \/ Pruned(kept)[k] = job[k]
                            \/ /\ Pruned(kept)[k].status = "none" /\ Pruned(kept)[k].owns = FALSE
                               /\ job[k].owns = FALSE /\ task[k] = "none"
<1>1. PICK n \in 0 .. Len(finished) : /\ kept = SubSeq(finished, n + 1, Len(finished))
                                     /\ \A i \in 1 .. n : task[finished[i]] = "none"
  BY DEF Histories
<1>2. finished \in Seq(Jobs) /\ job \in JobTable
  BY DEF TableTypes
<1>3. /\ kept \in Seq(Jobs) /\ In(kept) \subseteq In(finished)
      /\ \A e \in In(finished) \ In(kept) : \E i \in 1 .. n : e = finished[i]
  BY <1>1, <1>2, InDropped
<1>4. NoJob \in [status : Statuses, owns : BOOLEAN, cancel : BOOLEAN, why : Reasons]
      /\ NoJob.status = "none" /\ NoJob.owns = FALSE /\ "none" \notin Terminal
  BY DEF NoJob, Statuses, Reasons, Terminal, Active
<1>5. Pruned(kept) \in JobTable
  BY <1>2, <1>4 DEF Pruned, JobTable
<1>6. In(kept) = {k \in Jobs : Pruned(kept)[k].status \in Terminal}
  BY <1>3, <1>4 DEF Pruned, TableTypes
<1>7. ASSUME NEW k \in In(finished) \ In(kept)
      PROVE  k \in Jobs /\ task[k] = "none" /\ job[k].owns = FALSE
  <2>1. k \in Jobs /\ job[k].status \in Terminal
    BY <1>7 DEF TableTypes
  <2>2. job[k].owns \in BOOLEAN /\ ~ job[k].owns
    BY <1>2, <2>1 DEF JobTable, Owners, Terminal, Active
  <2> QED
    BY <1>1, <1>3, <1>7, <2>1, <2>2
<1>8. ASSUME NEW k \in Jobs
      PROVE  \/ Pruned(kept)[k] = job[k]
             \/ /\ Pruned(kept)[k].status = "none" /\ Pruned(kept)[k].owns = FALSE
                /\ job[k].owns = FALSE /\ task[k] = "none"
  BY <1>4, <1>7 DEF Pruned
<1> QED
  BY <1>3, <1>5, <1>6, <1>8

LEMMA ReserveKeeps ==
  ASSUME IInv, NEW j \in Jobs, Reserve(j)
  PROVE  IInv'
<1> USE DEF IInv
<1>1. PICK kept \in Histories :
        LET early == Pruned(kept)[j].status = "none" /\ j \in In(pending)
            Put(status) == [Pruned(kept) EXCEPT ![j] = [status |-> status, owns |-> status = "queued",
                                                 cancel |-> status = "canceled", why |-> "none"]]
        IN  /\ told' = told \ (In(finished) \ In(kept))
            /\ finished' = IF early THEN Append(kept, j) ELSE kept
            /\ \/ early /\ job' = Put("canceled") /\ UNCHANGED task
               \/ /\ Pruned(kept)[j].status = "none" /\ ~ early /\ Reservable(j)
                  /\ job' = Put("queued") /\ task' = [task EXCEPT ![j] = "reserved"]
               \/ ~ early /\ job' = Pruned(kept) /\ UNCHANGED task
  BY DEF Reserve, Pruned
<1> DEFINE rest == Pruned(kept)
           early == rest[j].status = "none" /\ j \in In(pending)
<1>2. /\ kept \in Seq(Jobs) /\ rest \in JobTable
      /\ In(kept) = {k \in Jobs : rest[k].status \in Terminal}
      /\ \A k \in Jobs : \/ rest[k] = job[k]
                         \/ /\ rest[k].status = "none" /\ rest[k].owns = FALSE
                            /\ job[k].owns = FALSE /\ task[k] = "none"
  BY PrunedIs
<1> HIDE DEF rest
<1>3. j \in asked /\ asked' \subseteq asked /\ asked' \subseteq Jobs /\ told' \subseteq Jobs
      /\ UNCHANGED <<active, disk, lease, del, bridge, budget>>
  BY <1>1 DEF Reserve, OtherTypes, TableTypes
<1>4. DiskTypes' /\ DelTypes' /\ bridge \notin {"draining", "drained"}
  BY <1>3 DEF DiskTypes, DelTypes, disk, Stops, Handling
<1>5. rest[j].status = "none" => rest[j].owns = FALSE /\ task[j] = "none"
  BY <1>2 DEF Owners, TableTypes, JobTable, Active
<1>6. "none" \notin Terminal \cup Active \cup Working /\ "queued" \in Active /\ "queued" \notin Terminal
      /\ "canceled" \in Terminal /\ Terminal \cap Active = {} /\ "reserved" \notin Working
  BY DEF Terminal, Active, Working
<1>7. \A k \in Jobs : rest[k].owns => job[k].owns /\ rest[k].status \in Active
  BY <1>2 DEF Owners
<1>8. CASE early /\ job' = [rest EXCEPT ![j] = [status |-> "canceled", owns |-> "canceled" = "queued",
                                           cancel |-> "canceled" = "canceled", why |-> "none"]] /\ UNCHANGED task
  <2>1. \A k \in Jobs : IF k = j THEN job'[k].status = "canceled" /\ job'[k].owns = FALSE
                        ELSE job'[k] = rest[k]
    BY <1>2, <1>8 DEF JobTable
  <2>2. job' \in JobTable
    BY <1>2, <1>8 DEF JobTable, Statuses, Terminal, Reasons
  <2>3. finished' = Append(kept, j)
    BY <1>1, <1>8 DEF rest
  <2>4. TableTypes'
    <3>1. finished' \in Seq(Jobs) /\ In(finished)' = In(kept) \cup {j}
      BY <1>2, <2>3, InAppend DEF In
    <3>2. {k \in Jobs : job'[k].status \in Terminal} = In(kept) \cup {j}
      BY <1>2, <1>6, <2>1
    <3> QED
      BY <1>3, <2>2, <3>1, <3>2 DEF TableTypes
  <2>5. Owners' /\ NoNewOwner
    BY <1>2, <1>5, <1>6, <1>7, <1>8, <2>1 DEF Owners, NoNewOwner, D
  <2>6. Leases'
    BY <1>3, <2>5, LeasesKept
  <2>7. OtherTypes' /\ Stops'
    BY <1>3, <1>4, <1>8 DEF OtherTypes, Stops, Counted
  <2> QED
    BY <1>4, <2>4, <2>5, <2>6, <2>7
<1>9. CASE /\ rest[j].status = "none" /\ ~ early /\ Reservable(j)
           /\ job' = [rest EXCEPT ![j] = [status |-> "queued", owns |-> "queued" = "queued",
                                     cancel |-> "queued" = "canceled", why |-> "none"]]
           /\ task' = [task EXCEPT ![j] = "reserved"]
  <2>1. \A k \in Jobs : IF k = j THEN job'[k].status = "queued" /\ job'[k].owns = TRUE
                        ELSE job'[k] = rest[k]
    BY <1>2, <1>9 DEF JobTable
  <2>2. job' \in JobTable
    BY <1>2, <1>9 DEF JobTable, Statuses, Active, Reasons
  <2>3. \A k \in Jobs : task'[k] = IF k = j THEN "reserved" ELSE task[k]
    BY <1>9 DEF OtherTypes
  <2>4. TableTypes'
    <3>1. finished' = kept
      BY <1>1, <1>9 DEF rest
    <3>2. {k \in Jobs : job'[k].status \in Terminal} = In(kept)
      BY <1>2, <1>6, <1>9, <2>1
    <3> QED
      BY <1>2, <1>3, <2>2, <3>1, <3>2 DEF TableTypes, In
  <2>5. lease[D(j)] = None /\ \A k \in Jobs : job[k].owns => D(k) # D(j)
    BY <1>9 DEF Reservable, D
  <2>6. Owners'
    <3>1. \A k \in Jobs : job'[k].owns => job'[k].status \in Active
      BY <1>6, <1>7, <2>1
    <3>2. \A k, l \in Jobs : job'[k].owns /\ job'[l].owns /\ D(k) = D(l) => k = l
      BY <1>7, <2>1, <2>5 DEF Owners
    <3>3. \A k \in Jobs : task'[k] \in Working \cup {"reserved"} => job'[k].owns
      BY <1>2, <1>6, <2>1, <2>3 DEF Owners
    <3>4. \A k \in Jobs : job'[k].status = "none" => task'[k] = "none"
      BY <1>2, <1>6, <2>1, <2>3 DEF Owners
    <3> QED
      BY <3>1, <3>2, <3>3, <3>4 DEF Owners, D
  <2>7. Leases'
    <3>1. \A x \in Deletions, d \in Dests : Safe(x, d) => Safe(x, d)'
      BY <1>3, <1>7, <2>1, <2>5, NoneIsNoDeletion DEF Safe, D
    <3>2. \A x \in Deletions : FilesOf[x] \subseteq Dests
      BY DestinationsAreKnown
    <3> QED
      BY <1>3, <3>1, <3>2 DEF Leases
  <2>8. Stops'
    BY <1>3, <1>4, <1>5, <1>9, <2>3 DEF Stops, Counted
  <2>9. OtherTypes'
    BY <1>3, <1>9 DEF OtherTypes, Tasks
  <2> QED
    BY <1>4, <2>4, <2>6, <2>7, <2>8, <2>9
<1>10. CASE ~ early /\ job' = rest /\ UNCHANGED task
  <2>1. finished' = kept
    BY <1>1, <1>10 DEF rest
  <2>2. TableTypes'
    BY <1>2, <1>3, <1>10, <2>1 DEF TableTypes, In
  <2>3. Owners' /\ NoNewOwner
    BY <1>2, <1>6, <1>7, <1>10 DEF Owners, NoNewOwner, D
  <2>4. Leases'
    BY <1>3, <2>3, LeasesKept
  <2>5. OtherTypes' /\ Stops'
    BY <1>3, <1>4, <1>10 DEF OtherTypes, Stops, Counted
  <2> QED
    BY <1>4, <2>2, <2>3, <2>4, <2>5
<1> QED
  BY <1>1, <1>8, <1>9, <1>10 DEF rest

\* A step that at most sets flags of jobs, while the disk and the deletions stay.
LEMMA FlagsKeep ==
  ASSUME IInv, TableTypes', SameOwners, OtherTypes', Stops', UNCHANGED <<task, disk, lease, del>>
  PROVE  IInv'
<1>1. DiskTypes' /\ DelTypes'
  BY DEF IInv, DiskTypes, DelTypes, disk
<1>2. Owners'
  BY OwnersKept DEF IInv
<1>3. Leases'
  BY LeasesKept, SameOwnersAreNotNew DEF IInv
<1> QED
  BY <1>1, <1>2, <1>3 DEF IInv

LEMMA SameTable ==
  ASSUME TableTypes, UNCHANGED <<job, finished>>, told' \subseteq Jobs
  PROVE  TableTypes' /\ SameOwners
BY DEF TableTypes, SameOwners, In

LEMMA SpawnKeeps ==
  ASSUME IInv, NEW j \in Jobs, Spawn(j)
  PROVE  IInv'
<1> USE DEF IInv
<1>1. task[j] = "reserved" /\ task' = [task EXCEPT ![j] = "spawned"] /\ active' = active + 1
      /\ UNCHANGED <<table, asked, disk, lease, del, bridge, budget>>
  BY DEF Spawn
<1>2. \A k \in Jobs : task'[k] = IF k = j THEN "spawned" ELSE task[k]
  BY <1>1 DEF OtherTypes
<1>3. "spawned" \in Working /\ {"none", "reserved"} \cap Working = {}
  BY DEF Working
<1>4. TableTypes' /\ DiskTypes' /\ DelTypes' /\ OtherTypes' /\ NoNewOwner
  BY <1>1, <1>3 DEF TableTypes, DiskTypes, DelTypes, OtherTypes, table, disk, In, NoNewOwner, Owners, Tasks
<1>5. Leases'
  BY <1>1, <1>4, LeasesKept
<1>6. Owners'
  BY <1>1, <1>2, <1>3 DEF Owners, D, table
<1>7. Counted' = Counted \cup {j} /\ j \notin Counted
  BY <1>1, <1>2 DEF Counted
<1>8. Cardinality(Counted') = Cardinality(Counted) + 1
  BY <1>7, CountedFinite, FS_AddElement
<1>9. bridge \notin {"draining", "drained"}
  BY <1>1 DEF Stops, Handling
<1> QED
  BY <1>1, <1>4, <1>5, <1>6, <1>8, <1>9 DEF Stops

LEMMA StartStepKeeps ==
  ASSUME IInv, NEW j \in Jobs, AskStart(j) \/ StartRefused(j) \/ CancelByUser(j)
  PROVE  IInv'
<1>1. CASE AskStart(j)
  <2>1. OtherTypes' /\ Stops' /\ TableTypes' /\ SameOwners
    BY <1>1, SameTable, StopsKept DEF IInv, AskStart, OtherTypes, TableTypes, table
  <2> QED
    BY <1>1, <2>1, FlagsKeep DEF AskStart
<1>2. CASE StartRefused(j)
  <2>1. OtherTypes' /\ Stops' /\ TableTypes' /\ SameOwners
    BY <1>2, SameTable, StopsKept DEF IInv, StartRefused, OtherTypes, TableTypes, table
  <2> QED
    BY <1>2, <2>1, FlagsKeep DEF StartRefused
<1>3. CASE CancelByUser(j)
  <2>1. OtherTypes' /\ Stops' /\ TableTypes' /\ SameOwners
    BY <1>3, RequestKeeps, StopsKept DEF IInv, CancelByUser, OtherTypes
  <2> QED
    BY <1>3, <2>1, FlagsKeep DEF CancelByUser
<1> QED
  BY <1>1, <1>2, <1>3

LEMMA PendingLapsesKeeps ==
  ASSUME IInv, PendingLapses
  PROVE  IInv'
<1>1. OtherTypes' /\ Stops' /\ TableTypes' /\ SameOwners
  BY SameTable, StopsKept DEF IInv, PendingLapses, OtherTypes, TableTypes
<1> QED
  BY <1>1, FlagsKeep DEF PendingLapses

-----------------------------------------------------------------------------
(* The bridge, and leases that run out.                                    *)

LEMMA BridgeStepKeeps ==
  ASSUME IInv, Revoke \/ Join \/ Drained
  PROVE  IInv'
<1>1. CASE Revoke
  <2>1. TableTypes' /\ SameOwners
    BY <1>1, CanceledKeeps DEF IInv, Revoke, TableTypes
  <2>2. OtherTypes' /\ Stops'
    BY <1>1 DEF IInv, Revoke, OtherTypes, Stops, Counted, Handling
  <2> QED
    BY <1>1, <2>1, <2>2, FlagsKeep DEF Revoke
<1>2. CASE Join
  <2>1. TableTypes' /\ SameOwners
    BY <1>2, CanceledKeeps DEF IInv, Join, TableTypes
  <2>2. OtherTypes' /\ Stops'
    BY <1>2 DEF IInv, Join, OtherTypes, Stops, Counted, Handling
  <2> QED
    BY <1>2, <2>1, <2>2, FlagsKeep DEF Join
<1>3. CASE Drained
  <2>1. TableTypes' /\ SameOwners
    BY <1>3, SameTable DEF IInv, Drained, TableTypes, table
  <2>2. OtherTypes' /\ Stops'
    BY <1>3 DEF IInv, Drained, OtherTypes, Stops, Counted, Handling
  <2> QED
    BY <1>3, <2>1, <2>2, FlagsKeep DEF Drained
<1> QED
  BY <1>1, <1>2, <1>3

LEMMA ExpireKeeps ==
  ASSUME IInv, NEW d \in Dests, Expire(d)
  PROVE  IInv'
<1> USE DEF IInv
<1>1. ~ Fresh(d) /\ lease' = [lease EXCEPT ![d] = None]
      /\ UNCHANGED <<job, finished, told, asked, task, active, disk, del, bridge>>
  BY DEF Expire, Frame, table
<1>2. TableTypes' /\ OtherTypes' /\ DiskTypes' /\ DelTypes' /\ Owners' /\ Stops'
  BY <1>1 DEF TableTypes, OtherTypes, DiskTypes, DelTypes, Owners, Stops, In, D, disk, Counted, Handling
<1>3. \A e \in Dests : e # d => lease'[e] = lease[e]
  BY <1>1 DEF DelTypes
<1>4. ASSUME NEW x \in Deletions, NEW e \in FilesOf[x], Safe(x, e),
             \/ del[x].at = "renew" /\ e \notin del[x].left
             \/ del[x].at \in {"stage", "commit"} /\ del[x].beats
      PROVE  Safe(x, e)'
  <2>1. e # d /\ e \in Dests
    BY <1>1, <1>4, DestinationsAreKnown DEF Fresh, Safe
  <2> QED
    BY <1>1, <1>3, <1>4, <2>1 DEF Safe, D
<1>5. Leases'
  BY <1>1, <1>4 DEF Leases
<1> QED
  BY <1>2, <1>5

-----------------------------------------------------------------------------
(* The steps of a deletion.                                                *)

DelType == [at : Stages, left : SUBSET (Dests \cup Jobs \cup Names), taken : SUBSET Takings, beats : BOOLEAN]

\* Only deletion x moves, to step, with left still to do.
MovedTo(x, step, left) ==
  /\ del' \in [Deletions -> DelType]
  /\ \A y \in Deletions \ {x} : del'[y] = del[y]
  /\ del'[x].at = step /\ del'[x].left = left

LEMMA MovedIs ==
  ASSUME DelTypes, NEW x \in Deletions, NEW step \in Stages,
         NEW left \in SUBSET (Dests \cup Jobs \cup Names), Moved(x, step, left)
  PROVE  MovedTo(x, step, left) /\ del'[x].beats = del[x].beats
BY DEF DelTypes, DelType, Moved, MovedTo

\* x touches no lease but its own or a free one, and what it says it has renewed is safe.
LEMMA DeletionKeeps ==
  ASSUME IInv, NEW x \in Deletions, TableTypes', SameOwners, DiskTypes', Frame,
         NEW step \in Stages, NEW left, MovedTo(x, step, left),
         step \in {"cancel", "commit", "release", "done"} => left \subseteq Jobs,
         step = "stage" => left \subseteq Names,
         lease' \in [Dests -> Deletions \cup {None}],
         \A d \in Dests : lease[d] \in {x, None} \/ lease'[d] = lease[d],
         step = "renew" => \A d \in FilesOf[x] \ left : Safe(x, d)',
         step \in {"stage", "commit"} /\ del'[x].beats => \A d \in FilesOf[x] : Safe(x, d)'
  PROVE  IInv'
<1> USE DEF IInv
<1>1. DelTypes'
  BY DEF DelTypes, MovedTo, DelType
<1>2. Owners' /\ NoNewOwner
  BY OwnersKept, SameOwnersAreNotNew DEF Frame
<1>3. OtherTypes' /\ Stops'
  BY DEF OtherTypes, Stops, Counted, Handling, Frame
<1>4. ASSUME NEW y \in Deletions \ {x}, NEW d \in FilesOf[y], Safe(y, d)  PROVE Safe(y, d)'
  <2>1. d \in Dests /\ y # None
    BY DestinationsAreKnown, NoneIsNoDeletion
  <2> QED
    BY <1>2, <1>4, <2>1 DEF Safe, NoNewOwner, D
<1>5. Leases'
  BY <1>4 DEF Leases, MovedTo
<1> QED
  BY <1>1, <1>2, <1>3, <1>5

LEMMA BeginDeletionKeeps ==
  ASSUME IInv, NEW x \in Deletions, BeginDeletion(x)
  PROVE  IInv'
<1>1. FilesOf[x] \subseteq Dests
  BY DestinationsAreKnown
<1>2. MovedTo(x, "acquire", FilesOf[x])
  BY <1>1 DEF IInv, BeginDeletion, MovedTo, DelTypes, DelType, NoDeletion, Stages, Takings
<1>3. TableTypes' /\ SameOwners /\ DiskTypes' /\ Frame /\ lease' = lease
  BY SameTable DEF IInv, BeginDeletion, table, disk, DiskTypes, TableTypes
<1> QED
  BY <1>2, <1>3, DeletionKeeps DEF IInv, DelTypes, Stages

LEMMA UnleasedIs ==
  ASSUME DelTypes, NEW x \in Deletions, NEW ds, ds \subseteq Held(x), lease' = Unleased(ds)
  PROVE  /\ lease' \in [Dests -> Deletions \cup {None}]
         /\ \A d \in Dests : lease[d] \in {x, None} \/ lease'[d] = lease[d]
BY DEF DelTypes, Unleased, Held

LEMMA AcquireKeeps ==
  ASSUME IInv, NEW x \in Deletions, Acquire(x)
  PROVE  IInv'
<1>1. TableTypes' /\ SameOwners /\ DiskTypes' /\ Frame
  BY SameTable DEF IInv, Acquire, table, disk, DiskTypes, TableTypes
<1>2. {"acquire", "done", "settle"} \subseteq Stages /\ {} \subseteq Jobs /\ DelTypes
      /\ del[x].left \subseteq Dests \cup Jobs \cup Names /\ lease \in [Dests -> Deletions \cup {None}]
  BY DEF Stages, IInv, DelTypes
<1>3. ASSUME NEW d \in del[x].left, lease[d] = None \/ lease[d] = x, lease' = [lease EXCEPT ![d] = x],
             Moved(x, "acquire", del[x].left \ {d})
      PROVE  IInv'
  <2>1. MovedTo(x, "acquire", del[x].left \ {d})
    BY <1>2, <1>3, MovedIs
  <2>2. lease' \in [Dests -> Deletions \cup {None}]
        /\ \A e \in Dests : lease[e] \in {x, None} \/ lease'[e] = lease[e]
    BY <1>2, <1>3
  <2> QED
    BY <1>1, <1>2, <2>1, <2>2, DeletionKeeps
<1>4. ASSUME lease' = Unleased(Held(x)), Moved(x, "done", {})  PROVE IInv'
  BY <1>1, <1>2, <1>4, MovedIs, UnleasedIs, DeletionKeeps
<1>5. ASSUME lease' = lease, NEW step \in {"done", "settle"}, Moved(x, step, {})  PROVE IInv'
  BY <1>1, <1>2, <1>5, MovedIs, DeletionKeeps
<1> QED
  BY <1>3, <1>4, <1>5 DEF Acquire

LEMMA SettleKeeps ==
  ASSUME IInv, NEW x \in Deletions, Settle(x)
  PROVE  IInv'
<1>1. TableTypes' /\ SameOwners /\ DiskTypes' /\ Frame /\ lease' = lease /\ DelTypes
      /\ lease \in [Dests -> Deletions \cup {None}]
  BY SameTable DEF IInv, Settle, table, disk, DiskTypes, TableTypes, DelTypes
<1>2. FilesOf[x] \subseteq Dests /\ ActiveOn(FilesOf[x]) \subseteq Jobs
  BY DestinationsAreKnown DEF ActiveOn
<1>3. CASE Moved(x, "renew", FilesOf[x])
  BY <1>1, <1>2, <1>3, MovedIs, DeletionKeeps DEF Stages
<1>4. CASE Moved(x, "cancel", ActiveOn(FilesOf[x]))
  BY <1>1, <1>2, <1>4, MovedIs, DeletionKeeps DEF Stages
<1>5. CASE Moved(x, "release", {})
  BY <1>1, <1>5, MovedIs, DeletionKeeps DEF Stages
<1> QED
  BY <1>3, <1>4, <1>5 DEF Settle

LEMMA CancelDownloadKeeps ==
  ASSUME IInv, NEW x \in Deletions, CancelDownload(x)
  PROVE  IInv'
<1>1. PICK j \in del[x].left : \E step \in {"cancel", "poll", "release", "done"} :
        /\ Moved(x, step, del[x].left \ {j})
        /\ RequestCancel(j) \/ UNCHANGED table
  BY DEF CancelDownload
<1>2. PICK step \in {"cancel", "poll", "release", "done"} : Moved(x, step, del[x].left \ {j})
  BY <1>1
<1>3. del[x].left \subseteq Jobs /\ DelTypes /\ UNCHANGED <<disk, lease>> /\ Frame
      /\ lease \in [Dests -> Deletions \cup {None}]
  BY DEF IInv, DelTypes, CancelDownload
<1>4. TableTypes' /\ SameOwners
  BY <1>1, <1>3, RequestKeeps, SameTable DEF IInv, table, TableTypes
<1>5. DiskTypes'
  BY <1>3 DEF IInv, DiskTypes, disk
<1>6. step \in Stages /\ step \notin {"renew", "stage", "commit"}
  BY <1>2 DEF Stages
<1>7. MovedTo(x, step, del[x].left \ {j})
  BY <1>2, <1>3, <1>6, MovedIs
<1> QED
  BY <1>3, <1>4, <1>5, <1>6, <1>7, DeletionKeeps

LEMMA PollKeeps ==
  ASSUME IInv, NEW x \in Deletions, Poll(x)
  PROVE  IInv'
<1>1. TableTypes' /\ SameOwners /\ DiskTypes' /\ Frame /\ lease' = lease /\ DelTypes
      /\ lease \in [Dests -> Deletions \cup {None}]
  BY SameTable DEF IInv, Poll, table, disk, DiskTypes, TableTypes, DelTypes
<1>2. FilesOf[x] \subseteq Dests
  BY DestinationsAreKnown
<1>3. CASE Moved(x, "renew", FilesOf[x])
  BY <1>1, <1>2, <1>3, MovedIs, DeletionKeeps DEF Stages
<1>4. CASE Moved(x, "release", {})
  BY <1>1, <1>4, MovedIs, DeletionKeeps DEF Stages
<1> QED
  BY <1>3, <1>4 DEF Poll

LEMMA RenewKeeps ==
  ASSUME IInv, NEW x \in Deletions, Renew(x)
  PROVE  IInv'
<1>1. TableTypes' /\ SameOwners /\ DiskTypes' /\ Frame /\ DelTypes /\ Leases /\ Owners /\ del[x].at = "renew"
  BY SameTable DEF IInv, Renew, table, disk, DiskTypes, TableTypes
<1>2. {"renew", "stage", "release"} \subseteq Stages /\ del[x].left \subseteq Dests \cup Jobs \cup Names
      /\ FilesOf[x] \X {"file", "part"} \subseteq Names /\ lease \in [Dests -> Deletions \cup {None}]
  BY <1>1, DestinationsAreKnown DEF Stages, DelTypes, Names
<1>3. \A d \in FilesOf[x] \ del[x].left : Safe(x, d)
  BY <1>1 DEF Leases
<1>4. \A d \in Dests : lease' = lease /\ Safe(x, d) => Safe(x, d)'
  BY <1>1 DEF Safe, SameOwners, D
<1>5. ASSUME NEW d \in del[x].left, Renewable(x, d), Moved(x, "renew", del[x].left \ {d}), lease' = lease
      PROVE  IInv'
  <2>1. MovedTo(x, "renew", del[x].left \ {d})
    BY <1>1, <1>2, <1>5, MovedIs
  <2>2. Safe(x, d)
    BY <1>1, <1>5 DEF Renewable, Safe, Owners, D
  <2>3. \A e \in FilesOf[x] \ (del[x].left \ {d}) : Safe(x, e)'
    BY <1>3, <1>4, <1>5, <2>2, DestinationsAreKnown
  <2> QED
    BY <1>1, <1>2, <1>5, <2>1, <2>3, DeletionKeeps
<1>6. ASSUME NEW ds, ds \subseteq Held(x), lease' = Unleased(ds), Moved(x, "release", {})
      PROVE  IInv'
  BY <1>1, <1>2, <1>6, MovedIs, UnleasedIs, DeletionKeeps
<1>7. ASSUME del[x].left = {}, Moved(x, "stage", FilesOf[x] \X {"file", "part"}), lease' = lease
      PROVE  IInv'
  <2>1. MovedTo(x, "stage", FilesOf[x] \X {"file", "part"})
    BY <1>1, <1>2, <1>7, MovedIs
  <2>2. \A e \in FilesOf[x] : Safe(x, e)'
    BY <1>3, <1>4, <1>7, DestinationsAreKnown
  <2> QED
    BY <1>1, <1>2, <1>7, <2>1, <2>2, DeletionKeeps
<1>8. ASSUME lease' = lease, Moved(x, "release", {})
      PROVE  IInv'
  BY <1>1, <1>2, <1>8, MovedIs, DeletionKeeps
<1>9. Held(x) \cap (FilesOf[x] \ del[x].left) \subseteq Held(x)
  OBVIOUS
<1> QED
  BY <1>5, <1>6, <1>7, <1>8, <1>9 DEF Renew

LEMMA BeatFailsKeeps ==
  ASSUME IInv, NEW x \in Deletions, BeatFails(x)
  PROVE  IInv'
<1>1. TableTypes' /\ SameOwners /\ DiskTypes' /\ Frame /\ DelTypes /\ lease' = lease
      /\ lease \in [Dests -> Deletions \cup {None}]
  BY SameTable DEF IInv, BeatFails, table, disk, DiskTypes, TableTypes, DelTypes
<1>2. del[x].at \in {"stage", "commit"} /\ del' = [del EXCEPT ![x].beats = FALSE]
  BY DEF BeatFails
<1>3. MovedTo(x, del[x].at, del[x].left) /\ del'[x].beats = FALSE /\ del[x].at \in Stages
  BY <1>1, <1>2 DEF MovedTo, DelTypes, DelType
<1>4. /\ del[x].at \in {"cancel", "commit", "release", "done"} => del[x].left \subseteq Jobs
      /\ del[x].at = "stage" => del[x].left \subseteq Names
  BY <1>1 DEF DelTypes
<1> QED
  BY <1>1, <1>2, <1>3, <1>4, DeletionKeeps

LEMMA StageKeeps ==
  ASSUME IInv, NEW x \in Deletions, Stage(x)
  PROVE  IInv'
<1>1. TableTypes' /\ SameOwners /\ Frame /\ DelTypes /\ Leases /\ lease' = lease /\ del[x].at = "stage"
      /\ lease \in [Dests -> Deletions \cup {None}]
  BY SameTable DEF IInv, Stage, table, TableTypes, DelTypes
<1>2. \A d \in Dests : Safe(x, d) => Safe(x, d)'
  BY <1>1 DEF Safe, SameOwners, D
<1>3. {"stage", "commit"} \subseteq Stages /\ del[x].left \subseteq Names /\ FilesOf[x] \subseteq Dests
  BY <1>1, DestinationsAreKnown DEF Stages, DelTypes
<1>4. del[x].beats => \A d \in FilesOf[x] : Safe(x, d)'
  BY <1>1, <1>2, <1>3 DEF Leases
<1>5. ASSUME NEW s \in del[x].left, NEW is, is = IF s[2] = "file" THEN file[s[1]] ELSE part[s[1]],
             del' = [del EXCEPT ![x].left = @ \ {s},
                                ![x].taken = IF is = "none" THEN @ ELSE @ \cup {<<s[1], s[2], is>>}],
             IF s[2] = "file" THEN file' = At1(s[1], file, "none") /\ UNCHANGED part
                              ELSE part' = At1(s[1], part, "none") /\ UNCHANGED file
      PROVE  IInv'
  <2>1. s[1] \in Dests /\ s[2] \in {"file", "part"}
    BY <1>3 DEF Names
  <2>2. is \in {"none", "good", "wrong", "partial", "whole"}
    BY <1>5, <2>1 DEF IInv, DiskTypes
  <2>3. <<s[1], s[2], is>> \in Takings
    BY <2>1, <2>2 DEF Takings
  <2>4. MovedTo(x, "stage", del[x].left \ {s}) /\ del'[x].beats = del[x].beats
    <3> DEFINE taken == IF is = "none" THEN del[x].taken ELSE del[x].taken \cup {<<s[1], s[2], is>>}
               d == [del[x] EXCEPT !.left = @ \ {s}, !.taken = taken]
    <3>1. del' = [del EXCEPT ![x] = d] /\ del \in [Deletions -> DelType] /\ del[x] \in DelType
      BY <1>1, <1>5 DEF DelTypes, DelType
    <3>2. taken \in SUBSET Takings
      BY <2>3, <3>1 DEF DelType
    <3> HIDE DEF taken
    <3>3. d \in DelType /\ d.at = "stage" /\ d.left = del[x].left \ {s} /\ d.beats = del[x].beats
      BY <1>1, <3>1, <3>2 DEF DelType
    <3> HIDE DEF d
    <3> QED
      BY <3>1, <3>3 DEF MovedTo
  <2>5. DiskTypes'
    BY <1>5 DEF IInv, DiskTypes, At1
  <2> QED
    BY <1>1, <1>3, <1>4, <2>4, <2>5, DeletionKeeps
<1>6. ASSUME Moved(x, "commit", {}), UNCHANGED disk
      PROVE  IInv'
  <2>1. MovedTo(x, "commit", {}) /\ del'[x].beats = del[x].beats
    BY <1>1, <1>3, <1>6, MovedIs
  <2>2. DiskTypes'
    BY <1>6 DEF IInv, DiskTypes, disk
  <2> QED
    BY <1>1, <1>3, <1>4, <2>1, <2>2, DeletionKeeps
<1> QED
  BY <1>5, <1>6 DEF Stage

LEMMA DecideKeeps ==
  ASSUME IInv, NEW x \in Deletions, Decide(x)
  PROVE  IInv'
<1>1. TableTypes' /\ SameOwners /\ Frame /\ DelTypes /\ lease' = lease
      /\ lease \in [Dests -> Deletions \cup {None}]
  BY SameTable DEF IInv, Decide, table, TableTypes, DelTypes
<1>2. DiskTypes'
  BY DEF IInv, Decide, PutBack, DiskTypes, disk
<1>3. "release" \in Stages /\ del[x].left \subseteq Jobs /\ del' = [del EXCEPT ![x].at = "release", ![x].taken = {}]
  BY <1>1 DEF Decide, DelTypes, Stages
<1>4. MovedTo(x, "release", del[x].left)
  BY <1>1, <1>3 DEF MovedTo, DelTypes, DelType
<1> QED
  BY <1>1, <1>2, <1>3, <1>4, DeletionKeeps

LEMMA ReleaseKeeps ==
  ASSUME IInv, NEW x \in Deletions, Release(x)
  PROVE  IInv'
<1>1. TableTypes' /\ SameOwners /\ DiskTypes' /\ Frame /\ DelTypes
  BY SameTable DEF IInv, Release, table, disk, DiskTypes, TableTypes
<1>2. "done" \in Stages /\ del[x].left \subseteq Jobs /\ Moved(x, "done", del[x].left)
  BY <1>1 DEF Release, DelTypes, Stages
<1>3. MovedTo(x, "done", del[x].left)
  BY <1>1, <1>2, MovedIs
<1>4. lease' = lease \/ lease' = Unleased(Held(x))
  BY DEF Release
<1>5. /\ lease' \in [Dests -> Deletions \cup {None}]
      /\ \A d \in Dests : lease[d] \in {x, None} \/ lease'[d] = lease[d]
  BY <1>1, <1>4, UnleasedIs DEF DelTypes
<1> QED
  BY <1>1, <1>2, <1>3, <1>5, DeletionKeeps

LEMMA RestartKeeps ==
  ASSUME IInv, Restart
  PROVE  IInv'
<1> USE DEF IInv
<1>1. TableTypes' /\ SameOwners /\ UNCHANGED <<asked, task, active, lease>> /\ bridge' = "open"
  BY SameTable DEF Restart, table, TableTypes
<1>2. DiskTypes'
  BY DEF Restart, PutBack, DiskTypes, disk
<1>3. \A x \in Deletions :
        /\ del'[x].at \notin {"renew", "stage", "commit"}
        /\ del'[x] \in DelType /\ del'[x].left = {}
  BY DEF Restart, Running, NoDeletion, DelTypes, DelType, Stages
<1>4. del' \in [Deletions -> DelType]
  BY <1>3 DEF Restart
<1>5. DelTypes'
  BY <1>1, <1>3, <1>4 DEF DelTypes, DelType
<1>6. Leases'
  BY <1>3 DEF Leases
<1>7. Owners' /\ OtherTypes' /\ Stops'
  BY <1>1, OwnersKept DEF OtherTypes, Stops, Counted, Handling
<1> QED
  BY <1>1, <1>2, <1>5, <1>6, <1>7

-----------------------------------------------------------------------------
(* The invariant, and the theorem.                                         *)

LEMMA InitHasIInv == Init => IInv
<1> SUFFICES ASSUME Init  PROVE IInv
  OBVIOUS
<1> USE DEF Init
<1>1. TableTypes
  BY DEF TableTypes, JobTable, NoJob, Statuses, Reasons, Terminal, Active, In
<1>2. OtherTypes /\ DiskTypes
  BY DEF OtherTypes, DiskTypes, Tasks
<1>3. DelTypes
  BY DEF DelTypes, NoDeletion, Stages, Takings
<1>4. Owners
  BY DEF Owners, NoJob, Working
<1>5. Leases
  BY DEF Leases, NoDeletion
<1>6. Counted = {}
  BY DEF Counted
<1>7. Stops
  BY <1>6, FS_EmptySet DEF Stops, Handling
<1> QED
  BY <1>1, <1>2, <1>3, <1>4, <1>5, <1>7 DEF IInv

LEMMA StutterKeeps == IInv /\ UNCHANGED vars => IInv'
<1> SUFFICES ASSUME IInv, UNCHANGED vars  PROVE IInv'
  OBVIOUS
<1>1. TableTypes' /\ SameOwners
  BY SameTable DEF IInv, vars, table, TableTypes
<1>2. OtherTypes' /\ Stops'
  BY DEF IInv, vars, OtherTypes, Stops, Counted, Handling
<1> QED
  BY <1>1, <1>2, FlagsKeep DEF vars

LEMMA StepKeepsIInv == IInv /\ [Next]_vars => IInv'
<1> SUFFICES ASSUME IInv, [Next]_vars  PROVE IInv'
  OBVIOUS
<1>1. ASSUME NEW j \in Jobs, AskStart(j) \/ StartRefused(j) \/ CancelByUser(j)  PROVE IInv'
  BY <1>1, StartStepKeeps
<1>2. ASSUME NEW j \in Jobs, Reserve(j)  PROVE IInv'
  BY <1>2, ReserveKeeps
<1>3. ASSUME NEW j \in Jobs, Spawn(j)  PROVE IInv'
  BY <1>3, SpawnKeeps
<1>4. ASSUME NEW j \in Jobs, TaskStep(j)  PROVE IInv'
  BY <1>4, TaskStepKeeps
<1>5. ASSUME NEW x \in Deletions, BeginDeletion(x) \/ DeletionStep(x) \/ BeatFails(x)  PROVE IInv'
  BY <1>5, BeginDeletionKeeps, BeatFailsKeeps, AcquireKeeps, SettleKeeps, CancelDownloadKeeps, PollKeeps,
     RenewKeeps, StageKeeps, DecideKeeps, ReleaseKeeps DEF DeletionStep
<1>6. CASE PendingLapses \/ \E d \in Dests : Expire(d)
  BY <1>6, PendingLapsesKeeps, ExpireKeeps
<1>7. CASE Revoke \/ Join \/ Drained \/ Restart
  BY <1>7, BridgeStepKeeps, RestartKeeps
<1>8. CASE UNCHANGED vars
  BY <1>8, StutterKeeps
<1> QED
  BY <1>1, <1>2, <1>3, <1>4, <1>5, <1>6, <1>7, <1>8 DEF Next

LEMMA IInvHolds == Spec => []IInv
BY InitHasIInv, StepKeepsIInv, PTL DEF Spec

LEMMA IInvSuffices == IInv => DownloadsAreApart
<1> SUFFICES ASSUME IInv  PROVE DownloadsAreApart
  OBVIOUS
<1> USE DEF IInv
<1>1. TypeOK
  BY CountedFinite DEF TypeOK, TableTypes, OtherTypes, DiskTypes, DelTypes, JobTable, Statuses, Reasons, Stops
<1>2. OneWriter
  <2>1. \A j, k \in Jobs : task[j] \in Working /\ task[k] \in Working /\ D(j) = D(k) => j = k
    BY DEF Owners
  <2>2. ASSUME NEW x \in Deletions, del[x].at \in {"stage", "commit"}, del[x].beats,
               NEW j \in Jobs, task[j] \in Working
        PROVE  D(j) \notin FilesOf[x]
    BY <2>2 DEF Leases, Safe, Owners
  <2> QED
    BY <2>1, <2>2 DEF OneWriter
<1>3. StopIsComplete
  <2>1. active = Cardinality({j \in Jobs : task[j] \notin {"none", "reserved"}})
    BY DEF Stops, Counted
  <2>2. ASSUME bridge = "drained", NEW j \in Jobs  PROVE task[j] = "none"
    <3>1. Counted = {} /\ ~ Handling
      BY <2>2, CountedFinite, FS_EmptySet DEF Stops
    <3> QED
      BY <3>1 DEF Counted, Handling
  <2>3. bridge = "drained" => ~ Handling
    BY DEF Stops
  <2> QED
    BY <2>1, <2>2, <2>3 DEF StopIsComplete
<1> QED
  BY <1>1, <1>2, <1>3 DEF DownloadsAreApart

\* Downloads, deletions and the stop keep apart (download.rs, models/[modelId]/route.ts,
\* http_bridge.rs) for any jobs, destinations and deletions: a destination has
\* one writer, and a drained bridge leaves no task and no handler behind.
THEOREM DownloadsKeepApart == Spec => []DownloadsAreApart
BY IInvHolds, IInvSuffices, PTL

-----------------------------------------------------------------------------
(* What the table says is true: the second inductive invariant.            *)

\* No id is remembered twice, and none whose job is known.
Remembered ==
  /\ pending \in Seq(Jobs)
  /\ \A m, n \in 1 .. Len(pending) : pending[m] = pending[n] => m = n
  /\ \A j \in In(pending) : job[j].status = "none"

\* Who was told of a cancel has it noted: at the job, or for the start to come.
Told ==
  \A j \in told : /\ job[j].status = "none" => j \in In(pending)
                  /\ job[j].status \in Active => job[j].cancel

\* Deletions are serial, and one takes what it finds at a name once.
Serial == \A x, y \in Deletions : Running(x) /\ Running(y) => x = y
Spoils ==
  \A x \in Deletions :
    /\ del[x].at \notin {"stage", "commit"} => del[x].taken = {}
    /\ del[x].at = "stage" => /\ del[x].left \subseteq FilesOf[x] \X {"file", "part"}
                              /\ \A s \in del[x].left : \A t \in del[x].taken : <<t[1], t[2]>> # s
    /\ \A s, t \in del[x].taken : s[1] = t[1] /\ s[2] = t[2] => s = t

\* What a job is about to call ready is good: it is at its name, or a deletion
\* that lost its leases has it and will put it back.
TakenBy(x, d) ==
  /\ del[x].at \in {"stage", "commit"} /\ ~ del[x].beats
  /\ d \in FilesOf[x] /\ <<d, "file", "good">> \in del[x].taken
SaidGood(d) == file[d] = "good" \/ (file[d] = "none" /\ \E x \in Deletions : TakenBy(x, d))
Good == \A j \in Jobs : task[j] \in {"trust", "publish"} => SaidGood(D(j))

SInv == Remembered /\ Told /\ Serial /\ Spoils /\ Good

\* The sequence without e has the other elements, in any case each once.
LEMMA WithoutIs ==
  ASSUME NEW S, NEW s \in Seq(S), NEW e,
         \A m, n \in 1 .. Len(s) : s[m] = s[n] => m = n
  PROVE  /\ Without(s, e) \in Seq(S)
         /\ \A m, n \in 1 .. Len(Without(s, e)) : Without(s, e)[m] = Without(s, e)[n] => m = n
         /\ In(Without(s, e)) = In(s) \ {e}
<1>1. CASE e \notin In(s)
  BY <1>1 DEF Without
<1>2. CASE e \in In(s)
  <2> DEFINE k == CHOOSE i \in 1 .. Len(s) : s[i] = e
             at(i) == IF i < k THEN i ELSE i + 1
             t == [i \in 1 .. Len(s) - 1 |-> s[at(i)]]
  <2>1. k \in 1 .. Len(s) /\ s[k] = e
    BY <1>2 DEF In
  <2>2. t = Without(s, e)
    BY <1>2 DEF Without
  <2> HIDE DEF k
  <2>3. Len(s) \in Nat /\ \A i \in 1 .. Len(s) : s[i] \in S
    OBVIOUS
  <2>4. \A i \in 1 .. Len(s) - 1 : at(i) \in 1 .. Len(s) /\ at(i) # k
    BY <2>1, <2>3
  <2>5. \A m, n \in 1 .. Len(s) - 1 : at(m) = at(n) => m = n
    BY <2>1, <2>3
  <2>6. \A i \in (1 .. Len(s)) \ {k} : \E m \in 1 .. Len(s) - 1 : at(m) = i
    <3> TAKE i \in (1 .. Len(s)) \ {k}
    <3>1. CASE i < k
      BY <2>1, <2>3, <3>1
    <3>2. CASE i > k
      <4>1. i - 1 \in 1 .. Len(s) - 1 /\ ~ (i - 1 < k)
        BY <2>1, <2>3, <3>2
      <4> QED
        BY <4>1
    <3> QED
      BY <2>1, <2>3, <3>1, <3>2
  <2> HIDE DEF at
  <2>7. Len(s) - 1 \in Nat
    BY <2>1, <2>3
  <2>8. t \in Seq(S) /\ Len(t) = Len(s) - 1
    BY <2>3, <2>4, <2>7
  <2>9. \A i \in 1 .. Len(t) : t[i] = s[at(i)]
    BY <2>8
  <2> HIDE DEF t
  <2>10. ASSUME NEW m \in 1 .. Len(t), NEW n \in 1 .. Len(t), t[m] = t[n]  PROVE m = n
    <3>1. m \in 1 .. Len(s) - 1 /\ n \in 1 .. Len(s) - 1
      BY <2>8
    <3>2. s[at(m)] = s[at(n)] /\ at(m) \in 1 .. Len(s) /\ at(n) \in 1 .. Len(s)
      BY <2>4, <2>9, <2>10, <3>1
    <3>3. at(m) = at(n)
      BY <3>2
    <3> QED
      BY <2>5, <3>1, <3>3
  <2>11. In(t) \subseteq In(s) \ {e}
    BY <2>1, <2>4, <2>8, <2>9 DEF In
  <2>12. In(s) \ {e} \subseteq In(t)
    <3> SUFFICES ASSUME NEW i \in 1 .. Len(s), s[i] # e PROVE s[i] \in In(t)
      BY DEF In
    <3>1. PICK m \in 1 .. Len(s) - 1 : at(m) = i
      BY <2>1, <2>6
    <3> QED
      BY <2>8, <2>9, <3>1 DEF In
  <2> QED
    BY <2>2, <2>8, <2>10, <2>11, <2>12
<1> QED
  BY <1>1, <1>2

\* An element that is not there yet comes last, once.
LEMMA AppendOnce ==
  ASSUME NEW S, NEW s \in Seq(S), NEW e \in S \ In(s),
         \A m, n \in 1 .. Len(s) : s[m] = s[n] => m = n
  PROVE  \A m, n \in 1 .. Len(Append(s, e)) : Append(s, e)[m] = Append(s, e)[n] => m = n
<1> DEFINE t == Append(s, e)
<1>1. Len(s) \in Nat /\ Len(t) = Len(s) + 1 /\ t[Len(s) + 1] = e /\ \A i \in 1 .. Len(s) : t[i] = s[i]
  BY AppendProperties
<1> HIDE DEF t
<1>2. \A i \in 1 .. Len(s) : t[i] # e
  BY <1>1 DEF In
<1>3. \A m \in 1 .. Len(t) : m \in 1 .. Len(s) \/ m = Len(s) + 1
  BY <1>1
<1>4. \A m, n \in 1 .. Len(t) : t[m] = t[n] => m = n
  BY <1>1, <1>2, <1>3
<1> QED
  BY <1>4 DEF t

\* The oldest goes, the others stay, each once.
LEMMA TailIs ==
  ASSUME NEW S, NEW s \in Seq(S), s # <<>>,
         \A m, n \in 1 .. Len(s) : s[m] = s[n] => m = n
  PROVE  /\ Tail(s) \in Seq(S)
         /\ \A m, n \in 1 .. Len(Tail(s)) : Tail(s)[m] = Tail(s)[n] => m = n
         /\ In(Tail(s)) = In(s) \ {Head(s)}
<1> DEFINE t == Tail(s)
<1>1. /\ Len(s) \in Nat \ {0} /\ Head(s) = s[1]
      /\ t \in Seq(S) /\ Len(t) = Len(s) - 1 /\ \A i \in 1 .. Len(t) : t[i] = s[i + 1]
  BY EmptySeq, HeadTailProperties
<1> HIDE DEF t
<1>2. \A m \in 1 .. Len(t) : m + 1 \in 1 .. Len(s) /\ m + 1 # 1
  BY <1>1
<1>3. \A m, n \in 1 .. Len(t) : t[m] = t[n] => m = n
  <2> TAKE m, n \in 1 .. Len(t)
  <2>1. s[m + 1] = s[n + 1] => m + 1 = n + 1
    BY <1>2
  <2> QED
    BY <1>1, <2>1
<1>4. In(t) \subseteq In(s) \ {Head(s)}
  <2> SUFFICES ASSUME NEW m \in 1 .. Len(t) PROVE t[m] \in In(s) /\ t[m] # Head(s)
    BY DEF In
  <2>1. s[m + 1] = s[1] => m + 1 = 1
    BY <1>1, <1>2
  <2> QED
    BY <1>1, <1>2, <2>1 DEF In
<1>5. In(s) \ {Head(s)} \subseteq In(t)
  <2> SUFFICES ASSUME NEW i \in 1 .. Len(s), s[i] # s[1] PROVE s[i] \in In(t)
    BY <1>1 DEF In
  <2>1. i - 1 \in 1 .. Len(t) /\ (i - 1) + 1 = i
    BY <1>1
  <2> QED
    BY <1>1, <2>1 DEF In
<1> QED
  BY <1>1, <1>3, <1>4, <1>5 DEF t

-----------------------------------------------------------------------------
(* Who was told, and what becomes of a status.                             *)

\* A step that leaves every status says nothing new.
LEMMA NothingSaid ==
  ASSUME SameOwners
  PROVE  \A j \in Jobs : BecomesTrue(j)
BY DEF SameOwners, BecomesTrue

LEMMA TellingKept ==
  ASSUME Remembered, Told, SameOwners, UNCHANGED <<pending, told>>, told \subseteq Jobs,
         \A k \in Jobs : job[k].cancel => job'[k].cancel
  PROVE  Remembered' /\ Told'
<1>1. In(pending) \subseteq Jobs
  BY DEF Remembered, In
<1>2. Remembered'
  BY <1>1 DEF Remembered, SameOwners
<1>3. Told'
  BY DEF Told, SameOwners
<1> QED
  BY <1>2, <1>3

LEMMA CanceledTells ==
  ASSUME TableTypes, Remembered, Told, NEW js, job' = Canceled(js), finished' = finished,
         UNCHANGED <<pending, told>>
  PROVE  Remembered' /\ Told'
<1>1. \A k \in Jobs : job[k].cancel => job'[k].cancel
  BY DEF Canceled, TableTypes, JobTable
<1>2. SameOwners /\ told \subseteq Jobs
  BY CanceledKeeps DEF TableTypes
<1> QED
  BY <1>1, <1>2, TellingKept

LEMMA RequestTells ==
  ASSUME TableTypes, Remembered, Told, NEW j \in Jobs, RequestCancel(j)
  PROVE  Remembered' /\ Told'
<1>1. CASE job[j].status = "none"
  <2> DEFINE w == Without(pending, j)
             grown == Append(w, j)
             long == Len(grown) > MaxPending
  <2>1. pending' = (IF long THEN Tail(grown) ELSE grown) /\ job' = job
        /\ told' = (told \cup {j}) \ (IF long THEN {Head(grown)} ELSE {})
    BY <1>1 DEF RequestCancel, Append1
  <2>2. w \in Seq(Jobs) /\ In(w) = In(pending) \ {j} /\ \A m, n \in 1 .. Len(w) : w[m] = w[n] => m = n
    <3>1. pending \in Seq(Jobs) /\ \A m, n \in 1 .. Len(pending) : pending[m] = pending[n] => m = n
      BY DEF Remembered
    <3> QED
      BY <3>1, WithoutIs
  <2> HIDE DEF w
  <2>3. grown \in Seq(Jobs) /\ In(grown) = In(pending) \cup {j}
    <3>1. grown \in Seq(Jobs) /\ In(grown) = In(w) \cup {j}
      BY <2>2, InAppend
    <3> QED
      BY <2>2, <3>1
  <2>4. \A m, n \in 1 .. Len(grown) : grown[m] = grown[n] => m = n
    <3>1. j \in Jobs \ In(w)
      BY <2>2
    <3> QED
      BY <2>2, <3>1, AppendOnce
  <2>5. grown # <<>>
    BY <2>3 DEF In
  <2> HIDE DEF grown
  <2>6. \A k \in In(grown) : job[k].status = "none"
    BY <1>1, <2>3 DEF Remembered
  <2>7. \A k \in told \cup {j} : /\ job[k].status = "none" => k \in In(grown)
                                 /\ job[k].status \in Active => job[k].cancel
    <3>1. "none" \notin Active
      BY DEF Active
    <3> QED
      BY <1>1, <2>3, <3>1 DEF Told
  <2>8. CASE long
    <3>1. Tail(grown) \in Seq(Jobs) /\ In(Tail(grown)) = In(grown) \ {Head(grown)}
          /\ \A m, n \in 1 .. Len(Tail(grown)) : Tail(grown)[m] = Tail(grown)[n] => m = n
      BY <2>3, <2>4, <2>5, TailIs
    <3>2. pending' = Tail(grown) /\ told' = (told \cup {j}) \ {Head(grown)}
      BY <2>1, <2>8
    <3>3. Remembered'
      BY <2>1, <2>6, <3>1, <3>2 DEF Remembered
    <3>4. Told'
      BY <2>1, <2>7, <3>1, <3>2 DEF Told
    <3> QED
      BY <3>3, <3>4
  <2>9. CASE ~ long
    <3>1. pending' = grown /\ told' = told \cup {j}
      BY <2>1, <2>9
    <3>2. Remembered'
      BY <2>1, <2>3, <2>4, <2>6, <3>1 DEF Remembered
    <3>3. Told'
      BY <2>1, <2>7, <3>1 DEF Told
    <3> QED
      BY <3>2, <3>3
  <2> QED
    BY <2>8, <2>9
<1>2. CASE job[j].status # "none"
  <2>1. job' = Canceled({j}) /\ UNCHANGED <<finished, pending>>
        /\ told' = IF job[j].status \in Active THEN told \cup {j} ELSE told
    BY <1>2 DEF RequestCancel
  <2>2. told' \subseteq Jobs
    BY <2>1 DEF TableTypes
  <2>3. SameOwners
    BY <2>1, <2>2, CanceledKeeps
  <2>4. \A k \in Jobs : /\ job[k].cancel => job'[k].cancel
                        /\ k = j /\ job[k].status \in Active => job'[k].cancel
    BY <2>1 DEF Canceled, TableTypes, JobTable
  <2>5. In(pending) \subseteq Jobs
    BY DEF Remembered, In
  <2>6. Remembered'
    BY <2>1, <2>3, <2>5 DEF Remembered, SameOwners
  <2>7. \A k \in Jobs : job'[k].status = job[k].status
    BY <2>3 DEF SameOwners
  <2>8. Told'
    BY <1>2, <2>1, <2>2, <2>4, <2>7 DEF Told
  <2> QED
    BY <2>6, <2>8
<1> QED
  BY <1>1, <1>2

LEMMA LapseTells ==
  ASSUME TableTypes, Remembered, Told, PendingLapses
  PROVE  Remembered' /\ Told'
<1>1. pending # <<>> /\ pending' = Tail(pending) /\ told' = told \ {Head(pending)} /\ job' = job
  BY DEF PendingLapses
<1>2. /\ pending' \in Seq(Jobs) /\ In(pending') = In(pending) \ {Head(pending)}
      /\ \A m, n \in 1 .. Len(pending') : pending'[m] = pending'[n] => m = n
  <2>1. pending \in Seq(Jobs) /\ \A m, n \in 1 .. Len(pending) : pending[m] = pending[n] => m = n
    BY DEF Remembered
  <2> QED
    BY <1>1, <2>1, TailIs
<1>3. Remembered'
  BY <1>1, <1>2 DEF Remembered
<1>4. Told'
  BY <1>1, <1>2 DEF Told
<1> QED
  BY <1>3, <1>4

\* What committing a status says: an end stays, a cancel wins.
LEMMA CommitSays ==
  ASSUME job \in JobTable, NEW j \in Jobs, NEW why \in Reasons,
         NEW status \in Terminal \cup {"downloading"}, Commit(j, status, why)
  PROVE  /\ \A k \in Jobs : job'[k].cancel = job[k].cancel
         /\ \A k \in Jobs \ {j} : job'[k] = job[k]
         /\ job'[j].status # job[j].status =>
              /\ job[j].status \in Active /\ job'[j].status \in {status, "canceled"}
              /\ job[j].cancel => job'[j].status = "canceled"
<1>1. job' = Committed(j, status, why)
  BY DEF Commit
<1>2. Active \cap (Terminal \cup {"none"}) = {} /\ job[j].status \in Terminal \cup {"none"} \cup Active
      /\ "canceled" \in Terminal
  BY DEF JobTable, Statuses, Terminal, Active
<1>3. ASSUME NEW s \in Statuses, job' = With(j, s, why)
      PROVE  /\ \A k \in Jobs : job'[k].cancel = job[k].cancel
             /\ \A k \in Jobs \ {j} : job'[k] = job[k]
             /\ job'[j].status = s
  <2>0. With(j, s, why)[j].status = s /\ \A k \in Jobs \ {j} : With(j, s, why)[k] = job[k]
    BY WithIs, Zenon
  <2>1. job'[j].status = s /\ \A k \in Jobs \ {j} : job'[k] = job[k]
    BY <1>3, <2>0, Zenon
  <2>2. job'[j].cancel = job[j].cancel
    BY <1>3 DEF With, JobTable
  <2> QED
    BY <2>1, <2>2
<1>4. status \in Statuses /\ "canceled" \in Statuses
  BY DEF Statuses, Terminal, Active
<1>5. CASE job[j].status \in Terminal \cup {"none"} /\ job[j].status # status
  <2>1. job' = job
    BY <1>1, <1>5 DEF Committed
  <2> QED
    BY <2>1
<1>6. CASE job[j].status \in Terminal \cup {"none"} /\ job[j].status = status
  <2>1. job' = With(j, status, why)
    BY <1>1, <1>6 DEF Committed
  <2> QED
    BY <1>3, <1>4, <1>6, <2>1
<1>7. CASE job[j].status \in Active /\ job[j].cancel /\ status \notin Terminal
  <2>1. job' = job
    BY <1>1, <1>2, <1>7 DEF Committed
  <2> QED
    BY <2>1
<1>8. CASE job[j].status \in Active /\ job[j].cancel /\ status \in Terminal
  <2>1. job' = With(j, "canceled", why)
    BY <1>1, <1>2, <1>8 DEF Committed
  <2> QED
    BY <1>3, <1>4, <1>8, <2>1
<1>9. CASE job[j].status \in Active /\ ~ job[j].cancel
  <2>1. job' = With(j, status, why)
    BY <1>1, <1>2, <1>9 DEF Committed
  <2> QED
    BY <1>3, <1>4, <1>9, <2>1
<1> QED
  BY <1>2, <1>5, <1>6, <1>7, <1>8, <1>9

LEMMA CommitTells ==
  ASSUME TableTypes, Remembered, Told, NEW j \in Jobs, NEW why \in Reasons,
         NEW status \in Terminal \cup {"downloading"}, Commit(j, status, why)
  PROVE  Remembered' /\ Told'
<1>1. /\ \A k \in Jobs : job'[k].cancel = job[k].cancel
      /\ \A k \in Jobs \ {j} : job'[k] = job[k]
      /\ job'[j].status # job[j].status => job[j].status \in Active /\ job'[j].status \in {status, "canceled"}
  BY CommitSays DEF TableTypes
<1>2. "none" \notin Active /\ "none" \notin {status, "canceled"}
  BY DEF Active, Terminal
<1>3. \A k \in Jobs : /\ job'[k].status = "none" <=> job[k].status = "none"
                      /\ job'[k].status \in Active => job[k].status \in Active
  BY <1>1, <1>2
<1>4. UNCHANGED <<pending, told>> /\ told \subseteq Jobs
  BY DEF Commit, TableTypes
<1>5. In(pending) \subseteq Jobs
  BY DEF Remembered, In
<1>6. Remembered'
  BY <1>3, <1>4, <1>5 DEF Remembered
<1>7. Told'
  BY <1>1, <1>3, <1>4 DEF Told
<1> QED
  BY <1>6, <1>7

LEMMA ReserveTells ==
  ASSUME IInv, Remembered, Told, NEW j \in Jobs, Reserve(j)
  PROVE  Remembered' /\ Told' /\ \A k \in Jobs : BecomesTrue(k)
<1>1. PICK kept \in Histories :
        LET early == Pruned(kept)[j].status = "none" /\ j \in In(pending)
            Put(status) == [Pruned(kept) EXCEPT ![j] = [status |-> status, owns |-> status = "queued",
                                                 cancel |-> status = "canceled", why |-> "none"]]
        IN  /\ told' = told \ (In(finished) \ In(kept))
            /\ \/ early /\ job' = Put("canceled") /\ UNCHANGED task
               \/ /\ Pruned(kept)[j].status = "none" /\ ~ early
                  /\ job' = Put("queued") /\ task' = [task EXCEPT ![j] = "reserved"]
               \/ ~ early /\ job' = Pruned(kept) /\ UNCHANGED task
  BY DEF Reserve, Pruned
<1> DEFINE rest == Pruned(kept)
           gone == In(finished) \ In(kept)
           early == rest[j].status = "none" /\ j \in In(pending)
<1>2. rest \in JobTable /\ told' = told \ gone /\ told \subseteq Jobs
  BY <1>1, PrunedIs DEF IInv, TableTypes
<1>3. /\ \A k \in gone : k \in Jobs /\ job[k].status \in Terminal /\ rest[k].status = "none"
      /\ \A k \in Jobs \ gone : rest[k] = job[k]
  BY DEF Pruned, IInv, TableTypes, NoJob
<1> HIDE DEF rest, gone
<1>4. "none" \notin Terminal \cup Active /\ "queued" \in Active /\ "queued" \notin Terminal
      /\ "canceled" \in Terminal /\ "canceled" \notin Active \cup {"ready", "error"} /\ Terminal \cap Active = {}
  BY DEF Terminal, Active
<1>5. /\ pending' \in Seq(Jobs) /\ In(pending') = In(pending) \ {j} /\ In(pending') \subseteq Jobs
      /\ \A m, n \in 1 .. Len(pending') : pending'[m] = pending'[n] => m = n
  <2>1. pending \in Seq(Jobs) /\ \A m, n \in 1 .. Len(pending) : pending[m] = pending[n] => m = n
    BY DEF Remembered
  <2>2. pending' = Without(pending, j)
    BY DEF Reserve
  <2>3. In(pending') \subseteq Jobs
    BY <2>1, <2>2, WithoutIs DEF In
  <2> QED
    BY <2>1, <2>2, <2>3, WithoutIs
<1>6. \A k \in In(pending) : k \notin gone /\ job[k].status = "none"
  BY <1>3, <1>4 DEF Remembered
<1>7. ASSUME \A k \in Jobs \ {j} : job'[k] = rest[k],
             \/ early /\ job'[j].status = "canceled"
             \/ ~ early /\ rest[j].status = "none" /\ job'[j].status = "queued" /\ task'[j] = "reserved"
             \/ ~ early /\ job'[j] = rest[j]
      PROVE  Remembered' /\ Told' /\ \A k \in Jobs : BecomesTrue(k)
  <2>1. \A k \in In(pending') : job'[k].status = "none"
    BY <1>3, <1>5, <1>6, <1>7
  <2>2. Remembered'
    BY <1>5, <2>1 DEF Remembered
  <2>3. ASSUME NEW k \in told', k # j
        PROVE  /\ job'[k].status = "none" => k \in In(pending')
               /\ job'[k].status \in Active => job'[k].cancel
    <3>1. k \in Jobs \ {j} /\ k \in told /\ job'[k] = job[k]
      BY <1>2, <1>3, <1>7, <2>3
    <3> QED
      BY <1>5, <3>1 DEF Told
  <2>4. ASSUME j \in told'
        PROVE  /\ job'[j].status = "none" => j \in In(pending')
               /\ job'[j].status \in Active => job'[j].cancel
    <3>1. j \in told /\ rest[j] = job[j] /\ (job[j].status = "none" => early)
      BY <1>2, <1>3, <2>4 DEF Told
    <3>2. CASE job'[j].status = "canceled"
      BY <1>4, <3>2
    <3>3. CASE ~ early /\ job'[j] = rest[j]
      BY <3>1, <3>3 DEF Told
    <3> QED
      BY <1>7, <3>1, <3>2, <3>3
  <2>5. Told'
    BY <2>3, <2>4 DEF Told
  <2>6. ASSUME NEW k \in Jobs, k # j \/ job'[k] = rest[k]  PROVE BecomesTrue(k)
    <3>1. job'[k] = rest[k]
      BY <1>7, <2>6
    <3>2. CASE k \in gone
      <4>1. job'[k].status = "none"
        BY <1>3, <3>1, <3>2
      <4> QED
        BY <4>1 DEF BecomesTrue, Forgotten
    <3>3. CASE k \notin gone
      <4>1. job'[k] = job[k]
        BY <1>3, <3>1, <3>3
      <4> QED
        BY <4>1 DEF BecomesTrue
    <3> QED
      BY <3>2, <3>3
  <2>7. CASE early /\ job'[j].status = "canceled"
    <3>1. job[j].status = "none"
      BY <1>6, <2>7
    <3>2. BecomesTrue(j)
      BY <1>4, <2>7, <3>1 DEF BecomesTrue
    <3> QED
      BY <2>2, <2>5, <2>6, <3>2
  <2>8. CASE job'[j].status = "queued" /\ task'[j] = "reserved"
    <3>1. BecomesTrue(j)
      BY <2>8 DEF BecomesTrue, Forgotten
    <3> QED
      BY <2>2, <2>5, <2>6, <3>1
  <2>9. CASE job'[j] = rest[j]
    BY <2>2, <2>5, <2>6, <2>9
  <2> QED
    BY <1>7, <2>7, <2>8, <2>9
<1> DEFINE Put(status) == [rest EXCEPT ![j] = [status |-> status, owns |-> status = "queued",
                                               cancel |-> status = "canceled", why |-> "none"]]
<1>8. \A status : /\ Put(status)[j].status = status
                  /\ \A k \in Jobs \ {j} : Put(status)[k] = rest[k]
  BY <1>2 DEF JobTable
<1>9. task \in [Jobs -> Tasks]
  BY DEF IInv, OtherTypes
<1>10. CASE early /\ job' = Put("canceled")
  BY <1>7, <1>8, <1>10
<1>11. CASE ~ early /\ rest[j].status = "none" /\ job' = Put("queued") /\ task' = [task EXCEPT ![j] = "reserved"]
  <2>1. task'[j] = "reserved"
    BY <1>9, <1>11
  <2> QED
    BY <1>7, <1>8, <1>11, <2>1
<1>12. CASE ~ early /\ job' = rest
  BY <1>7, <1>12
<1> QED
  BY <1>1, <1>10, <1>11, <1>12 DEF rest, gone

-----------------------------------------------------------------------------
(* What a deletion has taken, and the files of the jobs that are nearly ready. *)

DiskInv == Serial /\ Spoils /\ Good

\* A step of other parts: no deletion, no file and no task that is nearly ready changes.
LEMMA GoodKept ==
  ASSUME DiskInv, UNCHANGED <<del, file>>,
         \A k \in Jobs : task'[k] \in {"trust", "publish"} => task[k] = task'[k]
  PROVE  DiskInv'
<1>1. Serial' /\ Spoils'
  BY DEF DiskInv, Serial, Running, Spoils
<1>2. \A d \in Dests : SaidGood(d) => SaidGood(d)'
  BY DEF SaidGood, TakenBy
<1>3. \A k \in Jobs : D(k) \in Dests
  BY DestinationsAreKnown DEF D
<1>4. Good'
  BY <1>2, <1>3 DEF DiskInv, Good, D
<1> QED
  BY <1>1, <1>4 DEF DiskInv

\* The commit of a step of a task: it says ready only of a file it has seen.
LEMMA TaskCommits ==
  ASSUME NEW j \in Jobs, TaskStep(j)
  PROVE  \/ UNCHANGED table
         \/ \E status \in Terminal \cup {"downloading"}, why \in Reasons :
              /\ Commit(j, status, why)
              /\ status = "ready" => task[j] \in {"trust", "publish"} /\ UNCHANGED disk
<1> DEFINE Says == \/ UNCHANGED table
                   \/ \E status \in Terminal \cup {"downloading"}, why \in Reasons :
                        /\ Commit(j, status, why)
                        /\ status = "ready" => task[j] \in {"trust", "publish"} /\ UNCHANGED disk
<1>1. {"ready", "error", "canceled"} \subseteq Terminal /\ {"none", "step", "stopped"} \subseteq Reasons
  BY DEF Terminal, Reasons
<1>2. \A s : Goto(j, s) => Says
  BY DEF Goto
<1>3. Abandon(j) => Says
  BY <1>1 DEF Abandon, End
<1>4. Commit(j, "downloading", "none") \/ End(j, "error") \/ Commit(j, "error", "stopped") => Says
  BY <1>1 DEF End
<1>5. End(j, "ready") /\ task[j] \in {"trust", "publish"} /\ UNCHANGED disk => Says
  BY <1>1 DEF End
<1> HIDE DEF Says
<1>6. Begin(j) => Says
  BY <1>2, <1>3 DEF Begin
<1>7. Trust(j) => Says
  BY <1>2, <1>3, <1>5 DEF Trust, KeepDisk, At
<1>8. Distrust(j) \/ Discard(j) \/ Panic(j) => Says
  BY <1>2 DEF Distrust, Discard, Panic
<1>9. Connect(j) => Says
  BY <1>2, <1>3, <1>4 DEF Connect
<1>10. Stream(j) => Says
  BY <1>2, <1>3 DEF Stream
<1>11. Hash(j) => Says
  BY <1>2, <1>3 DEF Hash
<1>12. Rename(j) => Says
  BY <1>2, <1>3 DEF Rename
<1>13. Publish(j) => Says
  BY <1>5 DEF Publish, At, KeepDisk
<1>14. Failed(j) \/ Drop(j) => Says
  BY <1>4 DEF Failed, Drop
<1> QED
  BY <1>6, <1>7, <1>8, <1>9, <1>10, <1>11, <1>12, <1>13, <1>14 DEF TaskStep, Says

\* The only steps that come near to saying ready have seen the good file.
LEMMA TaskSees ==
  ASSUME NEW j \in Jobs, TaskStep(j), task \in [Jobs -> Tasks], file \in [Dests -> {"none", "good", "wrong"}]
  PROVE  /\ \A k \in Jobs \ {j} : task'[k] = task[k]
         /\ task'[j] \in {"trust", "publish"} => file'[D(j)] = "good"
         /\ \A d \in Dests \ {D(j)} : file'[d] = file[d]
         /\ task[j] \notin Working => file' = file
<1>1. D(j) \in Dests
  BY DestinationsAreKnown DEF D
<1>2. \A s : task' = [task EXCEPT ![j] = s] => task'[j] = s /\ \A k \in Jobs \ {j} : task'[k] = task[k]
  OBVIOUS
<1>3. \A v : file' = At1(D(j), file, v) => file'[D(j)] = v /\ \A d \in Dests \ {D(j)} : file'[d] = file[d]
  BY <1>1 DEF At1
<1> DEFINE Moves(s) == /\ task'[j] = s /\ \A k \in Jobs \ {j} : task'[k] = task[k]
                       /\ \A d \in Dests \ {D(j)} : file'[d] = file[d]
           Sees == \E s : Moves(s) /\ (s \in {"trust", "publish"} => file'[D(j)] = "good")
           Held0 == task[j] \notin Working => file' = file
<1>4. ASSUME NEW s, s \notin {"trust", "publish"}, Goto(j, s) \/ task' = [task EXCEPT ![j] = s],
             file' = file \/ \E v : file' = At1(D(j), file, v)
      PROVE  Sees
  <2>1. task' = [task EXCEPT ![j] = s]
    BY <1>4 DEF Goto
  <2>2. Moves(s)
    BY <1>2, <1>3, <1>4, <2>1
  <2> QED
    BY <1>4, <2>2
<1>5. \A status : End(j, status) /\ file' = file => Sees
  BY <1>4 DEF End
<1>6. Abandon(j) /\ file' = file => Sees
  BY <1>5 DEF Abandon
<1>7. Begin(j) => Sees
  <2> DEFINE s == CASE file[D(j)] = "none" -> "connect" [] file[D(j)] = "good" -> "trust" [] OTHER -> "doubt"
  <2>1. Begin(j) => /\ file' = file
                    /\ Abandon(j) \/ Goto(j, s) \/ Goto(j, "failed")
    BY DEF Begin, KeepDisk, disk
  <2>2. file[D(j)] # "good" => s \notin {"trust", "publish"}
    <3>1. CASE file[D(j)] = "none"
      BY <3>1
    <3>2. CASE file[D(j)] \notin {"none", "good"}
      BY <3>2
    <3> QED
      BY <3>1, <3>2
  <2> HIDE DEF s
  <2>3. ASSUME Goto(j, s), file' = file  PROVE Sees
    <3>1. Moves(s)
      BY <1>2, <2>3 DEF Goto
    <3> QED
      BY <2>2, <2>3, <3>1
  <2>4. Goto(j, "failed") /\ file' = file => Sees
    BY <1>4
  <2> QED
    BY <1>6, <2>1, <2>3, <2>4
<1>8. Rename(j) => Sees
  <2>1. Rename(j) => \/ Abandon(j) /\ file' = file
                     \/ file' = At1(D(j), file, "good") /\ Goto(j, "publish")
                     \/ file' = At1(D(j), file, "good") /\ Goto(j, "failed")
                     \/ Goto(j, "failed") /\ file' = file
    BY DEF Rename, KeepDisk, disk
  <2>2. ASSUME file' = At1(D(j), file, "good"), Goto(j, "publish")  PROVE Sees
    <3>1. Moves("publish") /\ file'[D(j)] = "good"
      BY <1>2, <1>3, <2>2 DEF Goto
    <3> QED
      BY <3>1
  <2>3. Goto(j, "failed") /\ (file' = file \/ file' = At1(D(j), file, "good")) => Sees
    BY <1>4
  <2> QED
    BY <1>6, <2>1, <2>2, <2>3
<1>9. Trust(j) => Sees
  <2>1. Trust(j) => /\ file' = file
                    /\ Abandon(j) \/ End(j, "ready") \/ Goto(j, "distrust") \/ Goto(j, "failed")
    BY DEF Trust, KeepDisk, disk
  <2> QED
    BY <1>4, <1>5, <1>6, <2>1
<1>10. Distrust(j) => Sees
  BY <1>4 DEF Distrust
<1>11. Connect(j) => Sees
  <2>1. Connect(j) => /\ file' = file
                      /\ \/ Abandon(j) \/ Goto(j, "failed") \/ Goto(j, "hash") \/ Goto(j, "discard")
                         \/ task' = [task EXCEPT ![j] = "stream"]
    BY DEF Connect, KeepDisk, disk
  <2> QED
    BY <1>4, <1>6, <2>1
<1>12. Stream(j) => Sees
  <2>1. Stream(j) => /\ file' = file
                     /\ Abandon(j) \/ Goto(j, "failed") \/ Goto(j, "hash") \/ Goto(j, "discard")
    BY DEF Stream
  <2> QED
    BY <1>4, <1>6, <2>1
<1>13. Hash(j) => Sees
  <2>1. Hash(j) => /\ file' = file
                   /\ Abandon(j) \/ Goto(j, "rename") \/ Goto(j, "discard")
    BY DEF Hash, KeepDisk, disk
  <2> QED
    BY <1>4, <1>6, <2>1
<1>14. Publish(j) \/ Failed(j) => Sees
  BY <1>5 DEF Publish, Failed, KeepDisk, disk
<1>15. Discard(j) \/ Panic(j) \/ Drop(j) => Sees
  BY <1>4 DEF Discard, Panic, Drop, KeepDisk, disk
<1>16. Sees
  BY <1>7, <1>8, <1>9, <1>10, <1>11, <1>12, <1>13, <1>14, <1>15 DEF TaskStep
<1>17. Held0
  <2>1. file' = file \/ Distrust(j) \/ Rename(j)
    BY DEF TaskStep, Begin, Trust, Connect, Stream, Hash, Publish, Discard, Failed, Panic, Drop, KeepDisk, disk
  <2>2. Distrust(j) \/ Rename(j) => task[j] \in Working
    BY DEF Distrust, Rename, At, Working
  <2> QED
    BY <2>1, <2>2
<1> QED
  BY <1>16, <1>17

LEMMA TaskStepSays ==
  ASSUME IInv, SInv, NEW j \in Jobs, TaskStep(j)
  PROVE  SInv' /\ \A k \in Jobs : BecomesTrue(k)
<1>1. TableTypes /\ Remembered /\ Told /\ DiskInv /\ task \in [Jobs -> Tasks]
      /\ file \in [Dests -> {"none", "good", "wrong"}] /\ del' = del /\ Owners
  BY DEF IInv, SInv, OtherTypes, DiskTypes, DiskInv, TaskStep
<1>2. /\ \A k \in Jobs \ {j} : task'[k] = task[k]
      /\ task'[j] \in {"trust", "publish"} => file'[D(j)] = "good"
      /\ \A d \in Dests \ {D(j)} : file'[d] = file[d]
      /\ task[j] \notin Working => file' = file
  BY <1>1, TaskSees
<1>3. Serial' /\ Spoils'
  BY <1>1 DEF DiskInv, Serial, Running, Spoils
<1>4. \A d \in Dests : SaidGood(d) /\ file'[d] = file[d] => SaidGood(d)'
  BY <1>1 DEF SaidGood, TakenBy
<1>5. ASSUME NEW k \in Jobs, task'[k] \in {"trust", "publish"}  PROVE SaidGood(D(k))'
  <2>1. D(k) \in Dests /\ {"trust", "publish"} \subseteq Working
    BY DestinationsAreKnown DEF D, Working
  <2>2. CASE k = j
    <3>1. file'[D(k)] = "good"
      BY <1>2, <1>5, <2>2
    <3> QED
      BY <3>1 DEF SaidGood, D
  <2>3. CASE k # j
    <3>1. task[k] = task'[k] /\ SaidGood(D(k))
      BY <1>1, <1>2, <1>5, <2>3 DEF DiskInv, Good
    <3>2. task[j] \in Working => D(k) # D(j)
      BY <1>1, <1>5, <2>1, <2>3, <3>1 DEF Owners
    <3>3. file'[D(k)] = file[D(k)]
      BY <1>2, <2>1, <3>2
    <3> QED
      BY <1>4, <2>1, <3>1, <3>3 DEF D
  <2> QED
    BY <2>2, <2>3
<1>6. Good'
  BY <1>5 DEF Good, D
<1>7. CASE UNCHANGED table
  <2>1. SameOwners /\ UNCHANGED <<pending, told>> /\ told \subseteq Jobs /\ job' = job
    BY <1>1, <1>7 DEF table, SameOwners, TableTypes
  <2>2. Remembered' /\ Told'
    BY <1>1, <2>1, TellingKept
  <2> QED
    BY <1>3, <1>6, <2>1, <2>2, NothingSaid DEF SInv
<1>8. ASSUME NEW status \in Terminal \cup {"downloading"}, NEW why \in Reasons, Commit(j, status, why),
             status = "ready" => task[j] \in {"trust", "publish"} /\ UNCHANGED disk
      PROVE  SInv' /\ \A k \in Jobs : BecomesTrue(k)
  <2>1. /\ \A k \in Jobs \ {j} : job'[k] = job[k]
        /\ job'[j].status # job[j].status =>
             /\ job[j].status \in Active /\ job'[j].status \in {status, "canceled"}
             /\ job[j].cancel => job'[j].status = "canceled"
    BY <1>1, <1>8, CommitSays DEF TableTypes
  <2>2. Remembered' /\ Told'
    BY <1>1, <1>8, CommitTells
  <2>3. Terminal \cap Active = {} /\ "canceled" \notin {"ready", "error"}
    BY DEF Terminal, Active
  <2>4. ASSUME NEW k \in Jobs \ {j}  PROVE BecomesTrue(k)
    BY <2>1 DEF BecomesTrue
  <2>5. CASE job'[j].status = job[j].status
    <3>1. BecomesTrue(j)
      BY <2>5 DEF BecomesTrue
    <3> QED
      BY <1>3, <1>6, <2>2, <2>4, <3>1 DEF SInv
  <2>6. CASE job'[j].status # job[j].status
    <3>1. job'[j].status \in {"ready", "error"} => j \notin told
      BY <1>1, <2>1, <2>3, <2>6 DEF Told
    <3>2. job'[j].status = "ready" =>
             \/ file'[D(j)] = "good"
             \/ \E x \in Deletions : ~ del[x].beats /\ del[x].at \in {"stage", "commit"} /\ D(j) \in FilesOf[x]
      <4>1. job'[j].status = "ready" => status = "ready"
        BY <2>1, <2>3, <2>6
      <4>2. status = "ready" => SaidGood(D(j)) /\ file' = file
        BY <1>1, <1>8 DEF DiskInv, Good, disk
      <4>3. SaidGood(D(j)) => \/ file[D(j)] = "good"
                              \/ \E x \in Deletions : ~ del[x].beats /\ del[x].at \in {"stage", "commit"}
                                                      /\ D(j) \in FilesOf[x]
        BY DEF SaidGood, TakenBy
      <4> QED
        BY <4>1, <4>2, <4>3
    <3>3. job[j].status \notin Terminal
      BY <2>1, <2>3, <2>6
    <3>4. BecomesTrue(j)
      BY <3>1, <3>2, <3>3 DEF BecomesTrue
    <3> QED
      BY <1>3, <1>6, <2>2, <2>4, <3>4 DEF SInv
  <2> QED
    BY <2>5, <2>6
<1> QED
  BY <1>7, <1>8, TaskCommits

-----------------------------------------------------------------------------
(* The other steps.                                                        *)

\* A step that leaves the statuses, and does to deletions, files and tasks what it may.
LEMMA SameStatusSays ==
  ASSUME Remembered', Told', DiskInv', SameOwners
  PROVE  SInv' /\ \A k \in Jobs : BecomesTrue(k)
BY NothingSaid DEF SInv, DiskInv

\* The table stays as it is.
LEMMA SilentTable ==
  ASSUME TableTypes, Remembered, Told, UNCHANGED table
  PROVE  Remembered' /\ Told' /\ SameOwners
<1>1. SameOwners /\ UNCHANGED <<job, pending, told>> /\ told \subseteq Jobs
  BY DEF table, SameOwners, TableTypes
<1> QED
  BY <1>1, TellingKept

\* The steps around the tasks, and those of the bridge but its restart.
LEMMA StartStepSays ==
  ASSUME IInv, SInv, NEW j \in Jobs,
         AskStart(j) \/ StartRefused(j) \/ CancelByUser(j) \/ Reserve(j) \/ Spawn(j)
  PROVE  SInv' /\ \A k \in Jobs : BecomesTrue(k)
<1>1. TableTypes /\ Remembered /\ Told /\ DiskInv /\ task \in [Jobs -> Tasks]
  BY DEF IInv, SInv, OtherTypes, DiskInv
<1>2. CASE AskStart(j) \/ StartRefused(j)
  <2>1. UNCHANGED table /\ UNCHANGED <<del, file, task>>
    BY <1>2 DEF AskStart, StartRefused, disk
  <2>2. DiskInv'
    BY <1>1, <2>1, GoodKept
  <2> QED
    BY <1>1, <2>1, <2>2, SilentTable, SameStatusSays
<1>3. CASE CancelByUser(j)
  <2>1. RequestCancel(j) /\ UNCHANGED <<del, file, task>>
    BY <1>3 DEF CancelByUser, disk
  <2>2. DiskInv'
    BY <1>1, <2>1, GoodKept
  <2> QED
    BY <1>1, <2>1, <2>2, RequestTells, RequestKeeps, SameStatusSays
<1>4. CASE Reserve(j)
  <2>1. UNCHANGED <<del, file>> /\ (UNCHANGED task \/ task' = [task EXCEPT ![j] = "reserved"])
    BY <1>4 DEF Reserve, disk
  <2>2. \A k \in Jobs : task'[k] \in {"trust", "publish"} => task[k] = task'[k]
    BY <1>1, <2>1
  <2>3. DiskInv'
    BY <1>1, <2>1, <2>2, GoodKept
  <2>4. Remembered' /\ Told' /\ \A k \in Jobs : BecomesTrue(k)
    BY <1>1, <1>4, ReserveTells
  <2> QED
    BY <2>3, <2>4 DEF SInv, DiskInv
<1>5. CASE Spawn(j)
  <2>1. UNCHANGED table /\ UNCHANGED <<del, file>> /\ task' = [task EXCEPT ![j] = "spawned"]
    BY <1>5 DEF Spawn, disk
  <2>2. \A k \in Jobs : task'[k] \in {"trust", "publish"} => task[k] = task'[k]
    BY <1>1, <2>1
  <2>3. DiskInv'
    BY <1>1, <2>1, <2>2, GoodKept
  <2> QED
    BY <1>1, <2>1, <2>3, SilentTable, SameStatusSays
<1> QED
  BY <1>2, <1>3, <1>4, <1>5

LEMMA BridgeStepSays ==
  ASSUME IInv, SInv, PendingLapses \/ Revoke \/ Join \/ Drained \/ \E d \in Dests : Expire(d)
  PROVE  SInv' /\ \A k \in Jobs : BecomesTrue(k)
<1>1. TableTypes /\ Remembered /\ Told /\ DiskInv /\ told \subseteq Jobs
  BY DEF IInv, SInv, DiskInv, TableTypes
<1>2. UNCHANGED <<del, file, task>>
  BY DEF PendingLapses, Revoke, Join, Drained, Expire, Frame, disk
<1>3. DiskInv'
  BY <1>1, <1>2, GoodKept
<1>4. CASE PendingLapses
  <2>1. SameOwners
    BY <1>4 DEF PendingLapses, SameOwners
  <2> QED
    BY <1>1, <1>3, <1>4, <2>1, LapseTells, SameStatusSays
<1>5. CASE Revoke \/ Join
  <2>1. job' = Canceled(Jobs) /\ UNCHANGED <<finished, pending, told>>
    BY <1>5 DEF Revoke, Join
  <2>2. SameOwners
    BY <1>1, <2>1, CanceledKeeps
  <2> QED
    BY <1>1, <1>3, <2>1, <2>2, CanceledTells, SameStatusSays
<1>6. CASE Drained \/ \E d \in Dests : Expire(d)
  <2>1. UNCHANGED table
    BY <1>6 DEF Drained, Expire
  <2> QED
    BY <1>1, <1>3, <2>1, SilentTable, SameStatusSays
<1> QED
  BY <1>4, <1>5, <1>6

\* A deletion moves on before it takes anything, or after all is back or gone.
LEMMA MovesQuietly ==
  ASSUME DelTypes, DiskInv, NEW x \in Deletions, NEW step, NEW left, Moved(x, step, left),
         del[x].at \notin {"stage", "commit"}, step # "commit",
         step = "stage" => left = FilesOf[x] \X {"file", "part"},
         step \notin {"idle", "done", "gone"} => Running(x), UNCHANGED <<file, task>>
  PROVE  DiskInv'
<1>1. del[x].taken = {}
  BY DEF DiskInv, Spoils
<1>2. /\ del'[x].at = step /\ del'[x].left = left /\ del'[x].taken = {}
      /\ \A y \in Deletions \ {x} : del'[y] = del[y]
  BY <1>1 DEF Moved, DelTypes
<1>3. \A y \in Deletions : Running(y)' => Running(y)
  BY <1>2 DEF Running
<1>4. Serial'
  BY <1>3 DEF DiskInv, Serial
<1>5. Spoils'
  BY <1>2 DEF DiskInv, Spoils
<1>6. \A y \in Deletions, d \in Dests : TakenBy(y, d) => TakenBy(y, d)'
  BY <1>2 DEF TakenBy
<1>7. \A k \in Jobs : D(k) \in Dests
  BY DestinationsAreKnown DEF D
<1>8. Good'
  BY <1>6, <1>7 DEF DiskInv, Good, SaidGood, D
<1> QED
  BY <1>4, <1>5, <1>8 DEF DiskInv

LEMMA QuietStepSays ==
  ASSUME IInv, SInv, NEW x \in Deletions,
         Acquire(x) \/ Settle(x) \/ CancelDownload(x) \/ Poll(x) \/ Renew(x) \/ Release(x)
  PROVE  SInv' /\ \A k \in Jobs : BecomesTrue(k)
<1>1. TableTypes /\ Remembered /\ Told /\ DiskInv /\ DelTypes
  BY DEF IInv, SInv, DiskInv
<1>2. UNCHANGED <<file, task>>
  BY DEF Acquire, Settle, CancelDownload, Poll, Renew, Release, disk, Frame
<1>3. ASSUME UNCHANGED table, DiskInv'  PROVE SInv' /\ \A k \in Jobs : BecomesTrue(k)
  BY <1>1, <1>3, SilentTable, SameStatusSays
<1>4. CASE Acquire(x)
  <2>1. UNCHANGED table /\ del[x].at = "acquire"
        /\ \E step \in {"acquire", "done", "settle"} : \E left : Moved(x, step, left)
    BY <1>4 DEF Acquire
  <2>2. DiskInv'
    BY <1>1, <1>2, <2>1, MovesQuietly DEF Running
  <2> QED
    BY <1>3, <2>1, <2>2
<1>5. CASE Settle(x)
  <2>1. UNCHANGED table /\ del[x].at = "settle"
        /\ \E step \in {"renew", "cancel", "release"} : \E left : Moved(x, step, left)
    BY <1>5 DEF Settle
  <2>2. DiskInv'
    BY <1>1, <1>2, <2>1, MovesQuietly DEF Running
  <2> QED
    BY <1>3, <2>1, <2>2
<1>6. CASE CancelDownload(x)
  <2>1. PICK j \in del[x].left :
          /\ \E step \in {"cancel", "poll", "release", "done"} : \E left :
               Moved(x, step, left) /\ (step = "done" \/ del[x].at \in {"cancel", "release"})
          /\ RequestCancel(j) \/ UNCHANGED table
    <3>1. del[x].at \in {"cancel", "release", "done"}
      BY <1>6 DEF CancelDownload
    <3>2. PICK j \in del[x].left :
            /\ \/ Moved(x, IF del[x].at = "cancel" /\ del[x].left \ {j} = {} THEN "poll" ELSE del[x].at,
                        del[x].left \ {j})
               \/ Moved(x, IF del[x].at = "cancel" THEN "release" ELSE del[x].at, del[x].left \ {j})
            /\ RequestCancel(j) \/ UNCHANGED table
      BY <1>6 DEF CancelDownload
    <3> QED
      BY <3>1, <3>2
  <2>2. del[x].at \in {"cancel", "release", "done"} /\ j \in Jobs
    BY <1>1, <1>6 DEF CancelDownload, DelTypes
  <2>3. DiskInv'
    BY <1>1, <1>2, <2>1, <2>2, MovesQuietly DEF Running
  <2>4. CASE UNCHANGED table
    BY <1>3, <2>3, <2>4
  <2>5. CASE RequestCancel(j)
    BY <1>1, <2>2, <2>3, <2>5, RequestTells, RequestKeeps, SameStatusSays
  <2> QED
    BY <2>1, <2>4, <2>5
<1>7. CASE Poll(x)
  <2>1. UNCHANGED table /\ del[x].at = "poll"
        /\ \E step \in {"renew", "release"} : \E left : Moved(x, step, left)
    BY <1>7 DEF Poll
  <2>2. DiskInv'
    BY <1>1, <1>2, <2>1, MovesQuietly DEF Running
  <2> QED
    BY <1>3, <2>1, <2>2
<1>8. CASE Renew(x)
  <2>1. UNCHANGED table /\ del[x].at = "renew"
        /\ \E step \in {"renew", "release", "stage"} : \E left :
             Moved(x, step, left) /\ (step = "stage" => left = FilesOf[x] \X {"file", "part"})
    BY <1>8 DEF Renew
  <2>2. DiskInv'
    BY <1>1, <1>2, <2>1, MovesQuietly DEF Running
  <2> QED
    BY <1>3, <2>1, <2>2
<1>9. CASE Release(x)
  <2>1. UNCHANGED table /\ del[x].at = "release" /\ Moved(x, "done", del[x].left)
    BY <1>9 DEF Release
  <2>2. DiskInv'
    BY <1>1, <1>2, <2>1, MovesQuietly DEF Running
  <2> QED
    BY <1>3, <2>1, <2>2
<1> QED
  BY <1>4, <1>5, <1>6, <1>7, <1>8, <1>9

LEMMA BeginsQuietly ==
  ASSUME IInv, SInv, NEW x \in Deletions, BeginDeletion(x)
  PROVE  SInv' /\ \A k \in Jobs : BecomesTrue(k)
<1>1. TableTypes /\ Remembered /\ Told /\ DiskInv /\ DelTypes /\ UNCHANGED table /\ UNCHANGED <<file, task>>
  BY DEF IInv, SInv, DiskInv, BeginDeletion, disk, Frame
<1>2. /\ del'[x].at = "acquire" /\ del'[x].taken = {}
      /\ \A y \in Deletions \ {x} : del'[y] = del[y]
      /\ \A y \in Deletions : ~ Running(y)
  BY <1>1 DEF BeginDeletion, NoDeletion, DelTypes
<1>3. Serial'
  BY <1>2 DEF Serial, Running
<1>4. Spoils'
  BY <1>1, <1>2 DEF DiskInv, Spoils
<1>5. \A d : \A y \in Deletions : ~ TakenBy(y, d)
  BY <1>2 DEF TakenBy, Running
<1>6. Good'
  BY <1>1, <1>5 DEF DiskInv, Good, SaidGood, D
<1>7. DiskInv'
  BY <1>3, <1>4, <1>6 DEF DiskInv
<1> QED
  BY <1>1, <1>7, SilentTable, SameStatusSays

LEMMA BeatFailsSays ==
  ASSUME IInv, SInv, NEW x \in Deletions, BeatFails(x)
  PROVE  SInv' /\ \A k \in Jobs : BecomesTrue(k)
<1>1. TableTypes /\ Remembered /\ Told /\ DiskInv /\ DelTypes /\ UNCHANGED table /\ UNCHANGED <<file, task>>
  BY DEF IInv, SInv, DiskInv, BeatFails, disk, Frame
<1>2. /\ \A y \in Deletions : /\ del'[y].at = del[y].at /\ del'[y].left = del[y].left
                              /\ del'[y].taken = del[y].taken
                              /\ ~ del[y].beats => ~ del'[y].beats
  BY <1>1 DEF BeatFails, DelTypes
<1>3. Serial'
  BY <1>1, <1>2 DEF DiskInv, Serial, Running
<1>4. Spoils'
  BY <1>1, <1>2 DEF DiskInv, Spoils
<1>5. \A d : \A y \in Deletions : TakenBy(y, d) => TakenBy(y, d)'
  BY <1>2 DEF TakenBy
<1>6. Good'
  BY <1>1, <1>5 DEF DiskInv, Good, SaidGood, D
<1>7. DiskInv'
  BY <1>3, <1>4, <1>6 DEF DiskInv
<1> QED
  BY <1>1, <1>7, SilentTable, SameStatusSays

\* A deletion takes a file from a job that is nearly ready only when its leases are lost.
LEMMA StageSays ==
  ASSUME IInv, SInv, NEW x \in Deletions, Stage(x)
  PROVE  SInv' /\ \A k \in Jobs : BecomesTrue(k)
<1>1. TableTypes /\ Remembered /\ Told /\ DiskInv /\ DelTypes /\ Leases /\ Owners /\ DiskTypes
      /\ UNCHANGED table /\ task' = task /\ del[x].at = "stage"
  BY DEF IInv, SInv, DiskInv, Stage, Frame
<1>2. \A y \in Deletions \ {x} : ~ Running(y)
  BY <1>1 DEF DiskInv, Serial, Running
<1>3. \A k \in Jobs : D(k) \in Dests
  BY DestinationsAreKnown DEF D
<1>4. ASSUME DiskInv'  PROVE SInv' /\ \A k \in Jobs : BecomesTrue(k)
  BY <1>1, <1>4, SilentTable, SameStatusSays
<1>5. ASSUME NEW s \in del[x].left, NEW is, is = IF s[2] = "file" THEN file[s[1]] ELSE part[s[1]],
             del' = [del EXCEPT ![x].left = @ \ {s},
                                ![x].taken = IF is = "none" THEN @ ELSE @ \cup {<<s[1], s[2], is>>}],
             IF s[2] = "file" THEN file' = At1(s[1], file, "none") ELSE UNCHANGED file
      PROVE  DiskInv'
  <2>1. s \in FilesOf[x] \X {"file", "part"} /\ s[1] \in FilesOf[x] /\ FilesOf[x] \subseteq Dests
        /\ s = <<s[1], s[2]>> /\ s[2] \in {"file", "part"}
    BY <1>1, DestinationsAreKnown DEF DiskInv, Spoils
  <2> DEFINE taken == IF is = "none" THEN del[x].taken ELSE del[x].taken \cup {<<s[1], s[2], is>>}
  <2>2. /\ del'[x].at = "stage" /\ del'[x].left = del[x].left \ {s} /\ del'[x].taken = taken
        /\ del'[x].beats = del[x].beats
        /\ \A y \in Deletions \ {x} : del'[y] = del[y]
    BY <1>1, <1>5 DEF DelTypes
  <2>3. del[x].taken \subseteq taken /\ \A t \in taken : t \in del[x].taken \/ t = <<s[1], s[2], is>>
    OBVIOUS
  <2>4. Serial'
    BY <1>1, <2>2 DEF DiskInv, Serial, Running
  <2>5. /\ del[x].left \subseteq FilesOf[x] \X {"file", "part"}
        /\ \A r \in del[x].left : \A t \in del[x].taken : <<t[1], t[2]>> # r
        /\ \A r, t \in del[x].taken : r[1] = t[1] /\ r[2] = t[2] => r = t
    BY <1>1 DEF DiskInv, Spoils
  <2>6. file = file' \/ (s[2] = "file" /\ is = file[s[1]] /\ file'[s[1]] = "none"
                         /\ \A d \in Dests \ {s[1]} : file'[d] = file[d])
    BY <1>1, <1>5, <2>1 DEF At1, DiskTypes
  <2>7. is = "good" => <<s[1], s[2], "good">> \in taken
    OBVIOUS
  <2> HIDE DEF taken
  <2>8. \A r \in del[x].left \ {s} : \A t \in taken : <<t[1], t[2]>> # r
    BY <2>1, <2>3, <2>5
  <2>9. \A t \in del[x].taken : ~ (t[1] = s[1] /\ t[2] = s[2])
    BY <2>1, <2>5
  <2>10. \A r, t \in taken : r[1] = t[1] /\ r[2] = t[2] => r = t
    BY <2>3, <2>5, <2>9
  <2>11. Spoils'
    <3> SUFFICES ASSUME NEW y \in Deletions
                 PROVE  /\ del'[y].at \notin {"stage", "commit"} => del'[y].taken = {}
                        /\ del'[y].at = "stage" => /\ del'[y].left \subseteq FilesOf[y] \X {"file", "part"}
                                                   /\ \A r \in del'[y].left : \A t \in del'[y].taken : <<t[1], t[2]>> # r
                        /\ \A r, t \in del'[y].taken : r[1] = t[1] /\ r[2] = t[2] => r = t
      BY DEF Spoils
    <3>1. CASE y = x
      BY <2>2, <2>5, <2>8, <2>10, <3>1
    <3>2. CASE y # x
      BY <1>1, <2>2, <3>2 DEF DiskInv, Spoils
    <3> QED
      BY <3>1, <3>2
  <2>12. \A d : \A y \in Deletions : TakenBy(y, d) => y = x /\ TakenBy(x, d)'
    BY <1>2, <2>2, <2>3 DEF TakenBy, Running
  <2>13. ASSUME NEW k \in Jobs, task[k] \in {"trust", "publish"}  PROVE SaidGood(D(k))'
    <3>1. SaidGood(D(k)) /\ task[k] \in Working
      BY <1>1, <2>13 DEF DiskInv, Good, Working
    <3>2. CASE file'[D(k)] = file[D(k)]
      BY <2>12, <3>1, <3>2 DEF SaidGood, D
    <3>3. CASE file'[D(k)] # file[D(k)]
      <4>1. s[2] = "file" /\ is = file[D(k)] /\ file'[D(k)] = "none" /\ s[1] = D(k)
        BY <1>3, <2>6, <3>3
      <4>2. CASE file[D(k)] = "good"
        <5>1. ~ del[x].beats
          BY <1>1, <2>1, <3>1, <4>1 DEF Leases, Safe, Owners
        <5>2. TakenBy(x, D(k))'
          BY <2>1, <2>2, <2>7, <4>1, <4>2, <5>1 DEF TakenBy, D
        <5> QED
          BY <4>1, <5>2 DEF SaidGood, D
      <4>3. CASE file[D(k)] # "good"
        BY <3>1, <3>3, <4>1, <4>3 DEF SaidGood
      <4> QED
        BY <4>2, <4>3
    <3> QED
      BY <3>2, <3>3
  <2>14. Good'
    BY <1>1, <2>13 DEF Good, D
  <2> QED
    BY <2>4, <2>11, <2>14 DEF DiskInv
<1>6. ASSUME Moved(x, "commit", {}), UNCHANGED disk
      PROVE  DiskInv'
  <2>1. /\ del'[x].at = "commit" /\ del'[x].taken = del[x].taken /\ del'[x].beats = del[x].beats
        /\ \A y \in Deletions \ {x} : del'[y] = del[y]
    BY <1>1, <1>6 DEF Moved, DelTypes
  <2>2. Serial'
    BY <1>1, <2>1 DEF DiskInv, Serial, Running
  <2>3. Spoils'
    BY <1>1, <2>1 DEF DiskInv, Spoils
  <2>4. \A d : \A y \in Deletions : TakenBy(y, d) => TakenBy(y, d)'
    BY <1>1, <2>1 DEF TakenBy
  <2>5. Good'
    BY <1>1, <1>6, <2>4 DEF DiskInv, Good, SaidGood, D, disk
  <2> QED
    BY <2>2, <2>3, <2>5 DEF DiskInv
<1>7. DiskInv'
  BY <1>5, <1>6 DEF Stage
<1> QED
  BY <1>4, <1>7

\* What a deletion puts back is what it took: there is one thing of each name.
LEMMA PutBackIs ==
  ASSUME NEW taken, PutBack(taken), NEW d \in Dests,
         \A s, t \in taken : s[1] = t[1] /\ s[2] = t[2] => s = t
  PROVE  /\ file[d] # "none" => file'[d] = file[d]
         /\ file[d] = "none" /\ <<d, "file", "good">> \in taken => file'[d] = "good"
<1>1. file'[d] \in Back(taken, d, "file", file[d], {"good", "wrong"})
  BY DEF PutBack
<1>2. CASE file[d] # "none"
  BY <1>1, <1>2 DEF Back
<1>3. CASE file[d] = "none" /\ <<d, "file", "good">> \in taken
  <2> DEFINE vs == {v \in {"good", "wrong"} : <<d, "file", v>> \in taken}
  <2>1. "good" \in vs
    BY <1>3
  <2>2. \A v \in vs : v = "good"
    BY <1>3
  <2>3. file'[d] \in vs
    BY <1>1, <1>3, <2>1 DEF Back
  <2> QED
    BY <1>3, <2>2, <2>3
<1> QED
  BY <1>2, <1>3

LEMMA DecideSays ==
  ASSUME IInv, SInv, NEW x \in Deletions, Decide(x)
  PROVE  SInv' /\ \A k \in Jobs : BecomesTrue(k)
<1>1. TableTypes /\ Remembered /\ Told /\ DiskInv /\ DelTypes /\ UNCHANGED table /\ task' = task
      /\ del[x].at = "commit"
  BY DEF IInv, SInv, DiskInv, Decide, Frame
<1>2. /\ del'[x].at = "release" /\ del'[x].taken = {}
      /\ \A y \in Deletions \ {x} : del'[y] = del[y] /\ ~ Running(y)
  <2>1. del' = [del EXCEPT ![x].at = "release", ![x].taken = {}]
    BY DEF Decide
  <2>2. \A y \in Deletions \ {x} : ~ Running(y)
    BY <1>1 DEF DiskInv, Serial, Running
  <2> QED
    BY <1>1, <2>1, <2>2 DEF DelTypes
<1>3. Serial'
  BY <1>1, <1>2 DEF DiskInv, Serial, Running
<1>4. Spoils'
  BY <1>1, <1>2 DEF DiskInv, Spoils
<1>5. \A d : \A y \in Deletions : TakenBy(y, d) => y = x
  BY <1>2 DEF TakenBy, Running
<1>6. ASSUME NEW k \in Jobs, task[k] \in {"trust", "publish"}  PROVE file'[D(k)] = "good"
  <2>1. SaidGood(D(k)) /\ D(k) \in Dests
    BY <1>1, <1>6, DestinationsAreKnown DEF DiskInv, Good, D
  <2>2. file[D(k)] = "good" \/ (file[D(k)] = "none" /\ TakenBy(x, D(k)))
    BY <1>5, <2>1 DEF SaidGood
  <2>3. CASE del[x].beats /\ UNCHANGED disk
    BY <2>2, <2>3 DEF TakenBy, disk
  <2>4. CASE PutBack(del[x].taken)
    <3>1. \A s, t \in del[x].taken : s[1] = t[1] /\ s[2] = t[2] => s = t
      BY <1>1 DEF DiskInv, Spoils
    <3>2. /\ file[D(k)] # "none" => file'[D(k)] = file[D(k)]
          /\ file[D(k)] = "none" /\ <<D(k), "file", "good">> \in del[x].taken => file'[D(k)] = "good"
      BY <2>1, <2>4, <3>1, PutBackIs
    <3> QED
      BY <2>2, <3>2 DEF TakenBy
  <2> QED
    BY <2>3, <2>4 DEF Decide
<1>7. Good'
  BY <1>1, <1>6 DEF Good, SaidGood, D
<1>8. DiskInv'
  BY <1>3, <1>4, <1>7 DEF DiskInv
<1> QED
  BY <1>1, <1>8, SilentTable, SameStatusSays

\* No task is left when the next runtime starts.
LEMMA RestartSays ==
  ASSUME IInv, SInv, Restart
  PROVE  SInv' /\ \A k \in Jobs : BecomesTrue(k)
<1>1. TableTypes /\ Remembered /\ Told /\ DiskInv /\ DelTypes /\ UNCHANGED table /\ task' = task
  BY DEF IInv, SInv, DiskInv, Restart
<1>2. \A k \in Jobs : task[k] = "none"
  <2>1. ~ Handling /\ active = 0 /\ active = Cardinality(Counted)
    BY DEF IInv, Stops, Restart
  <2>2. Counted = {}
    BY <2>1, CountedFinite, FS_EmptySet
  <2> QED
    BY <2>1, <2>2 DEF Counted, Handling
<1>3. \A y \in Deletions : del'[y].at \notin {"stage", "commit"} /\ del'[y].taken = {}
  <2> TAKE y \in Deletions
  <2>1. CASE Running(y)
    BY <2>1 DEF Restart, NoDeletion
  <2>2. CASE ~ Running(y)
    <3>1. del[y].at \notin {"stage", "commit"}
      BY <2>2 DEF Running
    <3>2. del[y].taken = {} /\ del'[y] = [del[y] EXCEPT !.left = {}]
      BY <1>1, <2>2, <3>1 DEF DiskInv, Spoils, Restart
    <3> QED
      BY <1>1, <3>1, <3>2 DEF DelTypes
  <2> QED
    BY <2>1, <2>2
<1>4. \A y \in Deletions : ~ Running(y)'
  <2> TAKE y \in Deletions
  <2>1. CASE Running(y)
    BY <2>1 DEF Restart, NoDeletion, Running
  <2>2. CASE ~ Running(y)
    <3>1. del'[y] = [del[y] EXCEPT !.left = {}]
      BY <2>2 DEF Restart
    <3>2. del'[y].at = del[y].at
      BY <1>1, <3>1 DEF DelTypes
    <3> QED
      BY <2>2, <3>2 DEF Running
  <2> QED
    BY <2>1, <2>2
<1>5. Serial' /\ Spoils'
  BY <1>3, <1>4 DEF Serial, Spoils
<1>6. Good'
  BY <1>1, <1>2 DEF Good
<1>7. DiskInv'
  BY <1>5, <1>6 DEF DiskInv
<1> QED
  BY <1>1, <1>7, SilentTable, SameStatusSays

LEMMA InitHasSInv == Init => SInv
<1> SUFFICES ASSUME Init  PROVE SInv
  OBVIOUS
<1> USE DEF Init
<1>1. Remembered
  BY DEF Remembered, In
<1>2. Told
  BY DEF Told
<1>3. Serial /\ Spoils
  BY DEF Serial, Spoils, Running, NoDeletion
<1>4. Good
  BY DEF Good
<1> QED
  BY <1>1, <1>2, <1>3, <1>4 DEF SInv

LEMMA StepSays == IInv /\ SInv /\ Next => SInv' /\ \A k \in Jobs : BecomesTrue(k)
<1> SUFFICES ASSUME IInv, SInv, Next  PROVE SInv' /\ \A k \in Jobs : BecomesTrue(k)
  OBVIOUS
<1>1. CASE \E j \in Jobs : AskStart(j) \/ Reserve(j) \/ StartRefused(j) \/ Spawn(j) \/ CancelByUser(j)
  BY <1>1, StartStepSays
<1>2. CASE \E j \in Jobs : TaskStep(j)
  BY <1>2, TaskStepSays
<1>3. CASE \E x \in Deletions : BeginDeletion(x) \/ BeatFails(x)
  BY <1>3, BeginsQuietly, BeatFailsSays
<1>4. CASE \E x \in Deletions : DeletionStep(x)
  BY <1>4, QuietStepSays, StageSays, DecideSays DEF DeletionStep
<1>5. CASE PendingLapses \/ (\E d \in Dests : Expire(d)) \/ Revoke \/ Join \/ Drained
  BY <1>5, BridgeStepSays
<1>6. CASE Restart
  BY <1>6, RestartSays
<1> QED
  BY <1>1, <1>2, <1>3, <1>4, <1>5, <1>6 DEF Next

LEMMA StutterSays == IInv /\ SInv /\ UNCHANGED vars => SInv'
<1> SUFFICES ASSUME IInv, SInv, UNCHANGED vars  PROVE SInv'
  OBVIOUS
<1>1. TableTypes /\ Remembered /\ Told /\ DiskInv /\ UNCHANGED table /\ UNCHANGED <<del, file, task>>
  BY DEF IInv, SInv, DiskInv, vars, disk
<1>2. DiskInv'
  BY <1>1, GoodKept
<1> QED
  BY <1>1, <1>2, SilentTable, SameStatusSays

\* What a job says is what happened (download.rs), for any jobs, destinations,
\* deletions, faults and restarts: an end is final until it is forgotten, a user
\* who was told that the cancel is accepted never sees another end, and "ready"
\* means that the file is there, unless a deletion that lost its leases took it.
THEOREM StatusesAreTrue == Spec => StatusIsTrue
<1>1. IInv /\ SInv /\ [Next]_vars => SInv' /\ [\A j \in Jobs : BecomesTrue(j)]_vars
  BY StepSays, StutterSays
<1> QED
  BY <1>1, IInvHolds, InitHasSInv, PTL DEF Spec, StatusIsTrue
=============================================================================
