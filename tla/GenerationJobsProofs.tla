------------------------- MODULE GenerationJobsProofs -------------------------
(***************************************************************************)
(* What holds of the generation jobs for every set of runs, every mix of   *)
(* requests, any number of images and of crashes: a key stands for one     *)
(* job, a status is true and final, and no file is lost to a sweep.        *)
(***************************************************************************)
EXTENDS GenerationJobs, TLAPS

\* The provider never returns more than was asked for.
Bounded == \A w \in Runs : images[w] <= Requested(w)

\* A run has no row before it has created it.
Created == \A w \in Runs : pc[w] \in {"idle", "lookup", "replay", "create"} => row[w] = "none"

\* A run that replays has found the job of a request like its own, and the
\* status it has read is still the status if it was final.
Seen ==
  \A w \in Runs : pc[w] = "replay" =>
    /\ seen[w].job \in Runs /\ seen[w].status \in Statuses
    /\ Kind(seen[w].job) = Kind(w)
    /\ seen[w].status \in Terminal => row[seen[w].job] = seen[w].status

\* Where a run must be in the hands of the gate: a run between its files and its
\* rows always, the others from their request until they answer or fail.
Held ==
  \A w \in Runs :
    /\ pc[w] \in {"commit", "layer", "cleanup"} => holds[w]
    /\ Kind(w) # "edit" /\ pc[w] \in {"lookup", "replay", "create", "generate", "write"} => holds[w]

\* Only the edit tools save a layer, and complete their job after it.
Edits == \A w \in Runs : pc[w] \in {"layer", "complete"} => Kind(w) = "edit"

\* How far its files and rows a run has come: none before it writes, no row
\* before it commits, and all of both where it saves its layer.
Stages ==
  \A w \in Runs :
    /\ pc[w] \in {"idle", "lookup", "replay", "create", "generate", "write"}
         => files[w] = 0 /\ assets[w] = 0
    /\ pc[w] = "commit" => files[w] = images[w] /\ assets[w] = 0
    /\ pc[w] = "layer" => files[w] = images[w] /\ assets[w] = images[w]
    /\ pc[w] = "cleanup" => files[w] = images[w] /\ (assets[w] = 0 \/ "row" \in swallowed[w])

\* The owner of the gate is alone.
Owned == gate = "owned" => \A w \in Runs : ~ holds[w]

\* The parts of TypeOK: where everything stands, what it holds, and the polls.
ControlTypes ==
  /\ gate \in {"open", "draining", "owned"}
  /\ crashes \in 0 .. MaxCrashes
  /\ req \in [Runs -> Requests]
  /\ pc \in [Runs -> {"idle", "lookup", "replay", "create", "generate", "write",
                      "commit", "layer", "complete", "cleanup", "fail", "done", "dead"}]
  /\ holds \in [Runs -> BOOLEAN]
  /\ old \in [Runs -> BOOLEAN]
PollTypes ==
  /\ client \in [Runs -> {"asks", "told", "stopped"}]
  /\ misses \in [Runs -> 0 .. MaxPollErrors]
  /\ poll \in [Runs -> Polls]
DataTypes ==
  /\ images \in [Runs -> 0 .. Count]
  /\ seen \in [Runs -> [job : Runs \cup {NoRun}, status : Statuses \cup {"none"}]]
  /\ reply \in [Runs -> [status : Statuses \cup {"none", "conflict"}, assets : 0 .. Count]]
  /\ row \in [Runs -> Statuses \cup {"none"}]
  /\ assets \in [Runs -> 0 .. Count]
  /\ files \in [Runs -> 0 .. Count]
  /\ swallowed \in [Runs -> SUBSET {"file", "row", "status"}]

\* A client that still asks has met fewer errors than make it stop.
Patient == \A w \in Runs : client[w] = "asks" => misses[w] < MaxPollErrors

IInv ==
  /\ TypeOK /\ Bounded /\ Created /\ Seen /\ Held /\ Edits /\ Owned /\ Stages /\ Patient
  /\ JobsMatchTheirAssets /\ OneRunPerKey /\ RepliesAreWhole /\ FilesAreExplained

-----------------------------------------------------------------------------
(* The operators.                                                          *)

\* A run asks for at least one image and for no more than the bound.
LEMMA RequestedInRange ==
  ASSUME TypeOK, NEW w \in Runs
  PROVE  Requested(w) \in 1 .. Count
BY CountPositive DEF TypeOK, Requested

\* A status and a number of assets, of which as many as k were asked for, agree.
Agrees(k, status, n) ==
  /\ status \in Terminal => (n = 0 <=> status = "FAILED") /\ (n = k <=> status = "SUCCEEDED")
  /\ status \notin Terminal => n = 0

LEMMA StatusAgrees ==
  ASSUME NEW k \in Nat \ {0}, NEW n \in Nat, NEW status \in Statuses \cup {"none"}
  PROVE  Agrees(k, status, n) <=>
           IF status \in Terminal THEN status = (CASE n = 0 -> "FAILED"
                                                  [] n = k -> "SUCCEEDED"
                                                  [] OTHER -> "PARTIAL")
                                  ELSE n = 0
<1>1. k # 0
  OBVIOUS
<1>2. CASE n = 0
  BY <1>1, <1>2, Zenon DEF Agrees
<1>3. CASE n # 0 /\ n = k
  BY <1>3, Zenon DEF Agrees
<1>4. CASE n # 0 /\ n # k
  BY <1>4, Zenon DEF Agrees, Terminal, Statuses
<1> QED
  BY <1>2, <1>3, <1>4

\* What a whole reply is, status by status.
Whole(r) ==
  /\ r.status = "SUCCEEDED" => r.assets = Count
  /\ r.status = "PARTIAL" => r.assets \in 1 .. Count - 1
  /\ r.status \in {"RUNNING", "FAILED"} => r.assets = 0

LEMMA ReplyIsWhole ==
  ASSUME NEW r, r.status \in Statuses
  PROVE  Whole(r) <=> CASE r.status = "SUCCEEDED" -> r.assets = Count
                        [] r.status = "PARTIAL" -> r.assets \in 1 .. Count - 1
                        [] OTHER -> r.assets = 0
<1>1. CASE r.status = "SUCCEEDED"
  BY <1>1, Zenon DEF Whole
<1>2. CASE r.status = "PARTIAL"
  BY <1>2, Zenon DEF Whole
<1>3. CASE r.status \in {"RUNNING", "FAILED"}
  BY <1>3, Zenon DEF Whole
<1> QED
  BY <1>1, <1>2, <1>3 DEF Statuses

\* finalGenerationStatus gives a terminal status that agrees with the number.
LEMMA FinalAgrees ==
  ASSUME TypeOK, NEW w \in Runs, NEW n \in 0 .. Count, n <= Requested(w)
  PROVE  Final(w, n) \in Terminal /\ Agrees(Requested(w), Final(w, n), n)
<1>1. Requested(w) \in Nat /\ Requested(w) # 0 /\ n \in Nat
  BY RequestedInRange, CountPositive
<1>2. CASE n = 0
  <2>1. ~ (n > 0 /\ n < Requested(w))
    BY <1>1, <1>2
  <2>2. Final(w, n) = "FAILED"
    BY <1>2, <2>1, Zenon DEF Final
  <2> QED
    BY <1>1, <1>2, <2>2 DEF Agrees, Terminal, Statuses
<1>3. CASE n = Requested(w)
  <2>1. ~ (n = 0) /\ ~ (n > 0 /\ n < Requested(w))
    BY <1>1, <1>3
  <2>2. Final(w, n) = "SUCCEEDED"
    BY <2>1, Zenon DEF Final
  <2> QED
    BY <1>1, <1>3, <2>2 DEF Agrees, Terminal, Statuses
<1>4. CASE n # 0 /\ n # Requested(w)
  <2>1. ~ (n = 0) /\ n > 0 /\ n < Requested(w)
    BY <1>1, <1>4
  <2>2. Final(w, n) = "PARTIAL"
    BY <2>1, Zenon DEF Final
  <2> QED
    BY <1>1, <1>4, <2>2 DEF Agrees, Terminal, Statuses
<1> QED
  BY <1>2, <1>3, <1>4

\* What a look-up finds is a run with a row.
LEMMA FoundHasRow ==
  ASSUME NEW w \in Runs, WithKeyOf(w) # {}
  PROVE  /\ (CHOOSE v \in WithKeyOf(w) : TRUE) \in Runs
         /\ row[CHOOSE v \in WithKeyOf(w) : TRUE] # "none"
<1>1. (CHOOSE v \in WithKeyOf(w) : TRUE) \in WithKeyOf(w)
  OBVIOUS
<1> QED
  BY <1>1 DEF WithKeyOf

-----------------------------------------------------------------------------
(* A row is created once, by a run that found no other with its key, and   *)
(* settled once.                                                           *)

Creates(w) ==
  /\ pc[w] = "create" /\ pc'[w] = "generate" /\ ~ KeyTaken(w)
  /\ row' = [row EXCEPT ![w] = "RUNNING"] /\ assets' = assets
Settles(w) == row[w] = "RUNNING" /\ \E s \in Terminal : row' = [row EXCEPT ![w] = s]

LEMMA RowForms ==
  ASSUME IInv, Next
  PROVE  \/ row' = row
         \/ \E w \in Runs : Creates(w) \/ Settles(w)
<1> USE DEF IInv, TypeOK, rows
<1>1. ASSUME NEW w \in Runs, Create(w)  PROVE row' = row \/ Creates(w)
  BY <1>1 DEF Create, Creates, Become
<1>2. ASSUME NEW w \in Runs, Commit(w) \/ Complete(w)  PROVE row' = row \/ Settles(w)
  <2>1. images[w] \in 0 .. Count /\ images[w] <= Requested(w)
    BY DEF Bounded
  <2>2. Final(w, images[w]) \in Terminal
    BY <2>1, FinalAgrees
  <2> QED
    BY <1>2, <2>2 DEF Commit, Complete, Completes, Settles
<1>3. ASSUME NEW w \in Runs, Fail(w)  PROVE row' = row \/ Settles(w)
  BY <1>3 DEF Fail, FailedRow, Settles, Terminal, Statuses
<1>4. ASSUME NEW w \in Runs, PollAnswer(w)  PROVE row' = row \/ Settles(w)
  BY <1>4 DEF PollAnswer, StaleRow, FailedRow, Settles, Terminal, Statuses
<1>5. ASSUME NEW w \in Runs,
             \/ Request(w) \/ LookUp(w) \/ Replay(w) \/ Generate(w) \/ WriteFiles(w)
             \/ CommitAsset(w) \/ SaveLayer(w) \/ CleanUp(w) \/ Age(w) \/ PollRead(w)
             \/ PollEnd(w) \/ Leave(w) \/ Rejoin(w)
      PROVE  row' = row
  BY <1>5 DEF Request, LookUp, Replay, Generate, WriteFiles, CommitAsset, SaveLayer, CleanUp,
              Age, PollRead, PollEnd, Leave, Rejoin
<1>6. CASE GateCloses \/ GateMoves \/ Crash
  BY <1>6 DEF GateCloses, GateMoves, Crash
<1> QED
  BY <1>1, <1>2, <1>3, <1>4, <1>5, <1>6 DEF Next, Work, Poll

-----------------------------------------------------------------------------
(* Types.                                                                  *)

\* What a run does and sees keeps its type (the steps of one run).
\* A step that moves a run and lets go of its hold, and touches nothing else.
LEMMA MoveTyped ==
  ASSUME ControlTypes, NEW w \in Runs, UNCHANGED <<gate, crashes, req, old>>,
         NEW step \in {"write", "commit", "layer", "complete", "cleanup", "fail", "done",
                      "create", "replay"},
         pc' = [pc EXCEPT ![w] = step],
         holds' = holds \/ \E b \in BOOLEAN : holds' = [holds EXCEPT ![w] = b]
  PROVE  ControlTypes'
<1>1. pc' \in [Runs -> {"idle", "lookup", "replay", "create", "generate", "write",
                      "commit", "layer", "complete", "cleanup", "fail", "done", "dead"}]
  BY DEF ControlTypes
<1>2. holds' \in [Runs -> BOOLEAN]
  BY DEF ControlTypes
<1> QED
  BY <1>1, <1>2 DEF ControlTypes

LEMMA ControlStep == IInv /\ Next => ControlTypes'
<1> SUFFICES ASSUME TypeOK, Next  PROVE ControlTypes'
  BY DEF IInv
<1> USE DEF TypeOK, ControlTypes
<1>1. ASSUME NEW w \in Runs, Request(w) \/ LookUp(w) \/ Replay(w) \/ Create(w)
      PROVE  ControlTypes'
  <2>1. CASE Request(w)
    BY <2>1 DEF Request, Become
  <2>2. CASE LookUp(w) \/ Replay(w)
    <3>1. /\ \E step \in {"create", "replay", "done"} : pc' = [pc EXCEPT ![w] = step]
          /\ UNCHANGED holds \/ holds' = [holds EXCEPT ![w] = FALSE]
          /\ UNCHANGED <<gate, crashes, req, old>>
      <4> HIDE DEF TypeOK, ControlTypes
      <4>1. CASE LookUp(w)
        BY <4>1 DEF LookUp, Become, Answer, LetGo
      <4>2. CASE Replay(w)
        BY <4>2 DEF Replay, Become, Answer, LetGo
      <4> QED
        BY <2>2, <4>1, <4>2
    <3>2. ControlTypes
      OBVIOUS
    <3> HIDE DEF TypeOK, ControlTypes
    <3> QED
      BY <3>1, <3>2, MoveTyped
  <2>4. CASE Create(w)
    BY <2>4 DEF Create, Become, LetGo
  <2> QED
    BY <1>1, <2>1, <2>2, <2>4
<1>2. ASSUME NEW w \in Runs, \/ Generate(w) \/ WriteFiles(w) \/ CleanUp(w) \/ Fail(w)
                             \/ Commit(w) \/ CommitAsset(w) \/ SaveLayer(w) \/ Complete(w)
      PROVE  ControlTypes'
  <2> DEFINE Steps == {"write", "commit", "layer", "complete", "cleanup", "fail", "done"}
  <2>0. ControlTypes
    OBVIOUS
  <2> HIDE DEF TypeOK, ControlTypes
  <2>1. UNCHANGED <<gate, crashes, req, old>>
    BY <1>2 DEF Generate, WriteFiles, CleanUp, Fail, Commit, CommitAsset, SaveLayer, Complete
  <2>2. /\ \E step \in Steps : pc' = [pc EXCEPT ![w] = step]
        /\ holds' = holds \/ \E b \in BOOLEAN : holds' = [holds EXCEPT ![w] = b]
    <3>1. CASE Fails(w)
      BY <3>1 DEF Fails, Become, LetGo
    <3>2. CASE ~ Fails(w) /\ (Generate(w) \/ WriteFiles(w))
      BY <3>2 DEF Generate, WriteFiles, Become, SaveLease
    <3>4. CASE ~ Fails(w) /\ (CleanUp(w) \/ Fail(w))
      BY <3>4 DEF CleanUp, Fail, Become, LetGo
    <3>3. CASE ~ Fails(w) /\ (Commit(w) \/ CommitAsset(w) \/ SaveLayer(w) \/ Complete(w))
      BY <3>3 DEF Commit, CommitAsset, SaveLayer, Complete, Become, LetGo
    <3> QED
      BY <1>2, <3>1, <3>2, <3>3, <3>4
  <2> QED
    BY <2>0, <2>1, <2>2, MoveTyped
<1>4. ASSUME NEW w \in Runs, Age(w)  PROVE ControlTypes'
  BY <1>4 DEF Age
<1>5. ASSUME NEW w \in Runs, Poll(w) \/ Leave(w) \/ Rejoin(w)  PROVE ControlTypes'
  BY <1>5 DEF Poll, PollRead, PollAnswer, PollEnd, Leave, Rejoin
<1>6. CASE GateCloses \/ GateMoves
  BY <1>6 DEF GateCloses, GateMoves
<1>7. CASE Crash
  BY <1>7, BoundIsNat DEF Crash
<1> QED
  BY <1>1, <1>2, <1>4, <1>5, <1>6, <1>7 DEF Next, Work

\* A poll reads a status, is told one or gets lost, and its client counts errors
\* no further than to the one that makes it stop.
LEMMA PollStep == IInv /\ Next => PollTypes' /\ Patient'
<1> SUFFICES ASSUME PollTypes, Patient, row \in [Runs -> Statuses \cup {"none"}], Next
             PROVE  PollTypes' /\ Patient'
  BY DEF IInv, TypeOK, PollTypes
<1> USE DEF PollTypes, Patient, polls
<1>1. ASSUME NEW w \in Runs, PollRead(w) \/ PollAnswer(w)
      PROVE  /\ \E p \in Polls : poll' = [poll EXCEPT ![w] = p]
             /\ UNCHANGED <<client, misses>>
  <2>1. poll[w] \in Polls /\ row[w] \in Statuses \cup {"none"} /\ LostPoll \in Polls
    BY DEF Polls, LostPoll
  <2>2. CASE PollRead(w)
    <3>1. [poll[w] EXCEPT !.status = row[w]] \in Polls
      BY <2>1 DEF Polls
    <3>2. \/ poll' = [poll EXCEPT ![w] = [poll[w] EXCEPT !.status = row[w]]]
          \/ poll' = [poll EXCEPT ![w] = LostPoll]
      BY <2>2 DEF PollRead
    <3> QED
      BY <2>1, <2>2, <3>1, <3>2 DEF PollRead
  <2>3. CASE PollAnswer(w)
    <3>1. /\ [poll[w] EXCEPT !.told = "FAILED"] \in Polls
          /\ poll[w].status \in Statuses => [poll[w] EXCEPT !.told = poll[w].status] \in Polls
      BY <2>1 DEF Polls, Statuses
    <3>2. \/ poll' = [poll EXCEPT ![w] = [poll[w] EXCEPT !.told = "FAILED"]]
          \/ poll' = [poll EXCEPT ![w] = [poll[w] EXCEPT !.told = poll[w].status]]
          \/ poll' = [poll EXCEPT ![w] = LostPoll]
      BY <2>3 DEF PollAnswer
    <3>3. poll[w].status \in Statuses /\ UNCHANGED <<client, misses>>
      BY <2>3 DEF PollAnswer
    <3> QED
      BY <2>1, <3>1, <3>2, <3>3
  <2> QED
    BY <1>1, <2>2, <2>3
<1>2. ASSUME NEW w \in Runs, PollEnd(w)
      PROVE  /\ poll' = [poll EXCEPT ![w] = NoPoll]
             /\ \/ UNCHANGED <<client, misses>>
                \/ /\ client[w] = "asks"
                   /\ \E c \in {"asks", "told", "stopped"}, m \in {0, misses[w] + 1} :
                        /\ client' = [client EXCEPT ![w] = c]
                        /\ misses' = [misses EXCEPT ![w] = m]
                        /\ c = "asks" => m # MaxPollErrors
  BY <1>2, PollErrorsPositive DEF PollEnd
<1>3. ASSUME NEW w \in Runs, PollEnd(w)  PROVE PollTypes' /\ Patient'
  <2>1. NoPoll \in Polls /\ 0 \in 0 .. MaxPollErrors /\ misses[w] \in 0 .. MaxPollErrors
    BY PollErrorsPositive DEF Polls, NoPoll
  <2>2. client[w] = "asks" => misses[w] + 1 \in 0 .. MaxPollErrors
    BY <2>1, PollErrorsPositive
  <2> QED
    BY <1>2, <1>3, <2>1, <2>2, PollErrorsPositive
<1>4. ASSUME NEW w \in Runs, Leave(w) \/ Rejoin(w)  PROVE PollTypes' /\ Patient'
  BY <1>4, PollErrorsPositive DEF Leave, Rejoin
<1>5. CASE Crash
  BY <1>5 DEF Crash, Polls, LostPoll
<1>6. ASSUME NEW w \in Runs, Request(w) \/ Work(w) \/ Age(w)  PROVE UNCHANGED polls
  BY <1>6 DEF Work, Request, LookUp, Replay, Create, Generate, WriteFiles, Commit, CommitAsset,
              SaveLayer, Complete, CleanUp, Fail, Age
<1>7. CASE GateCloses \/ GateMoves
  BY <1>7 DEF GateCloses, GateMoves
<1> QED
  BY <1>1, <1>3, <1>4, <1>5, <1>6, <1>7 DEF Next, Poll

LEMMA DataStep == IInv /\ Next => DataTypes'
<1> SUFFICES ASSUME IInv, Next  PROVE DataTypes'
  OBVIOUS
<1> USE DEF IInv, TypeOK, DataTypes, rows
<1>1. row' \in [Runs -> Statuses \cup {"none"}]
  BY RowForms DEF Creates, Settles, Terminal, Statuses
<1>2. ASSUME NEW w \in Runs, LookUp(w)  PROVE DataTypes'
  <2>0. CASE Answer(w, NoAnswer) /\ UNCHANGED seen
    BY <1>1, <1>2, <2>0, CountPositive DEF LookUp, Answer, NoAnswer
  <2>1. CASE ~ (Answer(w, NoAnswer) /\ UNCHANGED seen) /\ WithKeyOf(w) = {}
    BY <1>2, <2>1 DEF LookUp
  <2>2. CASE ~ (Answer(w, NoAnswer) /\ UNCHANGED seen) /\ WithKeyOf(w) # {}
    <3> DEFINE v == CHOOSE v \in WithKeyOf(w) : TRUE
    <3>1. v \in Runs /\ row[v] \in Statuses
      BY <2>2, FoundHasRow
    <3> HIDE DEF v
    <3>2. \/ seen' = [seen EXCEPT ![w] = [job |-> v, status |-> row[v]]] /\ UNCHANGED reply
          \/ reply' = [reply EXCEPT ![w] = [status |-> "conflict", assets |-> 0]] /\ UNCHANGED seen
      BY <1>2, <2>2 DEF LookUp, Answer, v
    <3>3. UNCHANGED <<images, rows>>
      BY <1>2 DEF LookUp
    <3>4. [job |-> v, status |-> row[v]] \in [job : Runs \cup {NoRun}, status : Statuses \cup {"none"}]
      BY <3>1
    <3>5. [status |-> "conflict", assets |-> 0]
            \in [status : Statuses \cup {"none", "conflict"}, assets : 0 .. Count]
      BY CountPositive
    <3> DEFINE Replies == [status : Statuses \cup {"none", "conflict"}, assets : 0 .. Count]
               Sights == [job : Runs \cup {NoRun}, status : Statuses \cup {"none"}]
    <3>6. reply \in [Runs -> Replies] /\ seen \in [Runs -> Sights]
      OBVIOUS
    <3> HIDE DEF IInv, TypeOK, DataTypes, Replies, Sights
    <3>7. reply' \in [Runs -> Replies] /\ seen' \in [Runs -> Sights]
      <4>1. [job |-> v, status |-> row[v]] \in Sights
        BY <3>4 DEF Sights
      <4>2. [status |-> "conflict", assets |-> 0] \in Replies
        BY <3>5 DEF Replies
      <4> QED
        BY <3>2, <3>6, <4>1, <4>2
    <3> QED
      BY <1>1, <3>3, <3>7 DEF IInv, TypeOK, DataTypes, Replies, Sights
  <2> QED
    BY <2>0, <2>1, <2>2
<1>3. ASSUME NEW w \in Runs, Replay(w)  PROVE DataTypes'
  <2>1. seen[w].job \in Runs /\ seen[w].status \in Statuses
    BY <1>3 DEF Replay, Seen
  <2>2. \E n \in {0, assets[seen[w].job]}, s \in {"none", seen[w].status} :
          reply' = [reply EXCEPT ![w] = [status |-> s, assets |-> n]]
    BY <1>3 DEF Replay, Answer, StatusFirst, NoAnswer
  <2>3. 0 \in 0 .. Count /\ assets[seen[w].job] \in 0 .. Count
    BY <2>1, CountPositive
  <2> QED
    BY <1>3, <2>1, <2>2, <2>3 DEF Replay
<1>4. ASSUME NEW w \in Runs, Generate(w)  PROVE DataTypes'
  <2>1. images' = images \/ \E n \in 0 .. Requested(w) : images' = [images EXCEPT ![w] = n]
    BY <1>4 DEF Generate
  <2>2. 0 .. Requested(w) \subseteq 0 .. Count
    BY RequestedInRange, CountPositive
  <2>3. images' \in [Runs -> 0 .. Count]
    BY <2>1, <2>2
  <2> QED
    BY <1>4, <2>3 DEF Generate
<1>5. ASSUME NEW w \in Runs, \/ WriteFiles(w) \/ CleanUp(w) \/ SaveLayer(w) \/ Fail(w)
                             \/ Commit(w) \/ CommitAsset(w)
      PROVE  DataTypes'
  <2>1. files' = files \/ \E n \in 0 .. Count : files' = [files EXCEPT ![w] = n]
    <3>1. images[w] \in 0 .. Count /\ files[w] \in 0 .. Count /\ 0 \in 0 .. Count
      BY CountPositive
    <3>2. 1 .. images[w] - 1 \subseteq 0 .. Count /\ 1 .. files[w] \subseteq 0 .. Count
      BY <3>1, CountPositive
    <3>3. \/ files' = files
          \/ \E n \in (1 .. images[w] - 1) \cup (1 .. files[w]) \cup {0, images[w]} :
               files' = [files EXCEPT ![w] = n]
      BY <1>5 DEF WriteFiles, CleanUp, DeletedFiles, SaveLayer, Fail, Commit, CommitAsset
    <3> QED
      BY <3>1, <3>2, <3>3
  <2>2. assets' = assets \/ \E n \in {0, images[w]} : assets' = [assets EXCEPT ![w] = n]
    BY <1>5 DEF WriteFiles, CleanUp, SaveLayer, Fail, Commit, CommitAsset
  <2>3. \/ swallowed' = swallowed
        \/ \E what \in {"file", "row", "status"} :
             swallowed' = [swallowed EXCEPT ![w] = @ \cup {what}]
    BY <1>5 DEF WriteFiles, CleanUp, SaveLayer, Fail, Commit, CommitAsset, Swallows
  <2>4. 0 \in 0 .. Count /\ images[w] \in 0 .. Count
    BY CountPositive
  <2>5. UNCHANGED <<images, seen, reply>>
    BY <1>5 DEF WriteFiles, CleanUp, SaveLayer, Fail, Commit, CommitAsset
  <2>6. files' \in [Runs -> 0 .. Count]
    BY <2>1
  <2>7. assets' \in [Runs -> 0 .. Count]
    BY <2>2, <2>4
  <2>8. swallowed' \in [Runs -> SUBSET {"file", "row", "status"}]
    BY <2>3
  <2> QED
    BY <1>1, <2>5, <2>6, <2>7, <2>8
<1>7. ASSUME NEW w \in Runs, Request(w) \/ Create(w) \/ Complete(w) \/ Age(w)  PROVE DataTypes'
  BY <1>1, <1>7 DEF Request, Create, Complete, Age
<1>8. ASSUME NEW w \in Runs, Poll(w) \/ Leave(w) \/ Rejoin(w)  PROVE DataTypes'
  <2>1. UNCHANGED <<images, seen, reply, assets, files, swallowed>>
    <3> HIDE DEF IInv, TypeOK, DataTypes
    <3>1. CASE PollRead(w) \/ PollAnswer(w)
      BY <3>1 DEF PollRead, PollAnswer
    <3>2. CASE PollEnd(w) \/ Leave(w) \/ Rejoin(w)
      BY <3>2 DEF PollEnd, Leave, Rejoin
    <3> QED
      BY <1>8, <3>1, <3>2 DEF Poll
  <2> QED
    BY <1>1, <2>1
<1>9. CASE GateCloses \/ GateMoves \/ Crash
  BY <1>1, <1>9 DEF GateCloses, GateMoves, Crash
<1> QED
  BY <1>2, <1>3, <1>4, <1>5, <1>7, <1>8, <1>9 DEF Next, Work

-----------------------------------------------------------------------------
(* The run and its row.                                                    *)

LEMMA RequestsStay == Next => req' = req
<1>1. ASSUME NEW w \in Runs, Work(w)  PROVE req' = req
  <2>1. CASE LookUp(w) \/ Replay(w) \/ Create(w) \/ Generate(w) \/ WriteFiles(w) \/ Fail(w)
    BY <2>1 DEF LookUp, Replay, Create, Generate, WriteFiles, Fail
  <2>2. CASE Commit(w) \/ CommitAsset(w) \/ SaveLayer(w) \/ Complete(w) \/ CleanUp(w)
    BY <2>2 DEF Commit, CommitAsset, SaveLayer, Complete, CleanUp
  <2> QED
    BY <1>1, <2>1, <2>2 DEF Work
<1>2. ASSUME NEW w \in Runs, Request(w) \/ Age(w) \/ Poll(w) \/ Leave(w) \/ Rejoin(w)
      PROVE  req' = req
  BY <1>2 DEF Request, Age, Poll, PollRead, PollAnswer, PollEnd, Leave, Rejoin
<1>3. CASE GateCloses \/ GateMoves \/ Crash
  BY <1>3 DEF GateCloses, GateMoves, Crash
<1> QED
  BY <1>1, <1>2, <1>3 DEF Next

LEMMA BoundedStep == IInv /\ Next => Bounded'
<1> SUFFICES ASSUME IInv, Next  PROVE Bounded'
  OBVIOUS
<1> USE DEF IInv, TypeOK, Bounded, Requested, Kind
<1>1. ASSUME NEW w \in Runs, Generate(w)  PROVE Bounded'
  <2>1. images' = images \/ \E n \in 0 .. Requested(w) : images' = [images EXCEPT ![w] = n]
    BY <1>1 DEF Generate
  <2>2. Requested(w) \in 1 .. Count /\ req' = req
    BY RequestedInRange, RequestsStay
  <2>3. \A v \in Runs : images'[v] <= Requested(v)
    <3> HIDE DEF Requested
    <3> QED
      BY <2>1, <2>2, CountPositive
  <2> QED
    BY <2>2, <2>3
<1>2. UNCHANGED images \/ \E w \in Runs : Generate(w)
  <2> HIDE DEF IInv, TypeOK, Bounded, Requested, Kind
  <2>1. ASSUME NEW w \in Runs, Work(w)  PROVE UNCHANGED images \/ Generate(w)
    <3>1. CASE LookUp(w) \/ Replay(w) \/ Create(w) \/ WriteFiles(w) \/ Fail(w)
      BY <3>1 DEF LookUp, Replay, Create, WriteFiles, Fail
    <3>2. CASE Commit(w) \/ CommitAsset(w) \/ SaveLayer(w) \/ Complete(w) \/ CleanUp(w)
      BY <3>2 DEF Commit, CommitAsset, SaveLayer, Complete, CleanUp
    <3> QED
      BY <2>1, <3>1, <3>2 DEF Work
  <2>2. ASSUME NEW w \in Runs, Request(w) \/ Age(w) \/ Poll(w) \/ Leave(w) \/ Rejoin(w)
        PROVE  UNCHANGED images
    BY <2>2 DEF Request, Age, Poll, PollRead, PollAnswer, PollEnd, Leave, Rejoin
  <2>3. CASE GateCloses \/ GateMoves \/ Crash
    BY <2>3 DEF GateCloses, GateMoves, Crash
  <2> QED
    BY <2>1, <2>2, <2>3 DEF Next
<1>3. UNCHANGED req
  BY RequestsStay
<1> QED
  BY <1>1, <1>2, <1>3

\* A run comes to one of its first steps from another of them.
LEMMA EarlySteps ==
  ASSUME IInv, Next, NEW w \in Runs
  PROVE  /\ pc'[w] \in {"idle", "lookup", "replay", "create"}
              => pc[w] \in {"idle", "lookup", "replay", "create"}
         /\ pc'[w] = "replay" => (pc[w] = "replay" /\ seen'[w] = seen[w]) \/ LookUp(w)
<1> USE DEF IInv, TypeOK, Become
<1>1. ASSUME NEW v \in Runs, Request(v) \/ LookUp(v) \/ Replay(v) \/ Create(v)
      PROVE  /\ pc[v] \in {"idle", "lookup", "replay", "create"}
             /\ \A u \in Runs \ {v} : pc'[u] = pc[u] /\ seen'[u] = seen[u]
             /\ pc'[v] = "replay" => LookUp(v)
  BY <1>1 DEF Request, LookUp, Replay, Create, Answer
<1>2. ASSUME NEW v \in Runs,
             \/ Generate(v) \/ WriteFiles(v) \/ Commit(v) \/ CommitAsset(v) \/ SaveLayer(v)
             \/ Complete(v) \/ CleanUp(v) \/ Fail(v)
      PROVE  /\ UNCHANGED seen
             /\ pc'[v] \notin {"idle", "lookup", "replay", "create"}
             /\ \A u \in Runs \ {v} : pc'[u] = pc[u]
  BY <1>2 DEF Generate, WriteFiles, Commit, CommitAsset, SaveLayer, Complete, CleanUp, Fail, Fails
<1>3. ASSUME \/ \E v \in Runs : Age(v) \/ Poll(v) \/ Leave(v) \/ Rejoin(v)
             \/ GateCloses \/ GateMoves
      PROVE  UNCHANGED <<pc, seen>>
  BY <1>3 DEF Age, Poll, PollRead, PollAnswer, PollEnd, Leave, Rejoin, GateCloses, GateMoves
<1>4. CASE Crash
  BY <1>4 DEF Crash
<1> QED
  BY <1>1, <1>2, <1>3, <1>4 DEF Next, Work

LEMMA CreatedStep == IInv /\ Next => Created'
<1> SUFFICES ASSUME IInv, Next, NEW w \in Runs,
                    pc'[w] \in {"idle", "lookup", "replay", "create"}
             PROVE  row'[w] = "none"
  BY DEF Created
<1> USE DEF IInv, TypeOK
<1>1. pc[w] \in {"idle", "lookup", "replay", "create"} /\ row[w] = "none"
  BY EarlySteps DEF Created
<1> QED
  BY <1>1, RowForms DEF Creates, Settles

LEMMA SeenStep == IInv /\ Next => Seen'
<1> SUFFICES ASSUME IInv, Next, NEW w \in Runs, pc'[w] = "replay"
             PROVE  /\ seen'[w].job \in Runs /\ seen'[w].status \in Statuses
                    /\ req'[seen'[w].job].kind = req'[w].kind
                    /\ seen'[w].status \in Terminal => row'[seen'[w].job] = seen'[w].status
  BY DEF Seen, Kind
<1> USE DEF IInv, TypeOK
<1>1. req' = req
  BY RequestsStay
<1>2. CASE pc[w] = "replay" /\ seen'[w] = seen[w]
  <2>1. \A v \in Runs : row[v] \in Terminal => row'[v] = row[v]
    BY RowForms DEF Creates, Settles, Created, Terminal, Statuses
  <2> QED
    BY <1>1, <1>2, <2>1 DEF Seen, Kind
<1>3. CASE LookUp(w)
  <2>0. ~ Answer(w, NoAnswer)
    BY DEF Answer, Become
  <2>1. WithKeyOf(w) # {}
    BY <1>3, <2>0 DEF LookUp, Become
  <2> DEFINE v == CHOOSE v \in WithKeyOf(w) : TRUE
  <2>2. v \in Runs /\ row[v] # "none"
    BY <2>1, FoundHasRow
  <2> HIDE DEF v
  <2>3. seen' = [seen EXCEPT ![w] = [job |-> v, status |-> row[v]]] /\ Matches(v, w)
    BY <1>3, <2>0, <2>1 DEF LookUp, Answer, Become, v
  <2>4. UNCHANGED <<req, row>>
    BY <1>3 DEF LookUp, rows
  <2> QED
    BY <2>2, <2>3, <2>4 DEF Matches, Kind
<1> QED
  BY <1>2, <1>3, EarlySteps

\* A key is taken by at most one job: a run creates its row only when no other
\* run of the key has one.
LEMMA OneRunStep == IInv /\ Next => OneRunPerKey'
<1> SUFFICES ASSUME IInv, Next  PROVE OneRunPerKey'
  OBVIOUS
<1> USE DEF IInv, TypeOK
<1>1. req' = req
  BY RequestsStay
<1>2. CASE row' = row
  BY <1>1, <1>2 DEF OneRunPerKey
<1>3. ASSUME NEW w \in Runs, Creates(w)  PROVE OneRunPerKey'
  BY <1>1, <1>3 DEF OneRunPerKey, Creates, KeyTaken, WithKeyOf
<1>4. ASSUME NEW w \in Runs, Settles(w)  PROVE OneRunPerKey'
  BY <1>1, <1>4 DEF OneRunPerKey, Settles
<1> QED
  BY <1>2, <1>3, <1>4, RowForms

-----------------------------------------------------------------------------
(* The gate and the files.                                                 *)

LEMMA HeldStep == IInv /\ Next => Held'
<1> SUFFICES ASSUME IInv, Next  PROVE Held'
  OBVIOUS
<1> USE DEF IInv, TypeOK, Held, Kind, Become
<1>1. req' = req
  BY RequestsStay
<1>2. ASSUME NEW w \in Runs, Request(w) \/ LookUp(w) \/ Replay(w) \/ Create(w)  PROVE Held'
  <2>1. CASE Request(w)
    BY <1>1, <2>1 DEF Request
  <2>2. CASE LookUp(w)
    <3>1. \/ UNCHANGED holds /\ \E s \in {"create", "replay"} : pc' = [pc EXCEPT ![w] = s]
          \/ pc' = [pc EXCEPT ![w] = "done"]
             /\ holds' = [holds EXCEPT ![w] = FALSE]
      BY <2>2 DEF LookUp, Answer, LetGo
    <3> QED
      BY <1>1, <2>2, <3>1 DEF LookUp
  <2>3. CASE Replay(w) \/ Create(w)
    BY <1>1, <2>3 DEF Replay, Create, Answer, LetGo
  <2> QED
    BY <1>2, <2>1, <2>2, <2>3
<1>3. ASSUME NEW w \in Runs, Generate(w) \/ CleanUp(w) \/ Fail(w)  PROVE Held'
  BY <1>1, <1>3 DEF Generate, CleanUp, Fail, Fails, LetGo
<1>4. ASSUME NEW w \in Runs, WriteFiles(w)  PROVE Held'
  BY <1>1, <1>4 DEF WriteFiles, Fails, LetGo, SaveLease
<1>5. ASSUME NEW w \in Runs, Commit(w) \/ CommitAsset(w)  PROVE Held'
  BY <1>1, <1>5 DEF Commit, CommitAsset, LetGo
<1>6. ASSUME NEW w \in Runs, SaveLayer(w) \/ Complete(w)  PROVE Held'
  BY <1>1, <1>6 DEF SaveLayer, Complete, Fails, LetGo
<1>7. CASE Crash
  BY <1>1, <1>7 DEF Crash
<1>8. ASSUME \/ \E w \in Runs : Age(w) \/ Poll(w) \/ Leave(w) \/ Rejoin(w)
             \/ GateCloses \/ GateMoves
      PROVE  Held'
  BY <1>1, <1>8 DEF Age, Poll, PollRead, PollAnswer, PollEnd, Leave, Rejoin, GateCloses, GateMoves
<1> QED
  BY <1>2, <1>3, <1>4, <1>5, <1>6, <1>7, <1>8 DEF Next, Work

\* The gate is given to an owner when nobody holds it, and nobody takes hold
\* while it is owned.
LEMMA OwnedStep == IInv /\ Next => Owned'
<1> SUFFICES ASSUME IInv, Next  PROVE Owned'
  OBVIOUS
<1> USE DEF IInv, TypeOK, Owned
<1>1. ASSUME NEW w \in Runs, Request(w) \/ WriteFiles(w)  PROVE Owned'
  BY <1>1 DEF Request, WriteFiles, Fails, LetGo, Admitted, SaveLease
<1>2. ASSUME NEW w \in Runs,
             \/ LookUp(w) \/ Replay(w) \/ Create(w) \/ Generate(w) \/ Commit(w)
             \/ CommitAsset(w) \/ SaveLayer(w) \/ Complete(w) \/ CleanUp(w) \/ Fail(w)
      PROVE  Owned'
  <2>1. UNCHANGED holds \/ LetGo(w)
    <3>1. CASE LookUp(w) \/ Replay(w) \/ Create(w)
      BY <3>1 DEF LookUp, Replay, Create, Answer
    <3>2. CASE Generate(w) \/ Complete(w) \/ CleanUp(w) \/ Fail(w)
      BY <3>2 DEF Generate, Complete, CleanUp, Fail, Fails
    <3>3. CASE Commit(w) \/ CommitAsset(w) \/ SaveLayer(w)
      BY <3>3 DEF Commit, CommitAsset, SaveLayer
    <3> QED
      BY <1>2, <3>1, <3>2, <3>3
  <2>2. UNCHANGED gate
    BY <1>2 DEF LookUp, Replay, Create, Generate, Commit, CommitAsset, SaveLayer, Complete,
                CleanUp, Fail
  <2> QED
    BY <2>1, <2>2 DEF LetGo
<1>3. CASE GateCloses \/ GateMoves \/ Crash
  BY <1>3 DEF GateCloses, GateMoves, Crash
<1>4. ASSUME \E w \in Runs : Age(w) \/ Poll(w) \/ Leave(w) \/ Rejoin(w)  PROVE Owned'
  BY <1>4 DEF Age, Poll, PollRead, PollAnswer, PollEnd, Leave, Rejoin
<1> QED
  BY <1>1, <1>2, <1>3, <1>4 DEF Next, Work

LEMMA StagesStep == IInv /\ Next => Stages'
<1> SUFFICES ASSUME IInv, Next  PROVE Stages'
  OBVIOUS
<1> USE DEF IInv, TypeOK, Stages, rows, Become
<1>1. ASSUME NEW w \in Runs, Request(w) \/ LookUp(w) \/ Replay(w) \/ Create(w)
      PROVE  Stages'
  BY <1>1 DEF Request, LookUp, Replay, Create, Answer
<1>2. ASSUME NEW w \in Runs, Generate(w)  PROVE Stages'
  BY <1>2 DEF Generate, Fails
<1>3. ASSUME NEW w \in Runs, WriteFiles(w)  PROVE Stages'
  BY <1>3 DEF WriteFiles, Fails, Swallows
<1>4. ASSUME NEW w \in Runs, Commit(w) \/ CommitAsset(w)  PROVE Stages'
  BY <1>4 DEF Commit, CommitAsset
<1>5. ASSUME NEW w \in Runs, SaveLayer(w)  PROVE Stages'
  BY <1>5 DEF SaveLayer, Swallows
<1>6. ASSUME NEW w \in Runs, Complete(w) \/ CleanUp(w) \/ Fail(w)  PROVE Stages'
  BY <1>6 DEF Complete, CleanUp, DeletedFiles, Fail, Fails, Swallows
<1>7. CASE Crash
  BY <1>7 DEF Crash
<1>8. ASSUME \/ \E w \in Runs : Age(w) \/ Poll(w) \/ Leave(w) \/ Rejoin(w)
             \/ GateCloses \/ GateMoves
      PROVE  Stages'
  BY <1>8 DEF Age, Poll, PollRead, PollAnswer, PollEnd, Leave, Rejoin, GateCloses, GateMoves
<1> QED
  BY <1>1, <1>2, <1>3, <1>4, <1>5, <1>6, <1>7, <1>8 DEF Next, Work

LEMMA FilesStep == IInv /\ Next => FilesAreExplained'
<1> SUFFICES ASSUME IInv, Next  PROVE FilesAreExplained'
  OBVIOUS
<1> USE DEF IInv, TypeOK, Stages, FilesAreExplained, rows, Become
<1>1. ASSUME NEW w \in Runs, Request(w) \/ LookUp(w) \/ Replay(w) \/ Create(w)
      PROVE  FilesAreExplained'
  BY <1>1 DEF Request, LookUp, Replay, Create, Answer
<1>2. ASSUME NEW w \in Runs, Generate(w)  PROVE FilesAreExplained'
  BY <1>2 DEF Generate, Fails
<1>3. ASSUME NEW w \in Runs, WriteFiles(w)  PROVE FilesAreExplained'
  BY <1>3 DEF WriteFiles, Fails, Swallows
<1>4. ASSUME NEW w \in Runs, Commit(w) \/ CommitAsset(w)  PROVE FilesAreExplained'
  BY <1>4 DEF Commit, CommitAsset
<1>5. ASSUME NEW w \in Runs, SaveLayer(w)  PROVE FilesAreExplained'
  <2>1. /\ UNCHANGED files /\ files[w] = images[w] /\ assets[w] = images[w]
        /\ \E step \in {"complete", "cleanup"} : pc' = [pc EXCEPT ![w] = step]
    BY <1>5 DEF SaveLayer
  <2>2. \/ UNCHANGED <<assets, swallowed>>
        \/ pc'[w] = "cleanup" /\ assets' = [assets EXCEPT ![w] = 0] /\ UNCHANGED swallowed
        \/ swallowed' = [swallowed EXCEPT ![w] = @ \cup {"row"}] /\ UNCHANGED assets
    BY <1>5 DEF SaveLayer, Swallows
  <2> QED
    BY <2>1, <2>2
<1>6. ASSUME NEW w \in Runs, CleanUp(w)  PROVE FilesAreExplained'
  <2>1. /\ UNCHANGED assets /\ pc[w] = "cleanup" /\ (assets[w] = 0 \/ "row" \in swallowed[w])
        /\ pc' = [pc EXCEPT ![w] = "fail"]
    BY <1>6 DEF CleanUp, Fails
  <2>2. \/ files' = [files EXCEPT ![w] = 0] /\ UNCHANGED swallowed
        \/ /\ \E n \in 1 .. files[w] : files' = [files EXCEPT ![w] = n]
           /\ swallowed' = [swallowed EXCEPT ![w] = @ \cup {"file"}]
    BY <1>6 DEF CleanUp, DeletedFiles, Swallows
  <2> QED
    BY <2>1, <2>2
<1>7. ASSUME NEW w \in Runs, Complete(w) \/ Fail(w)  PROVE FilesAreExplained'
  <2>1. UNCHANGED <<files, assets>> /\ \A v \in Runs : swallowed[v] \subseteq swallowed'[v]
    BY <1>7 DEF Complete, Fail, Swallows
  <2>2. \A v \in Runs : pc'[v] # pc[v] => pc[v] \in {"complete", "fail"}
    BY <1>7 DEF Complete, Fail, Fails
  <2> QED
    BY <2>1, <2>2
<1>8. CASE Crash
  BY <1>8 DEF Crash
<1>9. ASSUME \/ \E w \in Runs : Age(w) \/ Poll(w) \/ Leave(w) \/ Rejoin(w)
             \/ GateCloses \/ GateMoves
      PROVE  FilesAreExplained'
  BY <1>9 DEF Age, Poll, PollRead, PollAnswer, PollEnd, Leave, Rejoin, GateCloses, GateMoves
<1> QED
  BY <1>1, <1>2, <1>3, <1>4, <1>5, <1>6, <1>7, <1>8, <1>9 DEF Next, Work

-----------------------------------------------------------------------------
(* The status, the assets and the replies.                                 *)

LEMMA JobsAgree ==
  ASSUME TypeOK, JobsMatchTheirAssets, NEW w \in Runs, Kind(w) # "edit"
  PROVE  Agrees(Requested(w), row[w], assets[w])
<1>1. Requested(w) \in Nat \ {0} /\ assets[w] \in Nat /\ row[w] \in Statuses \cup {"none"}
  BY RequestedInRange, CountPositive DEF TypeOK
<1> QED
  BY <1>1, StatusAgrees, Zenon DEF JobsMatchTheirAssets

LEMMA EditsStep == IInv /\ Next => Edits'
<1> SUFFICES ASSUME IInv, Next  PROVE Edits'
  OBVIOUS
<1> USE DEF IInv, TypeOK, Edits, Kind, Become
<1>1. req' = req
  BY RequestsStay
<1>2. ASSUME NEW w \in Runs, CommitAsset(w) \/ SaveLayer(w)  PROVE Edits'
  BY <1>1, <1>2 DEF CommitAsset, SaveLayer
<1>3. ASSUME NEW w \in Runs,
             \/ Request(w) \/ LookUp(w) \/ Replay(w) \/ Create(w) \/ Generate(w)
             \/ WriteFiles(w) \/ Commit(w) \/ Complete(w) \/ CleanUp(w) \/ Fail(w)
      PROVE  Edits'
  BY <1>1, <1>3 DEF Request, LookUp, Replay, Create, Generate, WriteFiles, Commit, Complete,
                    CleanUp, Fail, Fails, Answer
<1>4. CASE Crash
  BY <1>1, <1>4 DEF Crash
<1>5. ASSUME \/ \E w \in Runs : Age(w) \/ Poll(w) \/ Leave(w) \/ Rejoin(w)
             \/ GateCloses \/ GateMoves
      PROVE  Edits'
  BY <1>1, <1>5 DEF Age, Poll, PollRead, PollAnswer, PollEnd, Leave, Rejoin, GateCloses, GateMoves
<1> QED
  BY <1>2, <1>3, <1>4, <1>5 DEF Next, Work

\* Assets of anything but an edit come with the status.
LEMMA AssetForms ==
  ASSUME IInv, Next, NEW w \in Runs, Kind(w) # "edit"
  PROVE  \/ row'[w] = row[w] /\ assets'[w] = assets[w]
         \/ row[w] = "none" /\ row'[w] = "RUNNING" /\ assets'[w] = assets[w]
         \/ row[w] = "RUNNING" /\ row'[w] = "FAILED" /\ assets'[w] = assets[w]
         \/ row[w] = "RUNNING" /\ row'[w] = Final(w, images[w]) /\ assets'[w] = images[w]
<1> USE DEF IInv, TypeOK, rows
<1>1. ASSUME NEW v \in Runs, Create(v)
      PROVE  \/ row'[w] = row[w] /\ assets'[w] = assets[w]
             \/ row[w] = "none" /\ row'[w] = "RUNNING" /\ assets'[w] = assets[w]
  BY <1>1 DEF Create, Created
<1>2. ASSUME NEW v \in Runs, Commit(v)
      PROVE  \/ row'[w] = row[w] /\ assets'[w] = assets[w]
             \/ row[w] = "RUNNING" /\ row'[w] = Final(w, images[w]) /\ assets'[w] = images[w]
  BY <1>2 DEF Commit, Completes
<1>3. ASSUME NEW v \in Runs, CommitAsset(v) \/ SaveLayer(v) \/ Complete(v)
      PROVE  row'[w] = row[w] /\ assets'[w] = assets[w]
  BY <1>3 DEF CommitAsset, SaveLayer, Complete, Edits
<1>4. ASSUME NEW v \in Runs, row' = FailedRow(v), assets' = assets
      PROVE  \/ row'[w] = row[w] /\ assets'[w] = assets[w]
             \/ row[w] = "RUNNING" /\ row'[w] = "FAILED" /\ assets'[w] = assets[w]
  BY <1>4 DEF FailedRow
<1>5. ASSUME NEW v \in Runs, Fail(v)
      PROVE  assets' = assets /\ (row' = row \/ row' = FailedRow(v))
  BY <1>5 DEF Fail
<1>6. ASSUME NEW v \in Runs, PollAnswer(v)
      PROVE  assets' = assets /\ (row' = row \/ row' = FailedRow(v))
  BY <1>6 DEF PollAnswer, StaleRow
<1>7. ASSUME NEW v \in Runs,
             \/ Request(v) \/ LookUp(v) \/ Replay(v) \/ Generate(v) \/ WriteFiles(v)
             \/ CleanUp(v) \/ Age(v) \/ PollRead(v) \/ PollEnd(v) \/ Leave(v) \/ Rejoin(v)
      PROVE  UNCHANGED <<row, assets>>
  BY <1>7 DEF Request, LookUp, Replay, Generate, WriteFiles, CleanUp, Age, PollRead, PollEnd,
              Leave, Rejoin
<1>8. CASE GateCloses \/ GateMoves \/ Crash
  BY <1>8 DEF GateCloses, GateMoves, Crash
<1> QED
  BY <1>1, <1>2, <1>3, <1>4, <1>5, <1>6, <1>7, <1>8 DEF Next, Work, Poll

\* A job keeps its assets once it is settled, and is settled with those it has.
LEMMA JobsStep == IInv /\ Next => JobsMatchTheirAssets'
<1> SUFFICES ASSUME IInv, Next  PROVE JobsMatchTheirAssets'
  OBVIOUS
<1>1. \A w \in Runs : Kind(w)' = Kind(w) /\ Requested(w)' = Requested(w)
  BY RequestsStay DEF Kind, Requested
<1>2. ASSUME NEW w \in Runs, Kind(w) # "edit"  PROVE Agrees(Requested(w), row'[w], assets'[w])
  <2>1. Agrees(Requested(w), row[w], assets[w]) /\ Requested(w) \in 1 .. Count
    BY <1>2, JobsAgree, RequestedInRange DEF IInv
  <2>2. Requested(w) # 0
    BY <2>1, CountPositive
  <2>3. CASE row'[w] = row[w] /\ assets'[w] = assets[w]
    BY <2>1, <2>3
  <2>4. CASE row[w] = "none" /\ row'[w] = "RUNNING" /\ assets'[w] = assets[w]
    BY <2>1, <2>4 DEF Agrees, Terminal, Statuses
  <2>5. CASE row[w] = "RUNNING" /\ row'[w] = "FAILED" /\ assets'[w] = assets[w]
    BY <2>1, <2>2, <2>5 DEF Agrees, Terminal, Statuses
  <2>6. CASE row'[w] = Final(w, images[w]) /\ assets'[w] = images[w]
    <3>1. TypeOK /\ images[w] \in 0 .. Count /\ images[w] <= Requested(w)
      BY DEF IInv, TypeOK, Bounded
    <3> QED
      BY <2>6, <3>1, FinalAgrees
  <2> QED
    BY <1>2, <2>3, <2>4, <2>5, <2>6, AssetForms
<1>3. ASSUME NEW w \in Runs
      PROVE  Requested(w) \in Nat \ {0} /\ assets'[w] \in Nat /\ row'[w] \in Statuses \cup {"none"}
  <2>1. DataTypes' /\ Requested(w) \in 1 .. Count
    BY DataStep, RequestedInRange DEF IInv
  <2> QED
    BY <2>1, CountPositive DEF DataTypes
<1>4. ASSUME NEW w \in Runs, Kind(w) # "edit"
      PROVE  IF row'[w] \in Terminal THEN row'[w] = (CASE assets'[w] = 0 -> "FAILED"
                                                      [] assets'[w] = Requested(w) -> "SUCCEEDED"
                                                      [] OTHER -> "PARTIAL")
                                     ELSE assets'[w] = 0
  <2> DEFINE k == Requested(w)
             n == assets'[w]
             s == row'[w]
  <2>1. k \in Nat \ {0} /\ n \in Nat /\ s \in Statuses \cup {"none"}
    BY <1>3
  <2>2. Agrees(k, s, n)
    BY <1>2, <1>4
  <2> HIDE DEF k, n, s
  <2>3. IF s \in Terminal THEN s = (CASE n = 0 -> "FAILED" [] n = k -> "SUCCEEDED" [] OTHER -> "PARTIAL")
                          ELSE n = 0
    BY <2>1, <2>2, StatusAgrees, Zenon
  <2> QED
    BY <2>3, Zenon DEF k, n, s
<1> QED
  BY <1>1, <1>4, Zenon DEF JobsMatchTheirAssets

\* A replay answers with the status that was read and the assets of now: if the
\* status was final, they still agree.
LEMMA ReplayIsWhole ==
  ASSUME IInv, NEW w \in Runs, Replay(w), Kind(w) = "image"
  PROVE  reply'[w].status \in Statuses => Whole(reply'[w])
<1> SUFFICES ASSUME reply'[w].status \in Statuses  PROVE Whole(reply'[w])
  OBVIOUS
<1> DEFINE v == seen[w].job
           s == seen[w].status
<1>1. v \in Runs /\ s \in Statuses /\ Kind(v) = "image" /\ (s \in Terminal => row[v] = s)
  BY DEF Replay, IInv, Seen
<1>2. reply'[w].status = s /\ reply'[w].assets = IF s # "RUNNING" THEN assets[v] ELSE 0
  <2>1. ~ Answer(w, NoAnswer)
    BY DEF Answer, NoAnswer, Statuses, IInv, TypeOK
  <2> QED
    BY <2>1 DEF Replay, Answer, StatusFirst, IInv, TypeOK
<1>3. ASSUME s # "RUNNING"  PROVE Agrees(Count, s, assets[v]) /\ s \in Terminal
  <2>1. s \in Terminal
    BY <1>1, <1>3 DEF Terminal
  <2>2. Agrees(Requested(v), row[v], assets[v]) /\ Requested(v) = Count
    BY <1>1, JobsAgree DEF IInv, Requested
  <2> QED
    BY <1>1, <2>1, <2>2
<1>4. assets[v] \in 0 .. Count
  BY <1>1 DEF IInv, TypeOK
<1> HIDE DEF v, s
<1>5. CASE s = "RUNNING"
  BY <1>2, <1>5 DEF Whole
<1>6. CASE s # "RUNNING"
  <2>1. s = "SUCCEEDED" => assets[v] = Count
    BY <1>3, <1>6 DEF Agrees
  <2>2. s = "FAILED" => assets[v] = 0
    BY <1>3, <1>6 DEF Agrees
  <2>3. s = "PARTIAL" => assets[v] # 0 /\ assets[v] # Count
    BY <1>3, <1>6 DEF Agrees
  <2>4. s = "PARTIAL" => assets[v] \in 1 .. Count - 1
    BY <1>4, <2>3, CountPositive
  <2> QED
    BY <1>2, <1>6, <2>1, <2>2, <2>4 DEF Whole
<1> QED
  BY <1>5, <1>6

LEMMA RepliesStep == IInv /\ Next => RepliesAreWhole'
<1> SUFFICES ASSUME IInv, Next  PROVE RepliesAreWhole'
  OBVIOUS
<1>1. \A w \in Runs : Kind(w)' = Kind(w)
  BY RequestsStay DEF Kind
<1>2. \A w \in Runs : Kind(w) = "image" /\ reply[w].status \in Statuses => Whole(reply[w])
  BY ReplyIsWhole, Zenon DEF IInv, RepliesAreWhole
<1>3. ASSUME NEW w \in Runs, LookUp(w), NEW v \in Runs, reply'[v].status \in Statuses
      PROVE  reply'[v] = reply[v]
  <2>1. \/ reply' = reply
        \/ reply' = [reply EXCEPT ![w] = [status |-> "conflict", assets |-> 0]]
        \/ reply' = [reply EXCEPT ![w] = [status |-> "none", assets |-> 0]]
    BY <1>3 DEF LookUp, Answer, NoAnswer
  <2> QED
    BY <1>3, <2>1 DEF IInv, TypeOK, Statuses
<1>4. ASSUME NEW w \in Runs, Replay(w), NEW v \in Runs \ {w}  PROVE reply'[v] = reply[v]
  BY <1>4 DEF Replay, Answer, IInv, TypeOK
<1>5. UNCHANGED reply \/ \E w \in Runs : LookUp(w) \/ Replay(w)
  BY DEF Next, Work, Request, Create, Generate, WriteFiles, Commit, CommitAsset, SaveLayer,
         Complete, CleanUp, Fail, Age, Poll, PollRead, PollAnswer, PollEnd, Leave, Rejoin,
         GateCloses, GateMoves, Crash
<1>6. \A v \in Runs : Kind(v) = "image" /\ reply'[v].status \in Statuses => Whole(reply'[v])
  BY <1>2, <1>3, <1>4, <1>5, ReplayIsWhole
<1> QED
  BY <1>1, <1>6, ReplyIsWhole, Zenon DEF RepliesAreWhole

-----------------------------------------------------------------------------
(* The theorems.                                                           *)

LEMMA InitInv == Init => IInv
<1> SUFFICES ASSUME Init  PROVE IInv
  OBVIOUS
<1> USE DEF Init
<1>1. TypeOK
  BY CountPositive, BoundIsNat, PollErrorsPositive, MixesAreRequests
     DEF TypeOK, Nothing, NoAnswer, NoPoll, Polls
<1>2. Bounded
  BY <1>1, RequestedInRange, CountPositive DEF Bounded
<1>3. Stages /\ Patient /\ FilesAreExplained
  BY PollErrorsPositive DEF Stages, Patient, FilesAreExplained
<1> QED
  BY <1>1, <1>2, <1>3 DEF IInv, Created, Seen, Held, Edits, Owned, JobsMatchTheirAssets,
                          OneRunPerKey, RepliesAreWhole, NoAnswer, Statuses, Terminal

LEMMA StepInv == IInv /\ [Next]_vars => IInv'
<1> SUFFICES ASSUME IInv, [Next]_vars  PROVE IInv'
  OBVIOUS
<1>1. CASE Next
  <2>1. TypeOK'
    BY <1>1, ControlStep, PollStep, DataStep DEF TypeOK, ControlTypes, PollTypes, DataTypes
  <2> QED
    BY <1>1, <2>1, BoundedStep, CreatedStep, SeenStep, HeldStep, EditsStep, OwnedStep, JobsStep,
       OneRunStep, RepliesStep, PollStep, StagesStep, FilesStep DEF IInv
<1>2. CASE UNCHANGED vars
  BY <1>2 DEF IInv, vars, rows, polls, TypeOK, Bounded, Created, Seen, Held, Edits, Owned,
              Stages, Patient,
              JobsMatchTheirAssets, OneRunPerKey, RepliesAreWhole, FilesAreExplained, Requested, Kind
<1> QED
  BY <1>1, <1>2

\* The invariant from which everything below follows holds in every reachable
\* state, for every mix of requests.
THEOREM InductiveInvariant == Spec => []IInv
BY InitInv, StepInv, PTL DEF Spec

\* One idempotency key, one job, and a replayed request is answered with all the
\* assets its status promises (idempotency.ts, however two requests with the key
\* and the run itself interleave).
THEOREM KeysStayFaithful == Spec => []KeysAreFaithful
<1>1. IInv => KeysAreFaithful
  BY DEF IInv, KeysAreFaithful
<1> QED
  BY <1>1, InductiveInvariant, PTL

\* A media file without a row is in the hands of a run that holds the gate, so
\* an exclusive owner, which may sweep such files, finds only those of the dead
\* and those whose deletion failed; a row has its file unless its own deletion
\* failed and was swallowed (replacement-layer.ts).
THEOREM FilesStayKept == Spec => []FilesAreKept
<1>1. IInv => FilesAreKept
  BY DEF IInv, FilesAreKept, FilesAreExplained, OwnerSeesNoHalfWrites, Held, Owned
<1> QED
  BY <1>1, InductiveInvariant, PTL

\* The status of a job agrees with its assets, and a terminal status is final:
\* neither a late completion nor a late failure nor a poll changes it.
THEOREM StatusStaysTrue == Spec => StatusIsTrueAndFinal
<1>1. IInv => JobsMatchTheirAssets
  BY DEF IInv
<1>2. IInv /\ [Next]_vars => [\A w \in Runs : row[w] \in Terminal => row'[w] = row[w]]_vars
  <2>1. ASSUME IInv, Next, NEW w \in Runs, row[w] \in Terminal  PROVE row'[w] = row[w]
    <3>1. row[w] # "none" /\ row[w] # "RUNNING" /\ row \in [Runs -> Statuses \cup {"none"}]
      BY <2>1 DEF Terminal, Statuses, IInv, TypeOK
    <3> QED
      BY <2>1, <3>1, RowForms DEF Creates, Settles, Created, IInv
  <2> QED
    BY <2>1
<1> QED
  BY <1>1, <1>2, InductiveInvariant, PTL DEF StatusIsTrueAndFinal, SettledOnce, Spec
=============================================================================
