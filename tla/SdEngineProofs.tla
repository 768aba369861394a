----------------------------- MODULE SdEngineProofs -----------------------------
(***************************************************************************)
(* What holds of the image runs for every set of runs and models, every    *)
(* number of images and of stops: one process, always in hand; no model is *)
(* read while it is deleted; and a canceled run stays canceled, as long as *)
(* no cancel is forgotten.                                                 *)
(***************************************************************************)
EXTENDS SdEngine, FiniteSetTheorems, SequenceTheorems, TLAPS

\* The steps of a run that holds the generate lock.
Reporting == {"register", "image", "poll", "end"}
Holding == Reporting \cup {"begin"}

\* The lock is held by the one run that is between admission and answer, and
\* the active model is its model.
Locked ==
  /\ \A r \in Runs : pc[r] \in Holding <=> lock = r
  /\ lock = NoRun => active = NoModel
  /\ lock # NoRun => active = ModelOf[lock]

\* The slot is filled while its run polls, and holds the only process.
Slotted ==
  /\ child # NoRun => pc[child] = "poll"
  /\ procs \subseteq {child}

\* Whom the progress is about, and what a final phase means for that run.
Reported ==
  /\ \A r \in Runs : pc[r] \in Reporting => progress.run = r
  /\ progress.run # NoRun =>
       /\ pc[progress.run] \in Reporting \cup {"answered"}
       /\ progress.phase \in Terminal /\ pc[progress.run] \in Reporting
            => captured[progress.run] < epoch \/ client[progress.run] = "told"

\* A model whose deletion goes on is nobody's.
Cleared == \A m \in Models : deleting[m] = "clear" => active # m

\* A run was captured in this epoch or in one that has been revoked.
Captured == \A r \in Runs : captured[r] <= epoch

IInv == TypeOK /\ Locked /\ Slotted /\ Reported /\ Cleared /\ Captured

\* No run is remembered twice.
Distinct == \A i, j \in 1 .. Len(pending) : pending[i] = pending[j] => i = j

\* What a cancel or a stop has left for a run on its way to the spawn.
Named ==
  \A r \in named :
    /\ pc[r] = "idle" => WasCanceled(r)
    /\ pc[r] \in {"queued", "begin"} => WasCanceled(r) \/ captured[r] < epoch
    /\ pc[r] \in {"register", "image", "poll"} => captured[r] < epoch

\* No more runs than cancels can be remembered.
PendingSuffices == IsFiniteSet(Runs) /\ Cardinality(Runs) <= MaxPending

-----------------------------------------------------------------------------
(* The queue of remembered cancels.                                        *)

\* What is left of a queue when one position is taken out.
LEMMA TakenOut ==
  ASSUME NEW S, NEW s \in Seq(S), NEW i \in 1 .. Len(s)
  PROVE  /\ RemoveAt(s, i) \in Seq(S) /\ Len(RemoveAt(s, i)) = Len(s) - 1
         /\ \A j \in 1 .. Len(s) - 1 : RemoveAt(s, i)[j] = IF j < i THEN s[j] ELSE s[j + 1]
<1> DEFINE a == SubSeq(s, 1, i - 1)
           b == SubSeq(s, i + 1, Len(s))
<1>1. Len(s) \in Nat
  BY LenProperties
<1>2. /\ a \in Seq(S) /\ Len(a) = i - 1 /\ \A j \in 1 .. i - 1 : a[j] = s[j]
  BY <1>1, SubSeqProperties
<1>3. /\ b \in Seq(S) /\ Len(b) = Len(s) - i /\ \A j \in 1 .. Len(s) - i : b[j] = s[i + j]
  BY <1>1, SubSeqProperties
<1> HIDE DEF a, b
<1>4. /\ a \o b \in Seq(S) /\ Len(a \o b) = Len(s) - 1
      /\ \A j \in 1 .. Len(s) - 1 : (a \o b)[j] = IF j <= i - 1 THEN a[j] ELSE b[j - (i - 1)]
  <2>1. /\ a \o b \in Seq(S) /\ Len(a \o b) = Len(a) + Len(b)
        /\ \A j \in 1 .. Len(a) + Len(b) :
             (a \o b)[j] = IF j <= Len(a) THEN a[j] ELSE b[j - Len(a)]
    BY <1>2, <1>3, ConcatProperties
  <2>2. Len(a) + Len(b) = Len(s) - 1
    BY <1>1, <1>2, <1>3
  <2> QED
    BY <1>2, <2>1, <2>2
<1>5. RemoveAt(s, i) = a \o b
  BY DEF RemoveAt, a, b
<1>6. \A j \in 1 .. Len(s) - 1 : (a \o b)[j] = IF j < i THEN s[j] ELSE s[j + 1]
  <2>1. ASSUME NEW j \in 1 .. Len(s) - 1, j < i
        PROVE  (a \o b)[j] = s[j]
    BY <1>1, <1>2, <1>4, <2>1
  <2>2. ASSUME NEW j \in 1 .. Len(s) - 1, ~ (j < i)
        PROVE  (a \o b)[j] = s[j + 1]
    <3>1. (a \o b)[j] = b[j - (i - 1)]
      BY <1>1, <1>4, <2>2
    <3>2. j - (i - 1) \in 1 .. Len(s) - i /\ i + (j - (i - 1)) = j + 1
      BY <1>1, <2>2
    <3> QED
      BY <1>3, <3>1, <3>2
  <2> QED
    BY <2>1, <2>2
<1> QED
  BY <1>4, <1>5, <1>6

\* A run is remembered at a position.
LEMMA PendingAt ==
  ASSUME TypeOK, NEW r \in Runs
  PROVE  /\ WasCanceled(r) <=> \E i \in 1 .. Len(pending) : pending[i] = r
         /\ WasCanceled(r) => /\ Position(r) \in 1 .. Len(pending)
                              /\ pending[Position(r)] = r
<1>1. DOMAIN pending = 1 .. Len(pending)
  BY LenProperties DEF TypeOK
<1>2. WasCanceled(r) <=> \E i \in 1 .. Len(pending) : pending[i] = r
  BY <1>1 DEF WasCanceled, Range
<1> QED
  BY <1>2, Zenon DEF Position

\* Taking a run out of the queue forgets nobody else.
LEMMA OneIsTaken ==
  ASSUME TypeOK, NEW r \in Runs, pending' = Remembered(r)
  PROVE  /\ pending' \in Seq(Runs) /\ Len(pending') <= MaxPending
         /\ \A q \in Runs : q # r /\ WasCanceled(q) => WasCanceled(q)'
         /\ Distinct => Distinct'
<1>1. /\ pending \in Seq(Runs) /\ Len(pending) \in Nat /\ Len(pending) <= MaxPending
      /\ MaxPending \in Nat
  BY LenProperties, SdBounds DEF TypeOK
<1>2. CASE ~ WasCanceled(r)
  <2>1. pending' = pending
    BY <1>2 DEF Remembered
  <2> QED
    BY <1>1, <2>1 DEF WasCanceled, Distinct
<1>3. CASE WasCanceled(r)
  <2> DEFINE i == Position(r)
  <2>1. i \in 1 .. Len(pending) /\ pending[i] = r
    BY <1>3, PendingAt
  <2>2. pending' = RemoveAt(pending, i)
    BY <1>3 DEF Remembered
  <2> HIDE DEF i
  <2>3. /\ pending' \in Seq(Runs) /\ Len(pending') = Len(pending) - 1
        /\ \A j \in 1 .. Len(pending) - 1 : pending'[j] = IF j < i THEN pending[j] ELSE pending[j + 1]
    BY <1>1, <2>1, <2>2, TakenOut
  <2>4. ASSUME NEW q \in Runs, q # r, WasCanceled(q)
        PROVE  WasCanceled(q)'
    <3>1. PICK k \in 1 .. Len(pending) : pending[k] = q
      BY <2>4, PendingAt
    <3>2. \E j \in 1 .. Len(pending) - 1 : pending'[j] = q
      <4>1. CASE k < i
        BY <1>1, <2>1, <2>3, <3>1, <4>1
      <4>2. CASE k > i
        <5>1. k - 1 \in 1 .. Len(pending) - 1 /\ ~ (k - 1 < i) /\ (k - 1) + 1 = k
          BY <1>1, <2>1, <4>2
        <5>2. pending'[k - 1] = pending[k]
          BY <2>3, <5>1
        <5> QED
          BY <3>1, <5>1, <5>2
      <4> QED
        BY <2>1, <2>4, <3>1, <4>1, <4>2
    <3>3. DOMAIN pending' = 1 .. Len(pending) - 1
      BY <2>3, LenProperties
    <3> QED
      BY <3>2, <3>3 DEF WasCanceled, Range
  <2>5. ASSUME Distinct
        PROVE  Distinct'
    BY <1>1, <2>1, <2>3, <2>5 DEF Distinct
  <2> QED
    BY <1>1, <2>3, <2>4, <2>5
<1> QED
  BY <1>2, <1>3

\* A cancel of a run that has not begun is put at the end of the queue; the
\* oldest makes room for it.
Queued(r) ==
  pending' = IF WasCanceled(r) THEN pending
             ELSE Append(IF Len(pending) = MaxPending THEN Tail(pending) ELSE pending, r)

LEMMA OneIsQueued ==
  ASSUME TypeOK, NEW r \in Runs, Queued(r)
  PROVE  /\ pending' \in Seq(Runs) /\ Len(pending') <= MaxPending
         /\ WasCanceled(r)'
         /\ Distinct => Distinct'
         /\ Len(pending) < MaxPending \/ WasCanceled(r) =>
              \A q \in Runs : WasCanceled(q) => WasCanceled(q)'
<1>1. /\ pending \in Seq(Runs) /\ Len(pending) \in Nat /\ Len(pending) <= MaxPending
      /\ MaxPending \in Nat \ {0}
  BY LenProperties, SdBounds DEF TypeOK
<1>2. CASE WasCanceled(r)
  <2>1. pending' = pending
    BY <1>2 DEF Queued
  <2> QED
    BY <1>1, <1>2, <2>1 DEF WasCanceled, Distinct
<1>3. CASE ~ WasCanceled(r)
  <2> DEFINE s == IF Len(pending) = MaxPending THEN Tail(pending) ELSE pending
  <2>1. /\ s \in Seq(Runs) /\ Len(s) \in Nat /\ Len(s) < MaxPending
        /\ \A i \in 1 .. Len(s) : \E j \in 1 .. Len(pending) : s[i] = pending[j]
        /\ Distinct => \A i, j \in 1 .. Len(s) : s[i] = s[j] => i = j
    <3>1. CASE Len(pending) = MaxPending
      <4>1. pending # << >>
        BY <1>1, <3>1
      <4>2. /\ Tail(pending) \in Seq(Runs) /\ Len(Tail(pending)) = Len(pending) - 1
            /\ \A i \in 1 .. Len(pending) - 1 : Tail(pending)[i] = pending[i + 1]
        BY <1>1, <4>1, HeadTailProperties
      <4>3. s = Tail(pending)
        BY <3>1
      <4> QED
        BY <1>1, <3>1, <4>2, <4>3 DEF Distinct
    <3>2. CASE Len(pending) # MaxPending
      BY <1>1, <3>2 DEF Distinct
    <3> QED
      BY <3>1, <3>2
  <2>2. Len(pending) < MaxPending => s = pending
    BY <1>1
  <2>3. pending' = Append(s, r)
    BY <1>3 DEF Queued
  <2> HIDE DEF s
  <2>4. /\ pending' \in Seq(Runs) /\ Len(pending') = Len(s) + 1
        /\ \A i \in 1 .. Len(s) : pending'[i] = s[i]
        /\ pending'[Len(s) + 1] = r
    BY <2>1, <2>3, AppendProperties
  <2>5. DOMAIN pending' = 1 .. Len(s) + 1
    BY <2>4, LenProperties
  <2>6. WasCanceled(r)'
    BY <2>1, <2>4, <2>5 DEF WasCanceled, Range
  <2>7. \A i \in 1 .. Len(s) : s[i] # r
    BY <1>3, <2>1, PendingAt
  <2>8. Distinct => Distinct'
    BY <2>1, <2>4, <2>7 DEF Distinct
  <2>9. ASSUME Len(pending) < MaxPending, NEW q \in Runs, WasCanceled(q)
        PROVE  WasCanceled(q)'
    <3>1. PICK k \in 1 .. Len(pending) : pending[k] = q
      BY <2>9, PendingAt
    <3>2. k \in 1 .. Len(s) + 1 /\ pending'[k] = q
      BY <1>1, <2>2, <2>4, <2>9, <3>1
    <3> QED
      BY <2>5, <3>2 DEF WasCanceled, Range
  <2>10. Len(pending') <= MaxPending
    BY <1>1, <2>1, <2>4
  <2> QED
    BY <1>3, <2>4, <2>6, <2>8, <2>9, <2>10
<1> QED
  BY <1>2, <1>3

\* As many cancels as there are runs can be remembered: none is forgotten.
LEMMA NobodyIsForgotten ==
  ASSUME TypeOK, Distinct, PendingSuffices, NEW r \in Runs, ~ WasCanceled(r)
  PROVE  Len(pending) < MaxPending
<1> DEFINE n == Len(pending)
           s == [i \in 1 .. n |-> pending[i]]
<1>1. /\ n \in Nat /\ MaxPending \in Nat /\ pending = s
      /\ \A i \in 1 .. n : pending[i] \in Runs
  BY LenProperties, ElementOfSeq, SdBounds DEF TypeOK
<1>2. s \in Injection(1 .. n, Runs \ {r})
  <2>1. \A i \in 1 .. n : s[i] \in Runs \ {r}
    BY <1>1, PendingAt
  <2>2. \A i, j \in 1 .. n : s[i] = s[j] => i = j
    BY DEF Distinct
  <2>3. s \in [1 .. n -> Runs \ {r}]
    BY <2>1
  <2> HIDE DEF s
  <2> QED
    BY <2>2, <2>3 DEF Injection, IsInjective
<1>3. /\ IsFiniteSet(Runs \ {r}) /\ Cardinality(Runs \ {r}) = Cardinality(Runs) - 1
  BY FS_RemoveElement DEF PendingSuffices
<1>4. IsFiniteSet(1 .. n) /\ Cardinality(1 .. n) = n
  <2>1. 1 > n => n = 0
    BY <1>1
  <2>2. 1 <= n => n - 1 + 1 = n
    BY <1>1
  <2> QED
    BY <1>1, <2>1, <2>2, FS_Interval
<1>5. Cardinality(1 .. n) <= Cardinality(Runs \ {r})
  BY <1>2, <1>3, FS_Injection
<1>6. Cardinality(Runs) \in Nat
  BY FS_CardinalityType DEF PendingSuffices
<1> QED
  BY <1>1, <1>3, <1>4, <1>5, <1>6 DEF PendingSuffices

-----------------------------------------------------------------------------
(* Every case of a step, and its types.                                    *)

LEMMA StepCases ==
  ASSUME Next
  PROVE  \/ \E r \in Runs : \/ Request(r) \/ Admit(r) \/ Begin(r) \/ Register(r) \/ Image(r)
                            \/ Poll(r) \/ End(r) \/ Report(r) \/ ProcessEnds(r) \/ Cancel(r)
         \/ Stop
         \/ \E m \in Models : Lease(m) \/ StopModel(m) \/ Release(m)
BY DEF Next, RunStep

\* A phase that is set late or of another run changes nothing.
LEMMA PhaseTyped ==
  ASSUME TypeOK, NEW r \in Runs \cup {NoRun}, NEW phase \in Phases
  PROVE  /\ WithPhase(r, phase) \in [run : Runs \cup {NoRun}, phase : Phases]
         /\ WithPhase(r, phase).run = progress.run
         /\ progress.phase \in Terminal => WithPhase(r, phase) = progress
         /\ progress.run # r => WithPhase(r, phase) = progress
BY DEF TypeOK, WithPhase

\* A report changes nothing or ends the run, and only the run it is about.
LEMMA ReportsEnd ==
  ASSUME TypeOK, NEW r \in Runs, Report(r)
  PROVE  /\ UNCHANGED <<pc, lock, active, deleting, captured, epoch, pending, child, procs, named>>
         /\ client' = [client EXCEPT ![r] = client'[r]]
         /\ \/ progress' = progress /\ client[r] = "waiting"
            \/ \E phase \in Terminal : progress' = [progress EXCEPT !.phase = phase]
               /\ Ends(r) /\ client'[r] = "told"
<1>1. client = [q \in Runs |-> client[q]]
  BY DEF TypeOK
<1>2. Outcomes(r) \subseteq Terminal
  BY DEF Outcomes, Terminal
<1>3. UNCHANGED <<pc, lock, active, deleting, captured, epoch, pending, child, procs, named>>
  BY DEF Report, KeepChild, modelVars, runVars, boundVars
<1>4. client[r] = "waiting" /\ client' = [client EXCEPT ![r] = client'[r]]
  BY <1>1 DEF Report
<1>5. CASE progress' = progress
  BY <1>3, <1>4, <1>5
<1>6. ASSUME progress' # progress
      PROVE  /\ \E phase \in Terminal : progress' = [progress EXCEPT !.phase = phase]
             /\ Ends(r) /\ client'[r] = "told"
  <2>1. PICK phase \in Terminal : progress' = WithPhase(r, phase)
    BY <1>2, <1>6 DEF Report
  <2>2. Ends(r) /\ progress' = [progress EXCEPT !.phase = phase]
    BY <1>6, <2>1 DEF WithPhase, Ends
  <2>3. client'[r] = "told"
    BY <1>1, <1>6, <2>2 DEF Report
  <2> QED
    BY <2>2, <2>3
<1> QED
  BY <1>3, <1>4, <1>5, <1>6

LEMMA TypeStep == TypeOK /\ [Next]_vars => TypeOK'
<1> SUFFICES ASSUME TypeOK, [Next]_vars
             PROVE  TypeOK'
  OBVIOUS
<1> USE DEF engineVars, modelVars, runVars, boundVars
<1>1. CASE UNCHANGED vars
  BY <1>1 DEF vars, TypeOK
<1>2. ASSUME NEW r \in Runs, Request(r)
      PROVE  TypeOK'
  BY <1>2 DEF TypeOK, Request, Goto
<1>3. ASSUME NEW r \in Runs, Admit(r)
      PROVE  TypeOK'
  <2>1. ModelOf[r] \in Models
    BY ModelOfRuns
  <2> QED
    BY <1>3, <2>1 DEF TypeOK, Admit, Goto
<1>4. ASSUME NEW r \in Runs, Begin(r)
      PROVE  TypeOK'
  <2>1. CASE captured[r] # epoch
    BY <1>4, <2>1 DEF TypeOK, Begin, Answer, KeepChild
  <2>2. CASE captured[r] = epoch
    <3>1. pending' \in Seq(Runs) /\ Len(pending') <= MaxPending
      BY <1>4, <2>2, OneIsTaken DEF Begin
    <3>2. cancelFlag' \in BOOLEAN
      BY <1>4, <2>2 DEF Begin, WasCanceled
    <3>3. progress' \in [run : Runs \cup {NoRun}, phase : Phases]
      BY <1>4, <2>2 DEF Begin, Phases, Terminal
    <3>4. /\ pc' = [pc EXCEPT ![r] = "answered"] \/ pc' = [pc EXCEPT ![r] = "register"]
          /\ answer' = [answer EXCEPT ![r] = "canceled"] \/ answer' = answer
          /\ lock' \in {lock, NoRun} /\ active' \in {active, NoModel}
      BY <1>4, <2>2 DEF Begin, Answer
    <3> QED
      BY <1>4, <3>1, <3>2, <3>3, <3>4 DEF TypeOK, Begin, KeepChild
  <2> QED
    BY <2>1, <2>2
<1>5. ASSUME NEW r \in Runs, Register(r)
      PROVE  TypeOK'
  <2>1. progress' \in [run : Runs \cup {NoRun}, phase : Phases]
    BY <1>5, PhaseTyped DEF Register, TypeOK, Phases, Terminal
  <2>2. /\ pc' = [pc EXCEPT ![r] = "answered"] \/ pc' = [pc EXCEPT ![r] = "image"]
        /\ answer' \in {answer, [answer EXCEPT ![r] = "canceled"], [answer EXCEPT ![r] = "refused"]}
        /\ lock' \in {lock, NoRun} /\ active' \in {active, NoModel}
    BY <1>5 DEF Register, Answer
  <2> QED
    BY <1>5, <2>1, <2>2 DEF TypeOK, Register, KeepChild
<1>6. ASSUME NEW r \in Runs, Image(r)
      PROVE  TypeOK'
  <2>1. progress' \in [run : Runs \cup {NoRun}, phase : Phases]
    BY <1>6, PhaseTyped DEF Image, TypeOK, Phases
  <2>2. left' \in [Runs -> 0 .. Images]
    BY <1>6, SdBounds DEF Image, TypeOK, MoreToDo
  <2>3. canceled' \in [Runs -> BOOLEAN]
    <3>1. MoreToDo(r) \in BOOLEAN
      BY DEF MoreToDo
    <3>2. canceled' = canceled \/ canceled' = [canceled EXCEPT ![r] = MoreToDo(r)]
      BY <1>6, Zenon DEF Image
    <3>3. canceled \in [Runs -> BOOLEAN]
      BY DEF TypeOK
    <3> QED
      BY <3>1, <3>2, <3>3
  <2>4. /\ child' \in Runs \cup {NoRun} /\ procs' \subseteq Runs /\ exit' \in {"none", "ok", "bad"}
    BY <1>6 DEF Image, TypeOK, KeepChild
  <2>5. pc' \in {pc, [pc EXCEPT ![r] = "end"], [pc EXCEPT ![r] = "poll"]}
    BY <1>6 DEF Image
  <2> QED
    BY <1>6, <2>1, <2>2, <2>3, <2>4, <2>5 DEF TypeOK, Image
<1>7. ASSUME NEW r \in Runs, Poll(r)
      PROVE  TypeOK'
  <2>1. /\ child' \in Runs \cup {NoRun} /\ procs' \subseteq Runs /\ exit' \in {"none", "ok", "bad"}
    BY <1>7 DEF Poll, TypeOK, KeepChild, StopChild
  <2>2. \E made \in BOOLEAN : Settle(r, made)
    BY <1>7 DEF Poll
  <2>3. progress' \in [run : Runs \cup {NoRun}, phase : Phases]
    BY <2>2, PhaseTyped DEF Settle, TypeOK, Phases
  <2>4. pc' \in {[pc EXCEPT ![r] = "end"], [pc EXCEPT ![r] = "image"]}
    BY <2>2 DEF Settle
  <2>5. canceled' \in [Runs -> BOOLEAN] /\ success' \in [Runs -> BOOLEAN]
    BY <2>2 DEF Settle, TypeOK
  <2> QED
    BY <1>7, <2>1, <2>3, <2>4, <2>5 DEF TypeOK, Poll
<1>8. ASSUME NEW r \in Runs, End(r)
      PROVE  TypeOK'
  <2>1. progress' \in [run : Runs \cup {NoRun}, phase : Phases]
    BY <1>8, PhaseTyped DEF End, TypeOK, Phases, Terminal
  <2>2. /\ pc' = [pc EXCEPT ![r] = "answered"]
        /\ answer' \in {[answer EXCEPT ![r] = "canceled"], [answer EXCEPT ![r] = "images"],
                        [answer EXCEPT ![r] = "failed"]}
        /\ lock' = NoRun /\ active' = NoModel
    BY <1>8 DEF End, Answer
  <2> QED
    BY <1>8, <2>1, <2>2 DEF TypeOK, End, KeepChild
<1>9. ASSUME NEW r \in Runs, Report(r)
      PROVE  TypeOK'
  <2>1. progress' \in [run : Runs \cup {NoRun}, phase : Phases]
    BY <1>9, ReportsEnd DEF TypeOK, Phases
  <2>2. client' \in [Runs -> {"none", "waiting", "told", "silent"}]
    BY <1>9 DEF TypeOK, Report
  <2>3. UNCHANGED <<epoch, cancelFlag, pending, child, exit, procs>>
    BY <1>9 DEF Report, KeepChild
  <2> QED
    BY <1>9, <2>1, <2>2, <2>3 DEF TypeOK, Report
<1>10. ASSUME NEW r \in Runs, ProcessEnds(r)
       PROVE  TypeOK'
  BY <1>10 DEF TypeOK, ProcessEnds
<1>11. ASSUME NEW r \in Runs, Cancel(r)
       PROVE  TypeOK'
  <2>1. pending' \in Seq(Runs) /\ Len(pending') <= MaxPending
    BY <1>11, OneIsQueued DEF Cancel, Queued, WasCanceled, TypeOK
  <2>2. progress' \in [run : Runs \cup {NoRun}, phase : Phases]
    BY <1>11, PhaseTyped DEF Cancel, TypeOK, Phases, Terminal
  <2>3. epoch' \in Nat /\ cancelFlag' \in BOOLEAN
    <3>1. epoch' \in {epoch, epoch + 1} /\ cancelFlag' \in {cancelFlag, TRUE}
      BY <1>11 DEF Cancel, Revoke
    <3>2. epoch' \in Nat
      BY <3>1 DEF TypeOK
    <3>3. cancelFlag' \in BOOLEAN
      BY <3>1 DEF TypeOK
    <3> QED
      BY <3>2, <3>3
  <2>4. child' \in Runs \cup {NoRun} /\ procs' \subseteq Runs /\ exit' \in {"none", "ok", "bad"}
    BY <1>11 DEF Cancel, StopChild, KeepChild, TypeOK
  <2> QED
    BY <1>11, <2>1, <2>2, <2>3, <2>4 DEF TypeOK, Cancel
<1>12. ASSUME StopSd
       PROVE  /\ progress' \in [run : Runs \cup {NoRun}, phase : Phases]
              /\ epoch' \in Nat /\ cancelFlag' \in BOOLEAN /\ pending' = pending
              /\ child' \in Runs \cup {NoRun} /\ procs' \subseteq Runs /\ exit' \in {"none", "ok", "bad"}
  <2>1. progress.run \in Runs \cup {NoRun} /\ "canceled" \in Phases
    BY DEF TypeOK, Phases, Terminal
  <2>2. progress' \in [run : Runs \cup {NoRun}, phase : Phases]
    BY <1>12, <2>1, PhaseTyped DEF StopSd
  <2>3. epoch \in Nat /\ child \in Runs \cup {NoRun} /\ procs \subseteq Runs
    BY DEF TypeOK
  <2>4. epoch' \in Nat /\ cancelFlag' \in BOOLEAN /\ pending' = pending
    BY <1>12, <2>3 DEF StopSd, Revoke
  <2>5. child' \in Runs \cup {NoRun} /\ procs' \subseteq Runs /\ exit' \in {"none", "ok", "bad"}
    BY <1>12, <2>3 DEF StopSd, StopChild
  <2> QED
    BY <2>2, <2>4, <2>5
<1>13. CASE Stop
  <2>1. /\ progress' \in [run : Runs \cup {NoRun}, phase : Phases]
        /\ epoch' \in Nat /\ cancelFlag' \in BOOLEAN /\ pending' = pending
        /\ child' \in Runs \cup {NoRun} /\ procs' \subseteq Runs /\ exit' \in {"none", "ok", "bad"}
    BY <1>12, <1>13 DEF Stop
  <2>2. stops' \in 0 .. MaxStops /\ named' \subseteq Runs /\ late' \subseteq Runs
    BY <1>13, SdBounds DEF Stop, NamesAll, TypeOK
  <2>3. UNCHANGED <<modelVars, runVars, client>>
    BY <1>13 DEF Stop
  <2>4. pending' \in Seq(Runs) /\ Len(pending') <= MaxPending
    BY <2>1 DEF TypeOK
  <2>5. /\ lock' \in Runs \cup {NoRun} /\ active' \in Models \cup {NoModel}
        /\ deleting' \in [Models -> {"no", "leased", "stop", "waiting", "clear"}]
    BY <2>3 DEF TypeOK, modelVars, runVars
  <2>6. /\ pc' \in [Runs -> {"idle", "queued", "begin", "register", "image", "poll", "end", "answered"}]
        /\ captured' \in [Runs -> Nat] /\ left' \in [Runs -> 0 .. Images]
        /\ success' \in [Runs -> BOOLEAN] /\ canceled' \in [Runs -> BOOLEAN]
        /\ answer' \in [Runs -> {"none", "images", "failed", "canceled", "refused"}]
        /\ client' \in [Runs -> {"none", "waiting", "told", "silent"}]
    BY <2>3 DEF TypeOK, modelVars, runVars
  <2> QED
    BY <2>1, <2>2, <2>4, <2>5, <2>6 DEF TypeOK
<1>14. ASSUME NEW m \in Models, Lease(m) \/ Release(m)
       PROVE  TypeOK'
  BY <1>14 DEF TypeOK, Lease, Release, Deletion
<1>15. ASSUME NEW m \in Models, StopModel(m)
       PROVE  TypeOK'
  <2>0. \E to \in {"no", "waiting", "clear"} : deleting' = [deleting EXCEPT ![m] = to]
    BY <1>15 DEF StopModel, Deletion
  <2>1. deleting' \in [Models -> {"no", "leased", "stop", "waiting", "clear"}]
    BY <2>0 DEF TypeOK
  <2>2. CASE UNCHANGED <<engineVars, boundVars>>
    <3>1. UNCHANGED <<active, runVars, client>>
      BY <1>15 DEF StopModel
    <3> QED
      BY <2>1, <2>2, <3>1 DEF TypeOK, engineVars, boundVars, runVars
  <2>3. CASE StopSd /\ NamesAll /\ stops < MaxStops /\ stops' = stops + 1
    <3>1. stops' \in 0 .. MaxStops /\ named' \subseteq Runs /\ late' \subseteq Runs
      BY <2>3, SdBounds DEF TypeOK, NamesAll
    <3>2. /\ progress' \in [run : Runs \cup {NoRun}, phase : Phases]
          /\ epoch' \in Nat /\ cancelFlag' \in BOOLEAN /\ pending' = pending
          /\ child' \in Runs \cup {NoRun} /\ procs' \subseteq Runs /\ exit' \in {"none", "ok", "bad"}
      BY <1>12, <2>3
    <3>3. UNCHANGED <<active, runVars, client>>
      BY <1>15 DEF StopModel
    <3> QED
      BY <2>1, <3>1, <3>2, <3>3 DEF TypeOK, runVars
  <2> QED
    BY <1>15, <2>2, <2>3 DEF StopModel
<1> QED
  BY StepCases, <1>1, <1>2, <1>3, <1>4, <1>5, <1>6, <1>7, <1>8, <1>9, <1>10, <1>11, <1>13,
     <1>14, <1>15

-----------------------------------------------------------------------------
(* What a step may do, variable by variable.                               *)

\* The run that holds the lock goes on holding it, or answers and gives it back.
HolderMoves(r) ==
  /\ pc[r] \in Holding /\ pc' = [pc EXCEPT ![r] = pc'[r]]
  /\ \/ pc'[r] \in Holding /\ lock' = lock /\ active' = active
     \/ pc'[r] = "answered" /\ lock' = NoRun /\ active' = NoModel
  /\ UNCHANGED <<epoch, deleting, captured, named, client>>

HolderStep(r) == Begin(r) \/ Register(r) \/ Image(r) \/ Poll(r) \/ End(r)

LEMMA HoldersMove ==
  ASSUME TypeOK, NEW r \in Runs, HolderStep(r)
  PROVE  HolderMoves(r)
<1>1. pc = [q \in Runs |-> pc[q]]
  BY DEF TypeOK
<1> USE <1>1 DEF HolderMoves, Holding, Reporting, Answer, boundVars, modelVars
<1>2. CASE Begin(r) \/ Register(r)
  BY <1>2 DEF Begin, Register
<1>3. CASE Image(r) \/ Poll(r) \/ End(r)
  BY <1>3 DEF Image, Poll, Settle, End
<1> QED
  BY <1>2, <1>3 DEF HolderStep

\* The process of a run comes up at its image and goes with its poll.
LEMMA HoldersMoveTheChild ==
  ASSUME TypeOK, NEW r \in Runs, HolderStep(r)
  PROVE  \/ UNCHANGED <<child, procs>> /\ (pc[r] # "poll" \/ child = NoRun)
         \/ /\ pc[r] = "image" /\ pc'[r] = "poll" /\ MaySpawn(r)
            /\ child' = r /\ procs' = procs \cup {r}
         \/ pc[r] = "poll" /\ procs' = procs \ {child} /\ child' = NoRun
<1>1. pc = [q \in Runs |-> pc[q]]
  BY DEF TypeOK
<1> USE <1>1 DEF KeepChild, StopChild
<1>2. CASE Begin(r) \/ Register(r) \/ End(r)
  BY <1>2 DEF Begin, Register, End
<1>3. CASE Image(r)
  BY <1>3 DEF Image
<1>4. CASE Poll(r)
  BY <1>4 DEF Poll
<1> QED
  BY <1>2, <1>3, <1>4 DEF HolderStep

\* What a run that holds the lock reports: it takes the progress over when it
\* begins, and after that changes a phase that is not final; a final phase is
\* its last word.
LEMMA HoldersReport ==
  ASSUME TypeOK, NEW r \in Runs, HolderStep(r)
  PROVE  \/ progress' = progress /\ (pc[r] = "begin" => pc'[r] = "answered")
         \/ pc[r] = "begin" /\ progress'.run = r /\ (progress'.phase \in Terminal => pc'[r] = "answered")
         \/ /\ pc[r] # "begin" /\ progress'.run = progress.run
            /\ progress.phase \in Terminal => progress' = progress
            /\ progress'.phase \in Terminal => pc'[r] = "answered" \/ progress' = progress
<1>1. pc = [q \in Runs |-> pc[q]] /\ progress = [run |-> progress.run, phase |-> progress.phase]
  BY DEF TypeOK
<1>2. CASE Begin(r)
  BY <1>1, <1>2 DEF Begin, Answer, Terminal
<1>3. CASE Register(r)
  BY <1>1, <1>3 DEF Register, Answer, WithPhase
<1>4. CASE Image(r)
  BY <1>1, <1>4 DEF Image, WithPhase, Terminal
<1>5. CASE Poll(r)
  <2>1. \E made \in BOOLEAN : Settle(r, made)
    BY <1>5 DEF Poll
  <2>2. pc[r] = "poll"
    BY <1>5 DEF Poll
  <2> QED
    BY <1>1, <2>1, <2>2 DEF Settle, WithPhase, Terminal
<1>6. CASE End(r)
  BY <1>1, <1>6 DEF End, Answer, WithPhase
<1> QED
  BY <1>2, <1>3, <1>4, <1>5, <1>6 DEF HolderStep

\* A cancel or a stop that finds a run on its way revokes the epoch and empties
\* the slot with its process.
Revoked ==
  /\ epoch' = epoch + 1 /\ procs' = procs \ {child} /\ child' = NoRun
  /\ progress'.run = progress.run /\ (progress.phase \in Terminal => progress' = progress)
  /\ UNCHANGED <<pc, lock, active, captured, client>>

LEMMA StopRevokes ==
  ASSUME TypeOK, StopSd, UNCHANGED <<pc, lock, active, captured, client>>
  PROVE  Revoked
<1>1. progress.run \in Runs \cup {NoRun} /\ "canceled" \in Phases
  BY DEF TypeOK, Phases, Terminal
<1> QED
  BY <1>1, PhaseTyped DEF StopSd, Revoke, StopChild, Revoked

LEMMA CancelRevokes ==
  ASSUME TypeOK, NEW r \in Runs, Cancel(r)
  PROVE  /\ UNCHANGED <<pc, lock, active, deleting, captured>>
         /\ named' \in {named, named \cup {r}} /\ client' = client
         /\ \/ Revoked /\ progress.run = r
            \/ /\ UNCHANGED <<epoch, progress, child, procs, pending>>
               /\ progress.run = r /\ progress.phase \in Terminal
               /\ client[r] = "told" => named' = named
            \/ UNCHANGED <<epoch, progress, child, procs>> /\ progress.run # r /\ Queued(r)
<1>1. r \in Runs \cup {NoRun} /\ "canceled" \in Phases
  BY DEF TypeOK, Phases, Terminal
<1>2. /\ UNCHANGED <<pc, lock, active, deleting, captured>>
      /\ named' \in {named, named \cup {r}} /\ client' = client
  BY DEF Cancel, modelVars, runVars
<1>3. CASE progress.run = r /\ progress.phase \notin Terminal
  BY <1>1, <1>2, <1>3, PhaseTyped DEF Cancel, Revoke, StopChild, Revoked
<1>4. CASE progress.run = r /\ progress.phase \in Terminal
  BY <1>2, <1>4 DEF Cancel, TooLate, engineVars
<1>5. CASE progress.run # r
  BY <1>2, <1>5 DEF Cancel, KeepChild, Queued, WasCanceled
<1> QED
  BY <1>3, <1>4, <1>5

-----------------------------------------------------------------------------
(* The invariant is inductive, part by part.                               *)

\* What stops: the application or the deletion of a model.
LEMMA Stops ==
  ASSUME TypeOK, Stop \/ \E m \in Models : StopModel(m)
  PROVE  /\ UNCHANGED <<pc, lock, active, captured, client>>
         /\ \/ UNCHANGED <<epoch, progress, child, procs, pending, named>>
            \/ Revoked /\ pending' = pending /\ NamesAll
BY StopRevokes DEF Stop, StopModel, StopSd, modelVars, runVars, engineVars, boundVars

LEMMA LockedStep == IInv /\ [Next]_vars => Locked'
<1> SUFFICES ASSUME IInv, [Next]_vars
             PROVE  Locked'
  OBVIOUS
<1> USE DEF IInv
<1>0. pc = [q \in Runs |-> pc[q]]
  BY DEF TypeOK
<1> USE NullsAreNoValues DEF Holding, Reporting
<1>1. CASE UNCHANGED <<pc, lock, active>>
  BY <1>1 DEF Locked
<1>2. ASSUME NEW r \in Runs, Request(r)
      PROVE  Locked'
  BY <1>0, <1>2 DEF Request, Goto, modelVars, Locked
<1>3. ASSUME NEW r \in Runs, Admit(r)
      PROVE  Locked'
  BY <1>0, <1>3 DEF Admit, LockFree, Goto, Locked
<1>4. ASSUME NEW r \in Runs, HolderStep(r)
      PROVE  Locked'
  BY <1>0, <1>4, HoldersMove DEF HolderMoves, Locked
<1>5. ASSUME NEW r \in Runs, Report(r)
      PROVE  UNCHANGED <<pc, lock, active>>
  BY <1>5, ReportsEnd
<1>6. ASSUME NEW r \in Runs, ProcessEnds(r) \/ Cancel(r)
      PROVE  UNCHANGED <<pc, lock, active>>
  BY <1>6 DEF ProcessEnds, Cancel, runVars, modelVars
<1>7. ASSUME Stop \/ \E m \in Models : StopModel(m)
      PROVE  UNCHANGED <<pc, lock, active>>
  BY <1>7, Stops
<1>8. ASSUME NEW m \in Models, Lease(m) \/ Release(m)
      PROVE  UNCHANGED <<pc, lock, active>>
  BY <1>8 DEF Lease, Release, runVars
<1>9. UNCHANGED vars => UNCHANGED <<pc, lock, active>>
  BY DEF vars, runVars, modelVars
<1> QED
  BY StepCases, <1>1, <1>2, <1>3, <1>4, <1>5, <1>6, <1>7, <1>8, <1>9 DEF HolderStep

LEMMA SlottedStep == IInv /\ [Next]_vars => Slotted'
<1> SUFFICES ASSUME IInv, [Next]_vars
             PROVE  Slotted'
  OBVIOUS
<1> USE DEF IInv
<1>0. pc = [q \in Runs |-> pc[q]] /\ child \in Runs \cup {NoRun} /\ procs \subseteq Runs
  BY DEF TypeOK
<1> USE NullsAreNoValues
<1>1. ASSUME procs' \subseteq procs, UNCHANGED <<pc, child>>
      PROVE  Slotted'
  BY <1>1 DEF Slotted
<1>2. ASSUME procs' = procs \ {child}, child' = NoRun
      PROVE  Slotted'
  BY <1>2 DEF Slotted
<1>3. ASSUME NEW r \in Runs, Request(r) \/ Admit(r)
      PROVE  Slotted'
  <2>1. pc[r] # "poll" /\ UNCHANGED <<child, procs>>
    BY <1>3 DEF Request, Admit, Goto, engineVars
  <2>2. \A q \in Runs : q # r => pc'[q] = pc[q]
    BY <1>0, <1>3 DEF Request, Admit, Goto
  <2> QED
    BY <1>0, <2>1, <2>2 DEF Slotted
<1>4. ASSUME NEW r \in Runs, HolderStep(r)
      PROVE  Slotted'
  <2>1. HolderMoves(r)
    BY <1>4, HoldersMove
  <2>2. child # NoRun => child = r
    BY <1>0, <2>1 DEF HolderMoves, Locked, Slotted, Holding, Reporting
  <2>3. CASE UNCHANGED <<child, procs>> /\ (pc[r] # "poll" \/ child = NoRun)
    BY <2>2, <2>3 DEF Slotted
  <2>4. CASE /\ pc[r] = "image" /\ pc'[r] = "poll"
             /\ child' = r /\ procs' = procs \cup {r}
    <3>1. procs = {}
      BY <1>0, <2>2, <2>4 DEF Slotted
    <3> QED
      BY <2>4, <3>1 DEF Slotted
  <2> QED
    BY <1>2, <1>4, <2>3, <2>4, HoldersMoveTheChild
<1>5. ASSUME NEW r \in Runs, ProcessEnds(r) \/ Report(r)
      PROVE  Slotted'
  BY <1>1, <1>5, ReportsEnd DEF ProcessEnds, runVars
<1>6. ASSUME NEW r \in Runs, Cancel(r)
      PROVE  Slotted'
  BY <1>1, <1>2, <1>6, CancelRevokes DEF Revoked
<1>7. ASSUME Stop \/ \E m \in Models : StopModel(m)
      PROVE  Slotted'
  BY <1>1, <1>2, <1>7, Stops DEF Revoked
<1>8. ASSUME NEW m \in Models, Lease(m) \/ Release(m)
      PROVE  Slotted'
  BY <1>1, <1>8 DEF Lease, Release, runVars, engineVars
<1>9. UNCHANGED vars => Slotted'
  BY <1>1 DEF vars, runVars, engineVars
<1> QED
  BY StepCases, <1>3, <1>4, <1>5, <1>6, <1>7, <1>8, <1>9 DEF HolderStep

LEMMA ReportedStep == IInv /\ [Next]_vars => Reported'
<1> SUFFICES ASSUME IInv, [Next]_vars
             PROVE  Reported'
  OBVIOUS
<1> USE DEF IInv
<1>0. /\ pc = [q \in Runs |-> pc[q]] /\ client = [q \in Runs |-> client[q]]
      /\ progress = [run |-> progress.run, phase |-> progress.phase] /\ captured = [q \in Runs |-> captured[q]]
      /\ progress.run \in Runs \cup {NoRun} /\ epoch \in Nat
      /\ \A r \in Runs : captured[r] \in Nat /\ captured[r] <= epoch
  BY DEF TypeOK, Captured
<1> USE NullsAreNoValues DEF Reporting
<1>1. CASE UNCHANGED <<pc, progress, captured, epoch, client>>
  BY <1>1 DEF Reported
<1>2. CASE Revoked
  <2>1. UNCHANGED <<pc, captured, client>> /\ progress'.run = progress.run /\ epoch' = epoch + 1
    BY <1>2 DEF Revoked
  <2>2. \A r \in Runs : captured[r] < epoch'
    BY <1>0, <2>1
  <2> QED
    BY <1>0, <2>1, <2>2 DEF Reported
<1>3. ASSUME NEW r \in Runs, Request(r)
      PROVE  Reported'
  BY <1>0, <1>3 DEF Request, Goto, engineVars, Reported
<1>4. ASSUME NEW r \in Runs, Admit(r)
      PROVE  Reported'
  BY <1>0, <1>4 DEF Admit, Goto, engineVars, Reported
<1>5. ASSUME NEW r \in Runs, HolderStep(r)
      PROVE  Reported'
  <2>1. HolderMoves(r)
    BY <1>5, HoldersMove
  <2>2. \A q \in Runs : q # r => pc'[q] = pc[q] /\ pc[q] \notin Holding
    BY <1>0, <2>1 DEF HolderMoves, Locked
  <2>3. /\ pc'[r] \in Holding \cup {"answered"} /\ pc[r] \in Holding
        /\ UNCHANGED <<captured, epoch, client>>
    BY <2>1 DEF HolderMoves
  <2>4. pc[r] = "begin" => progress.run # r
    BY DEF Reported
  <2>5. pc'[r] # "begin"
    BY <1>0, <1>5 DEF HolderStep, Begin, Register, Image, Poll, Settle, End, Answer
  <2>6. CASE progress' = progress /\ (pc[r] = "begin" => pc'[r] = "answered")
    <3>1. \A q \in Runs : pc'[q] \in Reporting => pc[q] \in Reporting
      BY <2>2, <2>3, <2>6 DEF Holding
    <3>2. \A q \in Runs : pc[q] \in Reporting \cup {"answered"}
                            => pc'[q] \in Reporting \cup {"answered"}
      BY <2>2, <2>3, <2>5 DEF Holding
    <3> HIDE DEF Reporting
    <3> QED
      BY <1>0, <2>3, <2>6, <3>1, <3>2 DEF Reported
  <2>7. CASE pc[r] = "begin" /\ progress'.run = r /\ (progress'.phase \in Terminal => pc'[r] = "answered")
    BY <2>2, <2>3, <2>5, <2>7 DEF Reported, Holding
  <2>8. CASE /\ pc[r] # "begin" /\ progress'.run = progress.run
             /\ progress'.phase \in Terminal => pc'[r] = "answered" \/ progress' = progress
    <3>1. progress.run = r
      BY <2>3, <2>8 DEF Reported, Holding
    <3> QED
      BY <2>2, <2>3, <2>5, <2>8, <3>1 DEF Reported, Holding
  <2> QED
    BY <1>5, <2>6, <2>7, <2>8, HoldersReport
<1>6. ASSUME NEW r \in Runs, Report(r)
      PROVE  Reported'
  <2>1. /\ UNCHANGED <<pc, captured, epoch>>
        /\ \A q \in Runs : q # r => client'[q] = client[q]
    BY <1>0, <1>6, ReportsEnd
  <2>2. CASE progress' = progress /\ client[r] = "waiting"
    BY <1>0, <2>1, <2>2 DEF Reported
  <2>3. CASE progress'.run = progress.run /\ progress.run = r /\ client'[r] = "told"
    BY <1>0, <2>1, <2>3 DEF Reported
  <2> QED
    BY <1>0, <1>6, <2>2, <2>3, ReportsEnd DEF Ends
<1>7. ASSUME NEW r \in Runs, ProcessEnds(r)
      PROVE  UNCHANGED <<pc, progress, captured, epoch, client>>
  BY <1>7 DEF ProcessEnds, runVars
<1>8. ASSUME NEW r \in Runs, Cancel(r)
      PROVE  Revoked \/ UNCHANGED <<pc, progress, captured, epoch, client>>
  BY <1>8, CancelRevokes
<1>9. ASSUME Stop \/ \E m \in Models : StopModel(m)
      PROVE  Revoked \/ UNCHANGED <<pc, progress, captured, epoch, client>>
  BY <1>9, Stops
<1>10. ASSUME NEW m \in Models, Lease(m) \/ Release(m)
       PROVE  UNCHANGED <<pc, progress, captured, epoch, client>>
  BY <1>10 DEF Lease, Release, runVars, engineVars
<1>11. UNCHANGED vars => UNCHANGED <<pc, progress, captured, epoch, client>>
  BY DEF vars, runVars, engineVars
<1> QED
  BY StepCases, <1>1, <1>2, <1>3, <1>4, <1>5, <1>6, <1>7, <1>8, <1>9, <1>10, <1>11 DEF HolderStep

LEMMA ClearedStep == IInv /\ [Next]_vars => Cleared'
<1> SUFFICES ASSUME IInv, [Next]_vars
             PROVE  Cleared'
  OBVIOUS
<1> USE DEF IInv
<1>1. CASE deleting' = deleting /\ active' \in {active, NoModel}
  BY <1>1, NullsAreNoValues DEF Cleared
<1>2. ASSUME NEW r \in Runs, Admit(r)
      PROVE  Cleared'
  BY <1>2 DEF Admit, Usable, Cleared
<1>3. ASSUME NEW r \in Runs, HolderStep(r)
      PROVE  deleting' = deleting /\ active' \in {active, NoModel}
  BY <1>3, HoldersMove DEF HolderMoves
<1>4. ASSUME NEW r \in Runs, Request(r) \/ Report(r) \/ ProcessEnds(r) \/ Cancel(r)
      PROVE  deleting' = deleting /\ active' \in {active, NoModel}
  BY <1>4, ReportsEnd DEF IInv, Request, ProcessEnds, Cancel, modelVars
<1>5. ASSUME NEW m \in Models, Lease(m) \/ StopModel(m) \/ Release(m)
      PROVE  Cleared'
  BY <1>5 DEF Lease, StopModel, Release, Deletion, Cleared, TypeOK
<1>6. Stop \/ UNCHANGED vars => deleting' = deleting /\ active' \in {active, NoModel}
  BY DEF Stop, vars, modelVars
<1> QED
  BY StepCases, <1>1, <1>2, <1>3, <1>4, <1>5, <1>6 DEF HolderStep

LEMMA CapturedStep == IInv /\ [Next]_vars => Captured'
<1> SUFFICES ASSUME IInv, [Next]_vars
             PROVE  Captured'
  OBVIOUS
<1> USE DEF IInv
<1>0. epoch \in Nat /\ captured = [q \in Runs |-> captured[q]] /\ \A r \in Runs : captured[r] \in Nat
  BY DEF TypeOK
<1>1. CASE captured' = captured /\ epoch' \in {epoch, epoch + 1}
  BY <1>0, <1>1 DEF Captured
<1>2. ASSUME NEW r \in Runs, Request(r)
      PROVE  Captured'
  BY <1>0, <1>2 DEF Request, engineVars, Captured
<1>3. ASSUME NEW r \in Runs, HolderStep(r)
      PROVE  captured' = captured /\ epoch' \in {epoch, epoch + 1}
  BY <1>3, HoldersMove DEF HolderMoves
<1>4. ASSUME NEW r \in Runs, Admit(r) \/ Report(r) \/ ProcessEnds(r) \/ Cancel(r)
      PROVE  captured' = captured /\ epoch' \in {epoch, epoch + 1}
  BY <1>4, CancelRevokes, ReportsEnd DEF Admit, ProcessEnds, Revoked, engineVars, runVars
<1>5. ASSUME Stop \/ \E m \in Models : StopModel(m)
      PROVE  captured' = captured /\ epoch' \in {epoch, epoch + 1}
  BY <1>5, Stops DEF Revoked
<1>6. ASSUME NEW m \in Models, Lease(m) \/ Release(m)
      PROVE  captured' = captured /\ epoch' \in {epoch, epoch + 1}
  BY <1>6 DEF Lease, Release, engineVars, runVars
<1>7. UNCHANGED vars => captured' = captured /\ epoch' \in {epoch, epoch + 1}
  BY DEF vars, engineVars, runVars
<1> QED
  BY StepCases, <1>1, <1>2, <1>3, <1>4, <1>5, <1>6, <1>7 DEF HolderStep

LEMMA InitIInv == Init => IInv /\ Distinct /\ Named
<1> SUFFICES ASSUME Init
             PROVE  IInv /\ Distinct /\ Named
  OBVIOUS
<1> USE SdBounds, NullsAreNoValues DEF Init
<1>1. pending \in Seq(Runs) /\ Len(pending) = 0
  BY EmptySeq
<1>2. TypeOK
  <2>1. pending \in Seq(Runs) /\ Len(pending) <= MaxPending
    BY <1>1
  <2>2. progress \in [run : Runs \cup {NoRun}, phase : Phases]
    BY DEF Phases, Terminal
  <2>3. left \in [Runs -> 0 .. Images] /\ captured \in [Runs -> Nat] /\ stops \in 0 .. MaxStops
    OBVIOUS
  <2>4. success \in [Runs -> BOOLEAN] /\ canceled \in [Runs -> BOOLEAN]
    OBVIOUS
  <2> QED
    BY <2>1, <2>2, <2>3, <2>4 DEF TypeOK
<1>3. Locked /\ Slotted /\ Reported /\ Cleared /\ Captured
  BY DEF Locked, Slotted, Reported, Cleared, Captured, Holding, Reporting
<1>4. Distinct /\ Named
  BY <1>1 DEF Distinct, Named
<1> QED
  BY <1>2, <1>3, <1>4 DEF IInv

LEMMA IInvStep == IInv /\ [Next]_vars => IInv'
BY TypeStep, LockedStep, SlottedStep, ReportedStep, ClearedStep, CapturedStep DEF IInv

-----------------------------------------------------------------------------
(* The cancels.                                                            *)

LEMMA DistinctStep == TypeOK /\ Distinct /\ [Next]_vars => Distinct'
<1> SUFFICES ASSUME TypeOK, Distinct, [Next]_vars
             PROVE  Distinct'
  OBVIOUS
<1>1. pending' = pending => Distinct'
  BY DEF Distinct
<1>2. ASSUME NEW r \in Runs, Begin(r)
      PROVE  Distinct'
  BY <1>1, <1>2, OneIsTaken DEF Begin
<1>3. ASSUME NEW r \in Runs, Cancel(r)
      PROVE  Distinct'
  BY <1>1, <1>3, OneIsQueued DEF Cancel, Queued, WasCanceled, engineVars
<1>4. ASSUME NEW r \in Runs, \/ Request(r) \/ Admit(r) \/ Register(r) \/ Image(r)
                             \/ Poll(r) \/ End(r) \/ Report(r) \/ ProcessEnds(r)
      PROVE  pending' = pending
  BY <1>4, ReportsEnd DEF Request, Admit, Register, Image, Poll, End, ProcessEnds, engineVars
<1>5. ASSUME Stop \/ \E m \in Models : StopModel(m)
      PROVE  pending' = pending
  BY <1>5, Stops
<1>6. ASSUME NEW m \in Models, Lease(m) \/ Release(m)
      PROVE  pending' = pending
  BY <1>6 DEF Lease, Release, engineVars
<1>7. UNCHANGED vars => pending' = pending
  BY DEF vars, engineVars
<1> QED
  BY StepCases, <1>1, <1>2, <1>3, <1>4, <1>5, <1>6, <1>7

LEMMA NamedStep ==
  ASSUME PendingSuffices, IInv, Distinct, Named, [Next]_vars
  PROVE  Named'
<1> USE DEF IInv
<1>0. /\ pc = [q \in Runs |-> pc[q]] /\ captured = [q \in Runs |-> captured[q]]
      /\ epoch \in Nat /\ named \subseteq Runs
      /\ \A r \in Runs : captured[r] \in Nat /\ captured[r] <= epoch
  BY DEF TypeOK, Captured
<1>1. CASE UNCHANGED <<pc, captured, epoch, pending, named>>
  BY <1>1 DEF Named, WasCanceled
<1>2. ASSUME NEW r \in Runs, Request(r)
      PROVE  Named'
  BY <1>0, <1>2 DEF Request, Goto, engineVars, boundVars, Named, WasCanceled
<1>3. ASSUME NEW r \in Runs, Admit(r)
      PROVE  Named'
  BY <1>0, <1>3 DEF Admit, Goto, engineVars, boundVars, Named, WasCanceled
<1>4. ASSUME NEW r \in Runs, Begin(r)
      PROVE  Named'
  <2>1. /\ pc[r] = "begin" /\ UNCHANGED <<captured, epoch, named>>
        /\ \A q \in Runs : q # r => pc'[q] = pc[q]
    BY <1>0, <1>4 DEF Begin, Answer, boundVars
  <2>2. CASE captured[r] # epoch
    <3>1. pending' = pending /\ pc'[r] = "answered"
      BY <1>0, <1>4, <2>2 DEF Begin, Answer
    <3> QED
      BY <1>0, <2>1, <3>1 DEF Named, WasCanceled
  <2>3. CASE captured[r] = epoch
    <3>1. \A q \in Runs : q # r /\ WasCanceled(q) => WasCanceled(q)'
      BY <1>4, <2>3, OneIsTaken DEF Begin
    <3>2. pc'[r] = "answered" \/ (pc'[r] = "register" /\ ~ WasCanceled(r))
      BY <1>0, <1>4, <2>3 DEF Begin, Answer
    <3>3. pc'[r] = "register" => r \notin named
      BY <1>0, <2>1, <2>3, <3>2 DEF Named
    <3> QED
      BY <1>0, <2>1, <3>1, <3>2, <3>3 DEF Named
  <2> QED
    BY <2>2, <2>3
<1>5. ASSUME NEW r \in Runs, Register(r) \/ Image(r) \/ Poll(r) \/ End(r)
      PROVE  Named'
  <2>1. /\ pc[r] \in Reporting /\ pc'[r] \in {"image", "poll", "end", "answered"}
        /\ pc[r] = "end" => pc'[r] = "answered"
        /\ \A q \in Runs : q # r => pc'[q] = pc[q]
        /\ UNCHANGED <<captured, epoch, pending, named>>
    BY <1>0, <1>5 DEF Register, Image, Poll, Settle, End, Answer, Reporting, boundVars
  <2> QED
    BY <1>0, <2>1 DEF Named, WasCanceled, Reporting
<1>6. ASSUME NEW r \in Runs, Report(r)
      PROVE  UNCHANGED <<pc, captured, epoch, pending, named>>
  BY <1>6, ReportsEnd
<1>7. ASSUME NEW r \in Runs, ProcessEnds(r)
      PROVE  UNCHANGED <<pc, captured, epoch, pending, named>>
  BY <1>7 DEF ProcessEnds, runVars, boundVars
<1>8. ASSUME NEW r \in Runs, Cancel(r)
      PROVE  Named'
  <2>1. UNCHANGED <<pc, captured>> /\ named' \in {named, named \cup {r}}
    BY <1>8, CancelRevokes
  <2>2. CASE progress.run = r
    <3>1. pc[r] \in Reporting \cup {"answered"} /\ pc[r] # "idle"
      BY <2>2, NullsAreNoValues DEF Reported, Reporting
    <3>2. pending' = pending
      BY <1>8, <2>2 DEF Cancel, engineVars
    <3>3. CASE Revoked
      <4>1. epoch' = epoch + 1
        BY <3>3 DEF Revoked
      <4> QED
        BY <1>0, <2>1, <3>1, <3>2, <4>1 DEF Named, WasCanceled, Reporting
    <3>4. CASE /\ epoch' = epoch /\ progress.phase \in Terminal
               /\ client[r] = "told" => named' = named
      BY <1>0, <2>1, <2>2, <3>1, <3>2, <3>4, NullsAreNoValues
         DEF Named, WasCanceled, Reported, Reporting
    <3> QED
      BY <1>8, <2>2, <3>3, <3>4, CancelRevokes
  <2>3. CASE progress.run # r
    <3>1. epoch' = epoch /\ Queued(r)
      BY <1>8, <2>3 DEF Cancel, Queued, WasCanceled
    <3>2. WasCanceled(r)' /\ \A q \in Runs : WasCanceled(q) => WasCanceled(q)'
      BY <3>1, OneIsQueued, NobodyIsForgotten
    <3>3. pc[r] \notin Reporting
      BY <2>3 DEF Reported
    <3> QED
      BY <1>0, <2>1, <3>1, <3>2, <3>3 DEF Named, Reporting
  <2> QED
    BY <2>2, <2>3
<1>9. ASSUME Revoked, pending' = pending, NamesAll
      PROVE  Named'
  <2>1. UNCHANGED <<pc, captured>> /\ epoch' = epoch + 1
    BY <1>9 DEF Revoked
  <2>2. \A r \in Runs : captured'[r] < epoch'
    BY <1>0, <2>1
  <2> QED
    BY <1>0, <1>9, <2>1, <2>2 DEF NamesAll, Named, WasCanceled
<1>10. ASSUME Stop \/ \E m \in Models : StopModel(m)
       PROVE  Named'
  BY <1>1, <1>9, <1>10, Stops
<1>11. ASSUME NEW m \in Models, Lease(m) \/ Release(m)
       PROVE  UNCHANGED <<pc, captured, epoch, pending, named>>
  BY <1>11 DEF Lease, Release, engineVars, runVars, boundVars
<1>12. UNCHANGED vars => UNCHANGED <<pc, captured, epoch, pending, named>>
  BY DEF vars, engineVars, runVars, boundVars
<1> QED
  BY StepCases, <1>1, <1>2, <1>3, <1>4, <1>5, <1>6, <1>7, <1>8, <1>10, <1>11, <1>12

-----------------------------------------------------------------------------
(* The theorems.                                                           *)

\* Lock, slot, progress and leases fit together in every reachable state.
THEOREM InductiveInvariant == Spec => []IInv
BY InitIInv, IInvStep, PTL DEF Spec

\* There is one sd-cli process at most, it is where cancel, stop and deadline can
\* reach it, and it reads no model that is being deleted (SD_GENERATE_LOCK, the
\* spawn gate, SdModelState).
THEOREM ProcessStaysInHand == Spec => []ProcessIsInHand
<1>1. IInv => ProcessIsInHand
  <2> SUFFICES ASSUME IInv
               PROVE  NoProcessIsLost /\ DeletedModelIsUnused
    BY DEF IInv, ProcessIsInHand
  <2>1. procs \subseteq {child} /\ procs \subseteq Runs
    BY DEF IInv, Slotted, TypeOK
  <2>2. \A r \in procs : lock = r /\ active = ModelOf[r]
    BY <2>1, NullsAreNoValues DEF IInv, Slotted, Locked, Holding, Reporting
  <2> QED
    BY <2>1, <2>2 DEF IInv, Cleared, NoProcessIsLost, DeletedModelIsUnused
<1> QED
  BY InductiveInvariant, <1>1, PTL

\* A phase in which a run has ended is not overwritten, neither by the report of
\* the server nor by a late step of the run (set_sd_phase).
LEMMA PhasesStick ==
  ASSUME IInv, [Next]_vars, progress'.run = progress.run, progress.phase \in Terminal
  PROVE  progress' = progress
<1>1. ASSUME NEW r \in Runs, HolderStep(r)
      PROVE  progress' = progress
  <2>1. pc[r] = "begin" => progress.run # r
    BY NullsAreNoValues DEF IInv, Reported, Reporting
  <2> QED
    BY <1>1, <2>1, HoldersReport DEF IInv
<1>2. ASSUME NEW r \in Runs, Report(r)
      PROVE  progress' = progress
  BY <1>2, ReportsEnd DEF Ends, IInv
<1>3. ASSUME NEW r \in Runs, Request(r) \/ Admit(r) \/ ProcessEnds(r)
      PROVE  progress' = progress
  BY <1>3 DEF Request, Admit, ProcessEnds, engineVars
<1>4. ASSUME NEW r \in Runs, Cancel(r)
      PROVE  progress' = progress
  BY <1>4, CancelRevokes DEF IInv, Revoked
<1>5. ASSUME Stop \/ \E m \in Models : StopModel(m)
      PROVE  progress' = progress
  BY <1>5, Stops DEF IInv, Revoked
<1>6. ASSUME NEW m \in Models, Lease(m) \/ Release(m)
      PROVE  progress' = progress
  BY <1>6 DEF Lease, Release, engineVars
<1>7. UNCHANGED vars => progress' = progress
  BY DEF vars, engineVars
<1> QED
  BY StepCases, <1>1, <1>2, <1>3, <1>4, <1>5, <1>6, <1>7 DEF HolderStep

\* Only the image of a run that may still spawn starts a process.
LEMMA OnlyTheCurrentSpawn ==
  ASSUME IInv, [Next]_vars, NEW r \in Runs, r \in procs' \ procs
  PROVE  pc[r] = "image" /\ captured[r] = epoch
<1>1. ASSUME NEW q \in Runs, HolderStep(q)
      PROVE  pc[r] = "image" /\ captured[r] = epoch
  BY <1>1, HoldersMoveTheChild DEF IInv, MaySpawn
<1>2. ASSUME NEW q \in Runs, Request(q) \/ Admit(q) \/ Report(q) \/ ProcessEnds(q) \/ Cancel(q)
      PROVE  procs' \subseteq procs
  BY <1>2, CancelRevokes, ReportsEnd DEF IInv, Request, Admit, ProcessEnds, Revoked, engineVars
<1>3. ASSUME Stop \/ \E m \in Models : StopModel(m)
      PROVE  procs' \subseteq procs
  BY <1>3, Stops DEF IInv, Revoked
<1>4. ASSUME NEW m \in Models, Lease(m) \/ Release(m)
      PROVE  procs' \subseteq procs
  BY <1>4 DEF Lease, Release, engineVars
<1>5. UNCHANGED vars => procs' \subseteq procs
  BY DEF vars, engineVars
<1> QED
  BY StepCases, <1>1, <1>2, <1>3, <1>4, <1>5 DEF HolderStep

\* If no cancel is forgotten, a run that was canceled or stopped on its way never
\* starts a process, however request, lock, cancel and spawn meet; and a final
\* phase is final (bridge_cancel_sd, queue_pending_cancel, begin_sd_run).
THEOREM CancelStaysFinal ==
  ASSUME PendingSuffices
  PROVE  Spec => CancelIsFinal
<1> DEFINE CInv == IInv /\ Distinct /\ Named
           Spawns == \A r \in Runs : r \in procs' \ procs => r \notin named
           Sticks == progress.run = progress'.run /\ progress.phase \in Terminal => progress' = progress
<1>1. Init => CInv
  BY InitIInv
<1>2. CInv /\ [Next]_vars => CInv'
  BY IInvStep, DistinctStep, NamedStep DEF IInv
<1>3. CInv /\ [Next]_vars => [Spawns]_vars
  <2>1. ASSUME CInv, Next, NEW r \in Runs, r \in procs' \ procs
        PROVE  r \notin named
    <3>1. pc[r] = "image" /\ captured[r] = epoch /\ epoch \in Nat
      BY <2>1, OnlyTheCurrentSpawn DEF IInv, TypeOK
    <3> QED
      BY <2>1, <3>1 DEF Named
  <2> QED
    BY <2>1
<1>4. CInv /\ [Next]_vars => [Sticks]_vars
  BY PhasesStick
<1> QED
  BY <1>1, <1>2, <1>3, <1>4, PTL DEF Spec, CancelIsFinal, CanceledNeverSpawns, FinalPhaseSticks

=============================================================================
