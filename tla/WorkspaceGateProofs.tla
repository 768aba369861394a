------------------------- MODULE WorkspaceGateProofs -------------------------
(***************************************************************************)
(* What holds of the workspace gate for every set of contexts, tokens and  *)
(* operations: its counters are its holders, an owner is alone, a woken    *)
(* waiter finds the workspace quiet, the gate implements the lock of       *)
(* module WorkspaceExclusion, and every hold and every mutation has the    *)
(* one context or the live authority that covers it.                       *)
(***************************************************************************)
EXTENDS WorkspaceGate, FiniteSetTheorems, TLAPS

Waiting(c) == work[c] \in {"draining", "woken"}

\* At most one context waits for the drain, on behalf of a real operation, and
\* the pending flag is up for it.
WaiterInv ==
  \A c \in Contexts :
    Waiting(c) => /\ exclusivePending
                  /\ exclusive = NoOp
                  /\ wanted[c] \in Operations
                  /\ \A d \in Contexts : Waiting(d) => d = c

\* Once woken, the drain has happened and nobody has entered since.
WokenInv == \A c \in Contexts : work[c] = "woken" => sharedCount = 0

\* Exactly the contexts that await the drain are on the waiter list, and there
\* is something left to wait for: no wake-up is lost.
SleeperInv ==
  /\ drainWaiters = {c \in Contexts : work[c] = "draining"}
  /\ drainWaiters # {} => sharedCount > 0

OwnerInv ==
  exclusive # NoOp =>
    /\ exclusivePending
    /\ validShared = {}
    /\ \E k \in Tokens : /\ validCapabilities = {k}
                         /\ \A c \in Contexts : lease[c] = k => wanted[c] = exclusive

FreeInv == exclusive = NoOp => validCapabilities = {}

\* A request's own lease is never a video admission.
LeaseInv == \A c \in Contexts : lease[c] \notin admissions

IInv ==
  /\ TypeOK
  /\ CountsAreHolders
  /\ WaiterInv
  /\ WokenInv
  /\ SleeperInv
  /\ OwnerInv
  /\ FreeInv
  /\ LeaseInv

-----------------------------------------------------------------------------
(* Counting live tokens.                                                   *)

\* Taking a fresh token adds one to the count of the live ones.
LEMMA CountAdd ==
  ASSUME NEW S \in SUBSET Tokens, NEW t \in Tokens, t \notin S
  PROVE  Cardinality(S \cup {t}) = Cardinality(S) + 1
<1>1. IsFiniteSet(S)
  BY TokensFinite, FS_Subset
<1> QED
  BY <1>1, FS_AddElement

\* Releasing a live token takes one from the count, which was not zero.
LEMMA CountRemove ==
  ASSUME NEW S \in SUBSET Tokens, NEW t \in S
  PROVE  /\ Cardinality(S) \in Nat \ {0}
         /\ Cardinality(S \ {t}) = Cardinality(S) - 1
         /\ Decrement(Cardinality(S)) = Cardinality(S \ {t})
<1>1. IsFiniteSet(S)
  BY TokensFinite, FS_Subset
<1>2. Cardinality(S) \in Nat /\ Cardinality(S) # 0
  BY <1>1, FS_CardinalityType, FS_EmptySet
<1>3. Cardinality(S \ {t}) = Cardinality(S) - 1
  BY <1>1, FS_RemoveElement
<1> QED
  BY <1>2, <1>3 DEF Decrement

\* A count of zero means that no token is live.
LEMMA CountZero ==
  ASSUME NEW S \in SUBSET Tokens
  PROVE  Cardinality(S) \in Nat /\ (Cardinality(S) = 0 <=> S = {})
<1>1. IsFiniteSet(S)
  BY TokensFinite, FS_Subset
<1> QED
  BY <1>1, FS_CardinalityType, FS_EmptySet

-----------------------------------------------------------------------------
(* The inductive invariant.                                                *)

\* The initial state satisfies the inductive invariant.
LEMMA InitIInv == Init => IInv
<1> SUFFICES ASSUME Init PROVE IInv
  OBVIOUS
<1>1. Cardinality({}) = 0
  BY FS_EmptySet
<1>2. TypeOK
  BY NullsAreNotValues DEF Init, TypeOK, MaybeToken
<1>3. CountsAreHolders
  BY <1>1 DEF Init, CountsAreHolders
<1>4. WaiterInv /\ WokenInv /\ SleeperInv /\ OwnerInv /\ FreeInv /\ LeaseInv
  BY DEF Init, WaiterInv, Waiting, WokenInv, SleeperInv, OwnerInv, FreeInv, LeaseInv
<1> QED
  BY <1>2, <1>3, <1>4 DEF IInv

\* Steps of work under an authority change no gate state and no waiter.
LEMMA WorkStep ==
  ASSUME IInv, TypeOK', UNCHANGED <<gateVars, wanted, lease>>,
         \A c \in Contexts : work'[c] # work[c] => {work[c], work'[c]} \subseteq {"idle", "running"}
  PROVE  IInv'
<1>1. CountsAreHolders'
  BY DEF IInv, CountsAreHolders, gateVars
<1>2. \A c \in Contexts : work'[c] \in {"draining", "woken"} => work'[c] = work[c]
  OBVIOUS
<1>3. WaiterInv'
  BY <1>2 DEF IInv, WaiterInv, Waiting, gateVars
<1>4. WokenInv'
  BY <1>2 DEF IInv, WokenInv, gateVars
<1>5. \A c \in Contexts : work'[c] = "draining" <=> work[c] = "draining"
  OBVIOUS
<1>6. SleeperInv'
  BY <1>5 DEF IInv, SleeperInv, gateVars
<1>7. OwnerInv' /\ FreeInv' /\ LeaseInv'
  BY DEF IInv, OwnerInv, FreeInv, LeaseInv, gateVars
<1> QED
  BY <1>1, <1>3, <1>4, <1>6, <1>7 DEF IInv

\* Granting a slot: the door is open, so nobody waits and nobody owns.
LEMMA EnterSharedStep ==
  ASSUME IInv, NEW c \in Contexts, NEW t \in Tokens, EnterShared(c, t)
  PROVE  IInv'
<1> USE DEF IInv, EnterShared, SlotOpen, Fresh
<1>1. TypeOK'
  BY DEF TypeOK, MaybeToken
<1>2. CountsAreHolders'
  BY CountAdd DEF TypeOK, CountsAreHolders
<1>3. \A d \in Contexts : ~ Waiting(d)
  BY DEF WaiterInv
<1>4. \A d \in Contexts : ~ Waiting(d)'
  BY <1>3 DEF TypeOK, Waiting
<1>5. WaiterInv' /\ WokenInv'
  BY <1>4 DEF WaiterInv, WokenInv, Waiting
<1>8. drainWaiters' = {} /\ {d \in Contexts : work'[d] = "draining"} = {}
  BY <1>3, <1>4 DEF SleeperInv, Waiting
<1>9. SleeperInv'
  BY <1>8 DEF SleeperInv
<1>6. OwnerInv' /\ FreeInv'
  BY DEF OwnerInv, FreeInv
<1>7. LeaseInv'
  BY DEF TypeOK, LeaseInv
<1> QED
  BY <1>1, <1>2, <1>5, <1>6, <1>7, <1>9

\* Beginning a detached video job grants a slot in the same way.
LEMMA BeginVideoStep ==
  ASSUME IInv, NEW c \in Contexts, NEW t \in Tokens, BeginDetachedVideoWork(c, t)
  PROVE  IInv'
<1> USE DEF IInv, BeginDetachedVideoWork, SlotOpen, Fresh
<1>1. TypeOK'
  BY DEF TypeOK, MaybeToken
<1>2. CountsAreHolders'
  <2>1. /\ Cardinality(validShared \cup {t}) = Cardinality(validShared) + 1
        /\ Cardinality(admissions \cup {t}) = Cardinality(admissions) + 1
    BY CountAdd DEF TypeOK
  <2> QED
    BY <2>1 DEF CountsAreHolders
<1>3. \A d \in Contexts : ~ Waiting(d)
  BY DEF WaiterInv
<1>4. \A d \in Contexts : ~ Waiting(d)'
  BY <1>3 DEF TypeOK, Waiting
<1>5. WaiterInv' /\ WokenInv'
  BY <1>4 DEF WaiterInv, WokenInv, Waiting
<1>8. drainWaiters' = {} /\ {d \in Contexts : work'[d] = "draining"} = {}
  BY <1>3, <1>4 DEF SleeperInv, Waiting
<1>9. SleeperInv'
  BY <1>8 DEF SleeperInv
<1>6. OwnerInv' /\ FreeInv'
  BY DEF OwnerInv, FreeInv
<1>7. LeaseInv'
  BY DEF TypeOK, LeaseInv
<1> QED
  BY <1>1, <1>2, <1>5, <1>6, <1>7, <1>9

\* A slot is given back.  Until the last one the waiters sleep on; the last one
\* wakes them all, and they keep their claim.
LEMMA FreeSlotStep ==
  ASSUME IInv, NEW after \in Nat, NEW w,
         w \in [Contexts -> {"idle", "running", "draining", "woken"}],
         \A c \in Contexts : w[c] # work[c] => {work[c], w[c]} \subseteq {"idle", "running"},
         after <= sharedCount,
         FreeSlot(after),
         work' = Woken(after, w),
         UNCHANGED <<exclusive, exclusivePending, wanted>>
  PROVE  WaiterInv' /\ WokenInv' /\ SleeperInv'
<1> USE DEF IInv, FreeSlot
<1>1. \A c \in drainWaiters : Waiting(c)
  BY DEF SleeperInv, Waiting
<1>2. \A c \in Contexts : Waiting(c)' => Waiting(c)
  BY <1>1 DEF Waiting, Woken
<1>3. WaiterInv'
  BY <1>2 DEF WaiterInv
<1>4. CASE after = 0
  <2>1. \A c \in Contexts : work'[c] # "draining"
    BY <1>4 DEF Woken, SleeperInv
  <2>2. SleeperInv'
    BY <2>1, <1>4 DEF SleeperInv
  <2> QED
    BY <1>3, <1>4, <2>2 DEF WokenInv
<1>5. CASE after # 0
  <2>1. work' = w /\ drainWaiters' = drainWaiters /\ sharedCount' > 0
    BY <1>5 DEF Woken
  <2>2. \A c \in Contexts : work'[c] = "draining" <=> work[c] = "draining"
    BY <2>1
  <2>3. SleeperInv'
    BY <2>1, <2>2 DEF SleeperInv
  <2>4. \A c \in Contexts : work'[c] = "woken" => work[c] = "woken"
    BY <2>1
  <2>5. \A c \in Contexts : work[c] # "woken"
    BY <1>5 DEF WokenInv, TypeOK
  <2> QED
    BY <1>3, <2>3, <2>4, <2>5 DEF WokenInv
<1> QED
  BY <1>4, <1>5

\* The end of a shared lease.
LEMMA LeaveSharedStep ==
  ASSUME IInv, NEW c \in Contexts, LeaveShared(c)
  PROVE  IInv'
<1> DEFINE t == lease[c]
           after == Decrement(sharedCount)
           w == [work EXCEPT ![c] = IF outer[c] = NoToken THEN "idle" ELSE "running"]
<1> USE DEF IInv
<1>1. /\ work[c] = "running" /\ t \in validShared
      /\ validShared' = validShared \ {t}
      /\ FreeSlot(after)
      /\ work' = Woken(after, w)
      /\ UNCHANGED <<exclusive, exclusivePending, activeVideoCount, validCapabilities,
                     admissions, wanted>>
      /\ lease' = [lease EXCEPT ![c] = NoToken]
  BY DEF LeaveShared
<1>2. /\ after = Cardinality(validShared \ {t})
      /\ after = sharedCount - 1
      /\ after \in Nat
  BY <1>1, CountRemove DEF CountsAreHolders, TypeOK
<1>3. w \in [Contexts -> {"idle", "running", "draining", "woken"}]
  BY DEF TypeOK
<1>4. work' \in [Contexts -> {"idle", "running", "draining", "woken"}]
  BY <1>1, <1>3 DEF Woken
<1>5. TypeOK'
  BY <1>2, <1>4 DEF TypeOK, LeaveShared, FreeSlot, MaybeToken
<1>6. t \notin admissions
  BY DEF LeaseInv
<1>7. CountsAreHolders'
  BY <1>1, <1>2, <1>6 DEF CountsAreHolders, FreeSlot
<1>8. \A d \in Contexts : w[d] # work[d] => {work[d], w[d]} \subseteq {"idle", "running"}
  BY <1>1 DEF TypeOK
<1>9. after <= sharedCount
  BY <1>2 DEF TypeOK
<1>10. WaiterInv' /\ WokenInv' /\ SleeperInv'
  <2> HIDE DEF w, after, t
  <2> QED
    BY <1>1, <1>2, <1>3, <1>8, <1>9, FreeSlotStep
<1>11. OwnerInv' /\ FreeInv'
  BY <1>1 DEF OwnerInv, FreeInv
<1>12. LeaseInv'
  BY <1>1, NullsAreNotValues DEF LeaseInv, TypeOK
<1> QED
  BY <1>5, <1>7, <1>10, <1>11, <1>12

\* The end of a video admission.
LEMMA ReleaseAdmissionStep ==
  ASSUME IInv, NEW c \in Contexts, ReleaseAdmission(c)
  PROVE  IInv'
<1> DEFINE t == handle[c]
           after == Decrement(sharedCount)
           w == [work EXCEPT ![c] = "idle"]
<1> USE DEF IInv
<1>1. /\ work[c] = "running" /\ t \in admissions
      /\ admissions' = admissions \ {t}
      /\ validShared' = validShared \ {t}
      /\ activeVideoCount' = Decrement(activeVideoCount)
      /\ FreeSlot(after)
      /\ work' = Woken(after, w)
      /\ UNCHANGED <<exclusive, exclusivePending, validCapabilities, wanted, lease>>
  BY DEF ReleaseAdmission
<1>0. t \in validShared
  BY <1>1 DEF CountsAreHolders
<1>2. /\ after = Cardinality(validShared \ {t})
      /\ after = sharedCount - 1
      /\ after \in Nat
  BY <1>0, CountRemove DEF CountsAreHolders, TypeOK
<1>3. /\ activeVideoCount' = Cardinality(admissions \ {t})
      /\ activeVideoCount' \in Nat
  BY <1>1, CountRemove, CountZero DEF CountsAreHolders, TypeOK
<1>4. w \in [Contexts -> {"idle", "running", "draining", "woken"}]
  BY DEF TypeOK
<1>5. work' \in [Contexts -> {"idle", "running", "draining", "woken"}]
  BY <1>1, <1>4 DEF Woken
<1>6. TypeOK'
  BY <1>2, <1>3, <1>5 DEF TypeOK, ReleaseAdmission, FreeSlot, MaybeToken
<1>7. CountsAreHolders'
  BY <1>0, <1>1, <1>2, <1>3 DEF CountsAreHolders, FreeSlot
<1>8. \A d \in Contexts : w[d] # work[d] => {work[d], w[d]} \subseteq {"idle", "running"}
  BY <1>1 DEF TypeOK
<1>9. after <= sharedCount
  BY <1>2 DEF TypeOK
<1>10. WaiterInv' /\ WokenInv' /\ SleeperInv'
  <2> HIDE DEF w, after, t
  <2> QED
    BY <1>1, <1>2, <1>4, <1>8, <1>9, FreeSlotStep
<1>11. OwnerInv' /\ FreeInv'
  BY <1>1 DEF OwnerInv, FreeInv
<1>12. LeaseInv'
  BY <1>1 DEF LeaseInv
<1> QED
  BY <1>6, <1>7, <1>10, <1>11, <1>12

-----------------------------------------------------------------------------
(* Exclusive ownership.                                                    *)

\* With no holder, the workspace is announced and owned in one step.
LEMMA AcquireAtOnceStep ==
  ASSUME IInv, NEW c \in Contexts, NEW op \in Operations, NEW t \in Tokens,
         AcquireAtOnce(c, op, t)
  PROVE  IInv'
<1> USE DEF IInv, AcquireAtOnce, SlotOpen, Take, Fresh
<1>1. TypeOK'
  BY DEF TypeOK, MaybeToken
<1>2. CountsAreHolders' /\ LeaseInv'
  BY DEF CountsAreHolders, LeaseInv, TypeOK
<1>3. \A d \in Contexts : ~ Waiting(d)
  BY DEF WaiterInv
<1>4. \A d \in Contexts : ~ Waiting(d)'
  BY <1>3 DEF TypeOK, Waiting
<1>5. WaiterInv' /\ WokenInv'
  BY <1>4 DEF WaiterInv, WokenInv, Waiting
<1>6. drainWaiters' = {} /\ {d \in Contexts : work'[d] = "draining"} = {}
  BY <1>3, <1>4 DEF SleeperInv, Waiting
<1>7. SleeperInv'
  BY <1>6 DEF SleeperInv
<1>8. validShared = {}
  BY CountZero DEF CountsAreHolders, TypeOK
<1>9. validCapabilities' = {t}
  BY DEF FreeInv
<1>10. \A d \in Contexts : lease'[d] = t => wanted'[d] = op
  BY DEF TypeOK
<1>11. OwnerInv' /\ FreeInv'
  BY <1>8, <1>9, <1>10, NullsAreNotValues DEF OwnerInv, FreeInv
<1> QED
  BY <1>1, <1>2, <1>5, <1>7, <1>11

\* With holders, the door is shut and the only waiter goes to sleep.
LEMMA AcquireAndWaitStep ==
  ASSUME IInv, NEW c \in Contexts, NEW op \in Operations, AcquireAndWait(c, op)
  PROVE  IInv'
<1> USE DEF IInv, AcquireAndWait, SlotOpen
<1>1. TypeOK'
  BY DEF TypeOK
<1>2. CountsAreHolders' /\ LeaseInv'
  BY DEF CountsAreHolders, LeaseInv
<1>3. \A d \in Contexts : ~ Waiting(d)
  BY DEF WaiterInv
<1>4. \A d \in Contexts : Waiting(d)' <=> d = c
  BY <1>3 DEF TypeOK, Waiting
<1>5. work'[c] = "draining" /\ wanted'[c] = op
  BY DEF TypeOK
<1>6. WaiterInv' /\ WokenInv'
  BY <1>4, <1>5 DEF WaiterInv, WokenInv, Waiting
<1>7. drainWaiters' = {c} /\ {d \in Contexts : work'[d] = "draining"} = {c}
  BY <1>3, <1>4, <1>5 DEF SleeperInv, Waiting
<1>8. SleeperInv'
  BY <1>7 DEF SleeperInv
<1>9. OwnerInv' /\ FreeInv'
  BY DEF OwnerInv, FreeInv
<1> QED
  BY <1>1, <1>2, <1>6, <1>8, <1>9

\* A woken waiter always takes the workspace: its two other branches are dead.
LEMMA ResumeStep ==
  ASSUME IInv, NEW c \in Contexts, NEW t \in Tokens, Resume(c, t)
  PROVE  IInv'
<1> USE DEF IInv
<1>1. work[c] = "woken" /\ Waiting(c)
  BY DEF Resume, Waiting
<1>2. exclusive = NoOp /\ sharedCount = 0 /\ exclusivePending /\ wanted[c] \in Operations
  BY <1>1 DEF WaiterInv, WokenInv
<1>3. /\ Take(c, wanted[c], t)
      /\ UNCHANGED <<exclusivePending, drainWaiters, wanted, sharedCount, activeVideoCount,
                     validShared, admissions, outer, handle, mutating>>
  BY <1>2 DEF Resume
<1>4. TypeOK'
  BY <1>2, <1>3 DEF TypeOK, Take, MaybeToken
<1>5. CountsAreHolders' /\ LeaseInv'
  BY <1>3 DEF CountsAreHolders, LeaseInv, Take, Fresh, TypeOK
<1>6. \A d \in Contexts : Waiting(d) => d = c
  BY <1>1 DEF WaiterInv
<1>7. \A d \in Contexts : ~ Waiting(d)'
  BY <1>3, <1>6 DEF Take, TypeOK, Waiting
<1>8. WaiterInv' /\ WokenInv'
  BY <1>7 DEF WaiterInv, WokenInv, Waiting
<1>9. \A d \in Contexts : work[d] # "draining" /\ work'[d] # "draining"
  BY <1>1, <1>6, <1>7 DEF Waiting
<1>10. SleeperInv'
  BY <1>3, <1>9 DEF SleeperInv
<1>11. validShared = {}
  BY <1>2, CountZero DEF CountsAreHolders, TypeOK
<1>12. validCapabilities' = {t}
  BY <1>2, <1>3 DEF FreeInv, Take
<1>13. \A d \in Contexts : lease'[d] = t => wanted'[d] = wanted[c]
  BY <1>3 DEF Take, Fresh, TypeOK
<1>14. exclusive' = wanted[c] /\ exclusivePending' /\ validShared' = {} /\ wanted[c] # NoOp
  BY <1>2, <1>3, <1>11, NullsAreNotValues DEF Take
<1>15. OwnerInv' /\ FreeInv'
  BY <1>12, <1>13, <1>14 DEF OwnerInv, FreeInv
<1> QED
  BY <1>4, <1>5, <1>8, <1>10, <1>15

\* The owner leaves: nobody owns, nobody waits, the door is open.
LEMMA ReleaseExclusiveStep ==
  ASSUME IInv, NEW c \in Contexts, ReleaseExclusive(c)
  PROVE  IInv' /\ exclusive # NoOp /\ exclusive' = NoOp
<1> USE DEF IInv
<1>1. lease[c] \in validCapabilities
  BY DEF ReleaseExclusive
<1>2. exclusive # NoOp
  BY <1>1 DEF FreeInv
<1>3. validCapabilities = {lease[c]} /\ wanted[c] = exclusive /\ validShared = {}
  BY <1>1, <1>2 DEF OwnerInv
<1>4. validCapabilities' = {} /\ exclusive' = NoOp
  BY <1>3 DEF ReleaseExclusive
<1>5. TypeOK'
  BY <1>4, <1>2 DEF TypeOK, ReleaseExclusive, MaybeToken
<1>6. CountsAreHolders'
  BY DEF CountsAreHolders, ReleaseExclusive
<1>7. \A d \in Contexts : ~ Waiting(d)
  BY <1>2 DEF WaiterInv
<1>8. \A d \in Contexts : ~ Waiting(d)'
  BY <1>7 DEF ReleaseExclusive, TypeOK, Waiting
<1>9. WaiterInv' /\ WokenInv'
  BY <1>8 DEF WaiterInv, WokenInv, Waiting
<1>10. drainWaiters' = {} /\ {d \in Contexts : work'[d] = "draining"} = {}
  BY <1>7, <1>8 DEF ReleaseExclusive, SleeperInv, Waiting
<1>11. SleeperInv'
  BY <1>10 DEF SleeperInv
<1>12. OwnerInv' /\ FreeInv'
  BY <1>4 DEF OwnerInv, FreeInv
<1>13. LeaseInv'
  BY NullsAreNotValues DEF LeaseInv, ReleaseExclusive, TypeOK
<1> QED
  BY <1>2, <1>4, <1>5, <1>6, <1>9, <1>11, <1>12, <1>13

-----------------------------------------------------------------------------
(* The invariant holds, and what follows from it.                          *)

\* Every step, and every stutter, keeps the inductive invariant.
LEMMA NextIInv == IInv /\ [Next]_vars => IInv'
<1> SUFFICES ASSUME IInv, [Next]_vars PROVE IInv'
  OBVIOUS
<1>1. CASE UNCHANGED vars
  BY <1>1 DEF vars, gateVars, contextVars, IInv, TypeOK, CountsAreHolders, WaiterInv, Waiting,
              WokenInv, SleeperInv, OwnerInv, FreeInv, LeaseInv
<1>2. ASSUME NEW c \in Contexts, NEW t \in Tokens, EnterShared(c, t) PROVE IInv'
  BY <1>2, EnterSharedStep
<1>3. ASSUME NEW c \in Contexts, LeaveShared(c) PROVE IInv'
  BY <1>3, LeaveSharedStep
<1>4. ASSUME NEW c \in Contexts, NEW d \in Contexts, Spawn(c, d) PROVE IInv'
  <2>1. TypeOK'
    BY <1>4 DEF Spawn, IInv, TypeOK, gateVars
  <2> QED
    BY <1>4, <2>1, WorkStep DEF Spawn, IInv, TypeOK
<1>5. ASSUME NEW c \in Contexts, FinishChild(c) PROVE IInv'
  <2>1. TypeOK'
    BY <1>5 DEF FinishChild, IInv, TypeOK, gateVars, MaybeToken
  <2> QED
    BY <1>5, <2>1, WorkStep DEF FinishChild, IInv, TypeOK
<1>6. ASSUME NEW c \in Contexts, BeginMutation(c) \/ EndMutation(c) PROVE IInv'
  <2>1. TypeOK'
    BY <1>6 DEF BeginMutation, EndMutation, IInv, TypeOK, gateVars
  <2> QED
    BY <1>6, <2>1, WorkStep DEF BeginMutation, EndMutation
<1>7. ASSUME NEW c \in Contexts, NEW op \in Operations, NEW t \in Tokens,
             AcquireAtOnce(c, op, t)
      PROVE IInv'
  BY <1>7, AcquireAtOnceStep
<1>8. ASSUME NEW c \in Contexts, NEW op \in Operations, AcquireAndWait(c, op) PROVE IInv'
  BY <1>8, AcquireAndWaitStep
<1>9. ASSUME NEW c \in Contexts, NEW t \in Tokens, Resume(c, t) PROVE IInv'
  BY <1>9, ResumeStep
<1>10. ASSUME NEW c \in Contexts, ReleaseExclusive(c) PROVE IInv'
  BY <1>10, ReleaseExclusiveStep
<1>11. ASSUME NEW c \in Contexts, NEW t \in Tokens, BeginDetachedVideoWork(c, t) PROVE IInv'
  BY <1>11, BeginVideoStep
<1>12. ASSUME NEW c \in Contexts, RunWithAdmission(c) \/ EndAdmissionRun(c) PROVE IInv'
  <2>1. TypeOK'
    BY <1>12 DEF RunWithAdmission, EndAdmissionRun, IInv, TypeOK, gateVars, MaybeToken
  <2> QED
    BY <1>12, <2>1, WorkStep DEF RunWithAdmission, EndAdmissionRun
<1>13. ASSUME NEW c \in Contexts, NEW d \in Contexts, HandOff(c, d) PROVE IInv'
  <2>1. TypeOK'
    BY <1>13 DEF HandOff, IInv, TypeOK, gateVars, MaybeToken
  <2> QED
    BY <1>13, <2>1, WorkStep DEF HandOff, IInv, TypeOK
<1>14. ASSUME NEW c \in Contexts, ReleaseAdmission(c) PROVE IInv'
  BY <1>14, ReleaseAdmissionStep
<1>15. CASE Next
  BY <1>15, <1>2, <1>3, <1>4, <1>5, <1>6, <1>7, <1>8, <1>9, <1>10, <1>11, <1>12, <1>13, <1>14
     DEF Next
<1> QED
  BY <1>1, <1>15

\* The inductive invariant is an invariant of the gate.
THEOREM InductiveInvariant == Spec => []IInv
  BY InitIInv, NextIInv, PTL DEF Spec

\* Type correctness, for every number of contexts and tokens.
THEOREM TypeCorrect == Spec => []TypeOK
<1>1. IInv => TypeOK
  BY DEF IInv
<1> QED
  BY <1>1, InductiveInvariant, PTL

\* The gate's counters are its live leases and admissions (acquireSharedSlot
\* and every release closure, in any order).
THEOREM CountersAreExact == Spec => []CountsAreHolders
<1>1. IInv => CountsAreHolders
  BY DEF IInv
<1> QED
  BY <1>1, InductiveInvariant, PTL

\* Nothing else is alive while an exclusive operation owns the workspace.
THEOREM OwnersAreAlone == Spec => []OwnerIsAlone
<1>1. ASSUME NEW k \in Tokens PROVE Cardinality({k}) = 1
  BY FS_Singleton
<1>2. IInv => OwnerIsAlone
  BY <1>1 DEF IInv, OwnerInv, CountsAreHolders, OwnerIsAlone
<1> QED
  BY <1>2, InductiveInvariant, PTL

\* A woken waiter never meets the two branches acquireWorkspaceExclusive keeps
\* for a rival owner or a new holder: the pending flag already excludes both.
WokenFindsQuiet == \A c \in Contexts : work[c] = "woken" => exclusive = NoOp /\ sharedCount = 0

\* The re-checks after the awaited drain are redundant.
THEOREM WokenWaiterSucceeds == Spec => []WokenFindsQuiet
<1>1. IInv => WokenFindsQuiet
  BY DEF IInv, WokenFindsQuiet, WaiterInv, WokenInv, Waiting
<1> QED
  BY <1>1, InductiveInvariant, PTL

-----------------------------------------------------------------------------
(* Refinement: every step of the gate is a step of the abstract lock.      *)

\* The abstract lock's variables under the refinement mapping.
AbstractVars == <<validShared, exclusive, exclusivePending>>

\* A step of the gate maps to a step of the lock or leaves the lock alone.
LEMMA StepRefines ==
  IInv /\ [Next]_vars => Abstract!ExclusionNext \/ UNCHANGED AbstractVars
<1> SUFFICES ASSUME IInv, [Next]_vars
             PROVE  Abstract!ExclusionNext \/ UNCHANGED AbstractVars
  OBVIOUS
<1> USE DEF AbstractVars
<1>1. CASE UNCHANGED vars
  BY <1>1 DEF vars, gateVars
<1>2. ASSUME NEW c \in Contexts, NEW t \in Tokens,
             EnterShared(c, t) \/ BeginDetachedVideoWork(c, t)
      PROVE  Abstract!ExclusionNext
  <2>1. Abstract!Grant(t)
    BY <1>2 DEF EnterShared, BeginDetachedVideoWork, SlotOpen, Fresh, Abstract!Grant
  <2> QED
    BY <2>1 DEF Abstract!ExclusionNext
<1>3. ASSUME NEW c \in Contexts, NEW t \in validShared,
             validShared' = validShared \ {t}, UNCHANGED <<exclusive, exclusivePending>>
      PROVE  Abstract!ExclusionNext
  <2>1. Abstract!GiveBack(t) /\ t \in Tokens
    BY <1>3 DEF Abstract!GiveBack, IInv, TypeOK
  <2> QED
    BY <2>1 DEF Abstract!ExclusionNext
<1>4. ASSUME NEW c \in Contexts, LeaveShared(c) PROVE Abstract!ExclusionNext
  BY <1>3, <1>4 DEF LeaveShared
<1>5. ASSUME NEW c \in Contexts, ReleaseAdmission(c) PROVE Abstract!ExclusionNext
  BY <1>3, <1>5 DEF ReleaseAdmission, IInv, CountsAreHolders
<1>6. ASSUME NEW c \in Contexts, NEW op \in Operations, AcquireAndWait(c, op)
      PROVE  Abstract!ExclusionNext
  <2>1. validShared # {}
    BY <1>6, CountZero DEF AcquireAndWait, IInv, TypeOK, CountsAreHolders
  <2>2. Abstract!Announce
    BY <1>6, <2>1 DEF AcquireAndWait, SlotOpen, Abstract!Announce
  <2> QED
    BY <2>2 DEF Abstract!ExclusionNext
<1>7. ASSUME NEW c \in Contexts, NEW op \in Operations, NEW t \in Tokens,
             AcquireAtOnce(c, op, t)
      PROVE  Abstract!ExclusionNext
  <2>1. validShared = {}
    BY <1>7, CountZero DEF AcquireAtOnce, IInv, TypeOK, CountsAreHolders
  <2>2. Abstract!Own(op)
    BY <1>7, <2>1 DEF AcquireAtOnce, SlotOpen, Take, Abstract!Own
  <2> QED
    BY <2>2 DEF Abstract!ExclusionNext
<1>8. ASSUME NEW c \in Contexts, NEW t \in Tokens, Resume(c, t)
      PROVE  Abstract!ExclusionNext
  <2>1. exclusive = NoOp /\ sharedCount = 0 /\ exclusivePending /\ wanted[c] \in Operations
    BY <1>8 DEF Resume, IInv, WaiterInv, WokenInv, Waiting
  <2>2. validShared = {}
    BY <2>1, CountZero DEF IInv, TypeOK, CountsAreHolders
  <2>3. Abstract!Own(wanted[c])
    BY <1>8, <2>1, <2>2 DEF Resume, Take, Abstract!Own
  <2> QED
    BY <2>1, <2>3 DEF Abstract!ExclusionNext
<1>9. ASSUME NEW c \in Contexts, ReleaseExclusive(c) PROVE Abstract!ExclusionNext
  <2>1. exclusive # NoOp /\ exclusive' = NoOp
    BY <1>9, ReleaseExclusiveStep
  <2>2. Abstract!Disown
    BY <1>9, <2>1 DEF ReleaseExclusive, Abstract!Disown
  <2> QED
    BY <2>2 DEF Abstract!ExclusionNext
<1>10. ASSUME NEW c \in Contexts,
              \/ \E d \in Contexts : Spawn(c, d) \/ HandOff(c, d)
              \/ FinishChild(c) \/ BeginMutation(c) \/ EndMutation(c)
              \/ RunWithAdmission(c) \/ EndAdmissionRun(c)
       PROVE  UNCHANGED AbstractVars
  BY <1>10 DEF Spawn, HandOff, FinishChild, BeginMutation, EndMutation, RunWithAdmission,
               EndAdmissionRun, gateVars
<1>11. CASE Next
  BY <1>11, <1>2, <1>4, <1>5, <1>6, <1>7, <1>8, <1>9, <1>10 DEF Next
<1> QED
  BY <1>1, <1>11

\* The workspace gate implements the abstract exclusion lock.
THEOREM GateImplementsExclusion == Spec => ImplementsExclusion
<1>1. Init => Abstract!ExclusionInit
  BY DEF Init, Abstract!ExclusionInit
<1>2. IInv /\ [Next]_vars => [Abstract!ExclusionNext]_(Abstract!exclusionVars)
  BY StepRefines DEF AbstractVars, Abstract!exclusionVars
<1> QED
  BY <1>1, <1>2, InductiveInvariant, PTL DEF Spec, ImplementsExclusion, Abstract!ExclusionSpec

-----------------------------------------------------------------------------
(* Who holds what: the second inductive invariant, over every context.     *)

Live == validShared \cup validCapabilities

\* What a context holds and sees goes together.  Only a running context holds
\* anything; a lease is what its holder sees, an owner was no part of other work,
\* and a video admission is held apart from any lease.
Shape(c) ==
  /\ work[c] # "running" => store[c] = NoToken /\ lease[c] = NoToken /\ handle[c] = NoToken
  /\ lease[c] \in validCapabilities \cup {NoToken} => outer[c] = NoToken
  /\ lease[c] # NoToken => store[c] = lease[c] /\ handle[c] = NoToken
  /\ handle[c] # NoToken => store[c] \in {NoToken, handle[c]}
  /\ mutating[c] => store[c] # NoToken

Shaped == \A c \in Contexts : Shape(c)

\* Every hold is live, and nobody else has it.
HoldsAreLive ==
  \A c \in Contexts :
    /\ lease[c] # NoToken => lease[c] \in Live
    /\ handle[c] # NoToken => handle[c] \in admissions
    /\ \A d \in Contexts :
         /\ lease[c] = lease[d] /\ lease[c] # NoToken => c = d
         /\ handle[c] = handle[d] /\ handle[c] # NoToken => c = d

\* Everything that is live has a holder.
LiveAreHeld ==
  /\ \A t \in Live \ admissions : \E c \in Contexts : lease[c] = t
  /\ \A t \in admissions : \E c \in Contexts : handle[c] = t

\* What a context sees is live unless its handler may abandon it, and what it
\* will see again after its own lease is always of the second kind.
Covered ==
  \A c \in Contexts : /\ store[c] \in {NoToken} \cup Abandonable \cup Live
                      /\ outer[c] \in {NoToken} \cup Abandonable

\* A shut door was shut by an owner or by somebody who waits to be one.
Claimed == exclusivePending => exclusive # NoOp \/ \E c \in Contexts : Waiting(c)

HInv == Shaped /\ HoldsAreLive /\ LiveAreHeld /\ Covered /\ Claimed

-----------------------------------------------------------------------------
(* The second inductive invariant.                                         *)

\* The initial state satisfies it: nobody holds or sees anything.
LEMMA InitHInv == Init => HInv
BY DEF Init, HInv, Shaped, Shape, HoldsAreLive, LiveAreHeld, Covered, Claimed, Live

\* The three kinds of live token are two: an admission is a shared lease, and a
\* capability lives only where no shared lease does.
LEMMA LiveKinds ==
  ASSUME IInv
  PROVE  /\ admissions \subseteq validShared
         /\ validShared \cap validCapabilities = {}
         /\ Live \subseteq Tokens
         /\ \A c \in Contexts : lease[c] \notin admissions
BY DEF IInv, TypeOK, CountsAreHolders, OwnerInv, FreeInv, LeaseInv, Live

\* While nobody's holds change, the holds stay live and what is live stays held.
LEMMA HoldsStay ==
  ASSUME HInv, UNCHANGED <<gateVars, lease, handle>>
  PROVE  HoldsAreLive' /\ LiveAreHeld'
<1>1. HoldsAreLive'
  BY DEF HInv, HoldsAreLive, Live, gateVars
<1>2. LiveAreHeld'
  BY DEF HInv, LiveAreHeld, Live, gateVars
<1> QED
  BY <1>1, <1>2

\* While the door and the waiting contexts stay, so does the claim.
LEMMA ClaimStays ==
  ASSUME HInv, UNCHANGED <<exclusive, exclusivePending>>,
         \A c \in Contexts : Waiting(c) => Waiting(c)'
  PROVE  Claimed'
BY DEF HInv, Claimed

\* A context keeps its shape while what it holds, sees and does stays, while it
\* does not stop running, and while its lease becomes no capability.
LEMMA ShapeStays ==
  ASSUME NEW c, Shape(c),
         store'[c] = store[c], outer'[c] = outer[c], lease'[c] = lease[c],
         handle'[c] = handle[c], mutating'[c] = mutating[c],
         work[c] = "running" => work'[c] = "running",
         lease[c] \in validCapabilities' => lease[c] \in validCapabilities \cup {NoToken}
  PROVE  Shape(c)'
BY DEF Shape

\* Work under an authority changes what contexts see and do, never who holds
\* what: a child sees what its parent sees, a mutation starts under a live
\* authority, and a video job sees its own admission.
LEMMA WorkHolds ==
  ASSUME IInv, HInv, NEW c \in Contexts,
         \/ \E d \in Contexts : Spawn(c, d)
         \/ FinishChild(c) \/ BeginMutation(c) \/ EndMutation(c)
         \/ RunWithAdmission(c) \/ EndAdmissionRun(c)
  PROVE  HInv'
<1>1. UNCHANGED <<gateVars, lease, handle, outer>>
  BY DEF Spawn, FinishChild, BeginMutation, EndMutation, RunWithAdmission, EndAdmissionRun
<1>2. HoldsAreLive' /\ LiveAreHeld'
  BY <1>1, HoldsStay
<1>3. \A d \in Contexts : Waiting(d) => Waiting(d)'
  BY DEF Spawn, FinishChild, BeginMutation, EndMutation, RunWithAdmission, EndAdmissionRun,
         Waiting, IInv, TypeOK
<1>4. Claimed'
  BY <1>1, <1>3, ClaimStays DEF gateVars
<1>5. Shaped'
  <2> USE DEF HInv, Shaped, gateVars
  <2>1. ASSUME NEW d \in Contexts, Spawn(c, d) PROVE Shaped'
    <3>1. /\ work[d] = "idle" /\ handle[d] = NoToken
          /\ work' = [work EXCEPT ![d] = "running"]
          /\ store' = [store EXCEPT ![d] = store[c]]
          /\ mutating' = mutating
      BY <2>1 DEF Spawn
    <3>2. Shape(d)'
      BY <1>1, <3>1 DEF Shape, IInv, TypeOK
    <3>3. ASSUME NEW x \in Contexts, x # d PROVE Shape(x)'
      BY <1>1, <3>1, <3>3, ShapeStays DEF IInv, TypeOK
    <3> QED
      BY <3>2, <3>3
  <2>2. CASE \/ FinishChild(c) \/ BeginMutation(c) \/ EndMutation(c)
             \/ RunWithAdmission(c) \/ EndAdmissionRun(c)
    <3>1. Shape(c)
      OBVIOUS
    <3>2. Shape(c)'
      <4>1. CASE FinishChild(c)
        BY <1>1, <3>1, <4>1 DEF FinishChild, Shape, IInv, TypeOK
      <4>2. CASE BeginMutation(c)
        <5>1. store[c] # NoToken
          BY <4>2, LiveKinds, NullsAreNotValues DEF BeginMutation, HasAuthority, Live
        <5> QED
          BY <1>1, <3>1, <4>2, <5>1 DEF BeginMutation, Shape
      <4>3. CASE EndMutation(c)
        BY <1>1, <3>1, <4>3 DEF EndMutation, Shape, IInv, TypeOK
      <4>4. CASE RunWithAdmission(c)
        BY <1>1, <3>1, <4>4 DEF RunWithAdmission, Shape, IInv, TypeOK
      <4>5. CASE EndAdmissionRun(c)
        BY <1>1, <3>1, <4>5 DEF EndAdmissionRun, Shape, IInv, TypeOK
      <4> QED
        BY <2>2, <4>1, <4>2, <4>3, <4>4, <4>5
    <3>3. ASSUME NEW x \in Contexts, x # c
          PROVE  store'[x] = store[x] /\ work'[x] = work[x] /\ mutating'[x] = mutating[x]
      BY <2>2, <3>3 DEF FinishChild, BeginMutation, EndMutation, RunWithAdmission,
                        EndAdmissionRun, IInv, TypeOK
    <3>4. ASSUME NEW x \in Contexts, x # c PROVE Shape(x)'
      BY <1>1, <3>3, <3>4, ShapeStays
    <3> QED
      BY <3>2, <3>4
  <2> QED
    BY <2>1, <2>2
<1>6. Covered'
  <2> USE DEF HInv, Covered, Live, gateVars
  <2>1. ASSUME NEW d \in Contexts, Spawn(c, d) PROVE Covered'
    BY <1>1, <2>1 DEF Spawn, IInv, TypeOK
  <2>2. CASE FinishChild(c) \/ EndAdmissionRun(c)
    BY <1>1, <2>2 DEF FinishChild, EndAdmissionRun, IInv, TypeOK
  <2>3. CASE BeginMutation(c) \/ EndMutation(c)
    BY <1>1, <2>3 DEF BeginMutation, EndMutation
  <2>4. CASE RunWithAdmission(c)
    BY <1>1, <2>4, LiveKinds DEF RunWithAdmission, HoldsAreLive, IInv, TypeOK
  <2> QED
    BY <2>1, <2>2, <2>3, <2>4
<1> QED
  BY <1>2, <1>4, <1>5, <1>6 DEF HInv

\* The job that takes an admission over is its only holder from then on.
LEMMA HandOffHolds ==
  ASSUME IInv, HInv, NEW c \in Contexts, NEW d \in Contexts, HandOff(c, d)
  PROVE  HInv'
<1>1. /\ work[c] = "running" /\ handle[c] # NoToken /\ store[c] = NoToken
      /\ work[d] = "idle" /\ handle[d] = NoToken /\ c # d
      /\ work' = [work EXCEPT ![c] = "idle", ![d] = "running"]
      /\ handle' = [handle EXCEPT ![c] = NoToken, ![d] = handle[c]]
      /\ UNCHANGED <<gateVars, store, outer, lease, mutating>>
  BY DEF HandOff
<1>2. lease[c] = NoToken /\ lease[d] = NoToken /\ store[d] = NoToken
  BY <1>1 DEF HInv, Shaped, Shape
<1>4. /\ handle'[c] = NoToken /\ handle'[d] = handle[c]
      /\ work'[c] = "idle" /\ work'[d] = "running"
      /\ \A x \in Contexts \ {c, d} : handle'[x] = handle[x] /\ work'[x] = work[x]
  BY <1>1 DEF IInv, TypeOK
<1>3. Shaped'
  <2>1. Shape(c)' /\ Shape(d)'
    BY <1>1, <1>2, <1>4 DEF HInv, Shaped, Shape, gateVars
  <2>2. ASSUME NEW x \in Contexts \ {c, d} PROVE Shape(x)'
    BY <1>1, <1>4, ShapeStays DEF HInv, Shaped, gateVars
  <2> QED
    BY <2>1, <2>2 DEF Shaped
<1>10. \A x \in Contexts : \A y \in Contexts :
         handle'[x] = handle'[y] /\ handle'[x] # NoToken => x = y
  BY <1>1, <1>4 DEF HInv, HoldsAreLive
<1>5. HoldsAreLive'
  <2>1. \A x \in Contexts : handle'[x] # NoToken => handle'[x] \in admissions
    BY <1>1, <1>4 DEF HInv, HoldsAreLive
  <2>2. \A x \in Contexts : /\ lease[x] # NoToken => lease[x] \in Live
                            /\ \A y \in Contexts : lease[x] = lease[y] /\ lease[x] # NoToken => x = y
    BY DEF HInv, HoldsAreLive
  <2> QED
    BY <1>1, <1>10, <2>1, <2>2 DEF HoldsAreLive, Live, gateVars
<1>6. LiveAreHeld'
  <2>1. ASSUME NEW k \in admissions PROVE \E x \in Contexts : handle'[x] = k
    <3>1. PICK x \in Contexts : handle[x] = k
      BY DEF HInv, LiveAreHeld
    <3>2. x # d
      BY <1>1, <3>1, NullsAreNotValues DEF IInv, TypeOK
    <3> QED
      BY <1>4, <3>1, <3>2
  <2> QED
    BY <1>1, <2>1 DEF HInv, LiveAreHeld, Live, gateVars
<1>7. Covered'
  BY <1>1 DEF HInv, Covered, Live, gateVars
<1>8. \A x \in Contexts : Waiting(x) => Waiting(x)'
  BY <1>1 DEF Waiting, IInv, TypeOK
<1>9. Claimed'
  BY <1>1, <1>8, ClaimStays DEF gateVars
<1> QED
  BY <1>3, <1>5, <1>6, <1>7, <1>9 DEF HInv

\* A lease that is granted has a fresh token, which nobody held or saw.
LEMMA EnterSharedHolds ==
  ASSUME IInv, HInv, NEW c \in Contexts, NEW t \in Tokens, EnterShared(c, t)
  PROVE  HInv'
<1>1. /\ ~ mutating[c] /\ handle[c] = NoToken /\ ~ HasAuthority(c)
      /\ SlotOpen /\ Fresh(t)
      /\ validShared' = validShared \cup {t}
      /\ work' = [work EXCEPT ![c] = "running"]
      /\ outer' = [outer EXCEPT ![c] = store[c]]
      /\ store' = [store EXCEPT ![c] = t]
      /\ lease' = [lease EXCEPT ![c] = t]
      /\ UNCHANGED <<exclusive, exclusivePending, validCapabilities, admissions, handle, mutating>>
  BY DEF EnterShared
<1>2. lease[c] = NoToken
  BY DEF EnterShared, HInv, Shaped, Shape
<1>3. t # NoToken
  BY NullsAreNotValues
<1>5. /\ lease'[c] = t /\ t \notin Live /\ t \notin admissions
      /\ \A x \in Contexts : lease[x] # t
      /\ \A x \in Contexts \ {c} : lease'[x] = lease[x]
      /\ Live' = Live \cup {t}
  BY <1>1 DEF Fresh, IInv, TypeOK, Live
<1>4. Shaped'
  <2>1. work'[c] = "running" /\ store'[c] = t /\ t \notin validCapabilities
    BY <1>1, <1>5 DEF IInv, TypeOK, Live
  <2>2. Shape(c)'
    BY <1>1, <1>3, <1>5, <2>1 DEF Shape
  <2>3. ASSUME NEW x \in Contexts \ {c} PROVE Shape(x)'
    BY <1>1, ShapeStays DEF HInv, Shaped, IInv, TypeOK
  <2> QED
    BY <2>2, <2>3 DEF Shaped
<1>6. HoldsAreLive'
  BY <1>1, <1>2, <1>5 DEF HInv, HoldsAreLive
<1>7. LiveAreHeld'
  <2>1. ASSUME NEW k \in (Live \ admissions)' PROVE \E x \in Contexts : lease'[x] = k
    <3>1. CASE k = t
      BY <3>1, <1>5
    <3>2. CASE k # t
      <4>1. PICK x \in Contexts : lease[x] = k
        BY <1>1, <1>5, <3>2 DEF HInv, LiveAreHeld
      <4>2. x # c
        BY <1>2, <1>5, <1>1, <3>2, <4>1, NullsAreNotValues, LiveKinds
      <4> QED
        BY <1>5, <4>1, <4>2
    <3> QED
      BY <3>1, <3>2
  <2> QED
    BY <1>1, <2>1 DEF HInv, LiveAreHeld
<1>8. Covered'
  <2>1. store[c] \in {NoToken} \cup Abandonable
    BY <1>1 DEF HasAuthority, HInv, Covered, Live
  <2> QED
    BY <1>1, <1>5, <2>1 DEF HInv, Covered, IInv, TypeOK
<1>9. Claimed'
  BY <1>1 DEF SlotOpen, Claimed
<1> QED
  BY <1>4, <1>6, <1>7, <1>8, <1>9 DEF HInv

\* So has a video admission, which its context holds apart from any lease.
LEMMA BeginVideoHolds ==
  ASSUME IInv, HInv, NEW c \in Contexts, NEW t \in Tokens, BeginDetachedVideoWork(c, t)
  PROVE  HInv'
<1>1. /\ work[c] = "idle" /\ handle[c] = NoToken
      /\ SlotOpen /\ Fresh(t)
      /\ validShared' = validShared \cup {t}
      /\ admissions' = admissions \cup {t}
      /\ work' = [work EXCEPT ![c] = "running"]
      /\ handle' = [handle EXCEPT ![c] = t]
      /\ UNCHANGED <<exclusive, exclusivePending, validCapabilities, store, outer, lease, mutating>>
  BY DEF BeginDetachedVideoWork
<1>2. t # NoToken /\ lease[c] = NoToken /\ store[c] = NoToken
  BY <1>1, NullsAreNotValues DEF HInv, Shaped, Shape
<1>3. Shaped'
  <2>1. handle'[c] = t /\ work'[c] = "running"
    BY <1>1 DEF IInv, TypeOK
  <2>2. Shape(c)'
    BY <1>1, <1>2, <2>1 DEF HInv, Shaped, Shape
  <2>3. ASSUME NEW x \in Contexts \ {c} PROVE Shape(x)'
    BY <1>1, ShapeStays DEF HInv, Shaped, IInv, TypeOK
  <2> QED
    BY <2>2, <2>3 DEF Shaped
<1>4. /\ handle'[c] = t /\ t \notin Live /\ t \notin admissions
      /\ \A x \in Contexts : lease[x] # t /\ handle[x] # t
      /\ \A x \in Contexts \ {c} : handle'[x] = handle[x]
      /\ Live' = Live \cup {t}
  BY <1>1 DEF Fresh, IInv, TypeOK, Live
<1>5. HoldsAreLive'
  BY <1>1, <1>2, <1>4 DEF HInv, HoldsAreLive
<1>6. LiveAreHeld'
  <2>1. \A k \in (Live \ admissions)' : k \in Live \ admissions
    BY <1>1, <1>4
  <2>2. \A k \in admissions' : k = t \/ k \in admissions
    BY <1>1
  <2>3. NoToken \notin admissions
    BY NullsAreNotValues DEF IInv, TypeOK
  <2>4. \A k \in admissions : \E x \in Contexts \ {c} : handle[x] = k
    BY <1>1, <2>3 DEF HInv, LiveAreHeld
  <2> QED
    BY <1>1, <1>4, <2>1, <2>2, <2>4 DEF HInv, LiveAreHeld
<1>7. Covered'
  BY <1>1, <1>4 DEF HInv, Covered
<1>8. Claimed'
  BY <1>1 DEF SlotOpen, Claimed
<1> QED
  BY <1>3, <1>5, <1>6, <1>7, <1>8 DEF HInv

\* When the awaited work of a token has settled, nobody but the token's holder
\* sees it, unless the token is one that may be abandoned.
LEMMA SettledUnseen ==
  ASSUME HInv, NEW t \in Tokens, t \notin Abandonable, Settled(t)
  PROVE  /\ \A d \in Contexts : store[d] = t => lease[d] = t
         /\ \A d \in Contexts : outer[d] # t
<1>1. ASSUME NEW d \in Contexts, store[d] = t, lease[d] # t PROVE FALSE
  <2>1. work[d] = "idle"
    BY <1>1 DEF Settled, ChildrenOf
  <2> QED
    BY <1>1, <2>1, NullsAreNotValues DEF HInv, Shaped, Shape
<1>2. ASSUME NEW d \in Contexts PROVE outer[d] # t
  BY NullsAreNotValues DEF HInv, Covered
<1> QED
  BY <1>1, <1>2

\* The end of a shared lease.
LEMMA LeaveSharedHolds ==
  ASSUME IInv, HInv, NEW c \in Contexts, LeaveShared(c)
  PROVE  HInv'
<1> DEFINE t == lease[c]
           w == [work EXCEPT ![c] = IF outer[c] = NoToken THEN "idle" ELSE "running"]
<1>1. /\ work[c] = "running" /\ ~ mutating[c]
      /\ t \in validShared /\ store[c] = t /\ Settled(t)
      /\ validShared' = validShared \ {t}
      /\ work' = Woken(Decrement(sharedCount), w)
      /\ store' = [store EXCEPT ![c] = outer[c]]
      /\ outer' = [outer EXCEPT ![c] = NoToken]
      /\ lease' = [lease EXCEPT ![c] = NoToken]
      /\ UNCHANGED <<exclusive, exclusivePending, validCapabilities, admissions, handle, mutating>>
  BY DEF LeaveShared
<1>2. t \in Tokens /\ t # NoToken /\ t \notin admissions /\ handle[c] = NoToken
  BY <1>1, LiveKinds, NullsAreNotValues DEF IInv, TypeOK, HInv, Shaped, Shape
<1>3. \A x \in drainWaiters : work[x] = "draining"
  BY DEF IInv, SleeperInv
<1>4. \A x \in Contexts \ {c} :
        work'[x] = work[x] \/ (work[x] = "draining" /\ work'[x] = "woken")
  BY <1>1, <1>3 DEF Woken, IInv, TypeOK
<1>5. work'[c] = IF outer[c] = NoToken THEN "idle" ELSE "running"
  BY <1>1, <1>3 DEF Woken, IInv, TypeOK
<1>6. /\ store'[c] = outer[c] /\ outer'[c] = NoToken /\ lease'[c] = NoToken
      /\ \A x \in Contexts \ {c} : store'[x] = store[x] /\ outer'[x] = outer[x] /\ lease'[x] = lease[x]
  BY <1>1 DEF IInv, TypeOK
<1>7. Shaped'
  <2>1. Shape(c)'
    BY <1>1, <1>2, <1>5, <1>6 DEF Shape
  <2>2. ASSUME NEW x \in Contexts \ {c} PROVE Shape(x)'
    BY <1>1, <1>4, <1>6, ShapeStays DEF HInv, Shaped
  <2> QED
    BY <2>1, <2>2 DEF Shaped
<1>8. Live' = Live \ {t}
  BY <1>1, LiveKinds DEF Live
<1>9. \A x \in Contexts \ {c} : lease[x] # t
  BY <1>2 DEF HInv, HoldsAreLive
<1>10. HoldsAreLive'
  BY <1>1, <1>6, <1>8, <1>9 DEF HInv, HoldsAreLive
<1>11. LiveAreHeld'
  BY <1>1, <1>6, <1>8 DEF HInv, LiveAreHeld
<1>12. Covered'
  <2>1. \A x \in Contexts \ {c} : t \in Abandonable \/ store[x] # t
    BY <1>1, <1>2, <1>9, SettledUnseen
  <2> QED
    BY <1>6, <1>8, <2>1 DEF HInv, Covered
<1>13. \A x \in Contexts : Waiting(x) => Waiting(x)'
  BY <1>1, <1>4 DEF Waiting
<1>14. Claimed'
  BY <1>1, <1>13, ClaimStays
<1> QED
  BY <1>7, <1>10, <1>11, <1>12, <1>14 DEF HInv

\* The end of a video admission.
LEMMA ReleaseAdmissionHolds ==
  ASSUME IInv, HInv, NEW c \in Contexts, ReleaseAdmission(c)
  PROVE  HInv'
<1> DEFINE t == handle[c]
           w == [work EXCEPT ![c] = "idle"]
<1>1. /\ work[c] = "running" /\ t \in admissions /\ store[c] = NoToken /\ Settled(t)
      /\ admissions' = admissions \ {t}
      /\ validShared' = validShared \ {t}
      /\ work' = Woken(Decrement(sharedCount), w)
      /\ handle' = [handle EXCEPT ![c] = NoToken]
      /\ UNCHANGED <<exclusive, exclusivePending, validCapabilities, store, outer, lease, mutating>>
  BY DEF ReleaseAdmission
<1>2. t \in Tokens /\ t # NoToken /\ lease[c] = NoToken
  BY <1>1, NullsAreNotValues DEF IInv, TypeOK, HInv, Shaped, Shape
<1>3. \A x \in drainWaiters : work[x] = "draining"
  BY DEF IInv, SleeperInv
<1>4. \A x \in Contexts \ {c} :
        work'[x] = work[x] \/ (work[x] = "draining" /\ work'[x] = "woken")
  BY <1>1, <1>3 DEF Woken, IInv, TypeOK
<1>5. /\ handle'[c] = NoToken
      /\ \A x \in Contexts \ {c} : handle'[x] = handle[x]
  BY <1>1 DEF IInv, TypeOK
<1>6. Shaped'
  <2>1. Shape(c)'
    BY <1>1, <1>2, <1>5 DEF HInv, Shaped, Shape
  <2>2. ASSUME NEW x \in Contexts \ {c} PROVE Shape(x)'
    BY <1>1, <1>4, <1>5, ShapeStays DEF HInv, Shaped
  <2> QED
    BY <2>1, <2>2 DEF Shaped
<1>7. Live' = Live \ {t} /\ \A x \in Contexts : lease[x] # t
  BY <1>1, LiveKinds DEF Live
<1>8. \A x \in Contexts \ {c} : handle[x] # t
  BY <1>2 DEF HInv, HoldsAreLive
<1>9. HoldsAreLive'
  BY <1>1, <1>5, <1>7, <1>8 DEF HInv, HoldsAreLive
<1>10. LiveAreHeld'
  BY <1>1, <1>5, <1>7 DEF HInv, LiveAreHeld
<1>11. Covered'
  <2>1. \A x \in Contexts : t \in Abandonable \/ store[x] # t
    BY <1>1, <1>2, <1>7, SettledUnseen
  <2> QED
    BY <1>1, <1>7, <2>1 DEF HInv, Covered
<1>12. \A x \in Contexts : Waiting(x) => Waiting(x)'
  BY <1>1, <1>4 DEF Waiting
<1>13. Claimed'
  BY <1>1, <1>12, ClaimStays
<1> QED
  BY <1>6, <1>9, <1>10, <1>11, <1>13 DEF HInv

\* Becoming the owner: the capability is fresh, and it is the only live token.
LEMMA TakeHolds ==
  ASSUME IInv, HInv, NEW c \in Contexts, NEW op \in Operations, NEW t \in Tokens,
         Take(c, op, t), work[c] # "running",
         UNCHANGED <<validShared, admissions, outer, handle, mutating>>
  PROVE  HInv'
<1>1. /\ work' = [work EXCEPT ![c] = "running"]
      /\ store' = [store EXCEPT ![c] = t]
      /\ lease' = [lease EXCEPT ![c] = t]
      /\ validCapabilities' = validCapabilities \cup {t}
      /\ exclusive' = op /\ Fresh(t)
  BY DEF Take
<1>2. t # NoToken /\ lease[c] = NoToken /\ store[c] = NoToken /\ handle[c] = NoToken
  BY NullsAreNotValues DEF HInv, Shaped, Shape
<1>4. /\ lease'[c] = t /\ t \notin Live /\ t \notin admissions
      /\ \A x \in Contexts : lease[x] # t
      /\ \A x \in Contexts \ {c} : lease'[x] = lease[x]
      /\ Live' = Live \cup {t}
  BY <1>1 DEF Fresh, IInv, TypeOK, Live
<1>3. Shaped'
  <2>1. work'[c] = "running" /\ store'[c] = t /\ outer[c] = NoToken
    BY <1>1, <1>2 DEF IInv, TypeOK, HInv, Shaped, Shape
  <2>2. Shape(c)'
    BY <1>2, <1>4, <2>1 DEF Shape
  <2>3. ASSUME NEW x \in Contexts \ {c} PROVE Shape(x)'
    BY <1>1, <1>4, ShapeStays DEF HInv, Shaped, IInv, TypeOK
  <2> QED
    BY <2>2, <2>3 DEF Shaped
<1>5. HoldsAreLive'
  BY <1>2, <1>4 DEF HInv, HoldsAreLive
<1>6. NoToken \notin Live
  BY NullsAreNotValues, LiveKinds
<1>7. \A k \in Live \ admissions : \E x \in Contexts \ {c} : lease[x] = k
  BY <1>2, <1>6 DEF HInv, LiveAreHeld
<1>8. LiveAreHeld'
  BY <1>4, <1>7 DEF HInv, LiveAreHeld
<1>9. Covered'
  BY <1>1, <1>4 DEF HInv, Covered, IInv, TypeOK
<1>10. Claimed'
  BY <1>1, NullsAreNotValues DEF Claimed
<1> QED
  BY <1>3, <1>5, <1>8, <1>9, <1>10 DEF HInv

\* Shutting the door to wait: the waiter holds nothing yet, and claims it.
LEMMA AcquireAndWaitHolds ==
  ASSUME IInv, HInv, NEW c \in Contexts, NEW op \in Operations, AcquireAndWait(c, op)
  PROVE  HInv'
<1>1. /\ work[c] = "idle"
      /\ work' = [work EXCEPT ![c] = "draining"]
      /\ UNCHANGED <<exclusive, validShared, validCapabilities, admissions, store, outer, lease,
                     handle, mutating>>
  BY DEF AcquireAndWait
<1>2. Shaped'
  BY <1>1, ShapeStays DEF HInv, Shaped, IInv, TypeOK
<1>3. HoldsAreLive' /\ LiveAreHeld'
  BY <1>1 DEF HInv, HoldsAreLive, LiveAreHeld, Live
<1>4. Covered'
  BY <1>1 DEF HInv, Covered, Live
<1>5. Waiting(c)'
  BY <1>1 DEF Waiting, IInv, TypeOK
<1>6. Claimed'
  BY <1>5 DEF Claimed
<1> QED
  BY <1>2, <1>3, <1>4, <1>6 DEF HInv

\* The owner leaves with the only live token.
LEMMA ReleaseExclusiveHolds ==
  ASSUME IInv, HInv, NEW c \in Contexts, ReleaseExclusive(c)
  PROVE  HInv'
<1> DEFINE t == lease[c]
<1>1. /\ work[c] = "running" /\ ~ mutating[c]
      /\ t \in validCapabilities /\ Settled(t)
      /\ validCapabilities' = validCapabilities \ {t}
      /\ exclusivePending' = FALSE
      /\ work' = [work EXCEPT ![c] = "idle"]
      /\ store' = [store EXCEPT ![c] = NoToken]
      /\ lease' = [lease EXCEPT ![c] = NoToken]
      /\ UNCHANGED <<validShared, admissions, outer, handle, mutating>>
  BY DEF ReleaseExclusive
<1>2. t \in Tokens /\ t # NoToken /\ store[c] = t /\ handle[c] = NoToken
  BY <1>1, NullsAreNotValues DEF IInv, TypeOK, HInv, Shaped, Shape
<1>3. \A x \in Contexts \ {c} : lease[x] # t
  BY <1>2 DEF HInv, HoldsAreLive
<1>4. Live' = Live \ {t}
  BY <1>1, LiveKinds DEF Live
<1>5. /\ store'[c] = NoToken /\ lease'[c] = NoToken
      /\ \A x \in Contexts \ {c} : store'[x] = store[x] /\ lease'[x] = lease[x]
  BY <1>1 DEF IInv, TypeOK
<1>6. \A x \in Contexts : t \in Abandonable \/ (store[x] = t => x = c)
  BY <1>1, <1>2, <1>3, SettledUnseen
<1>7. Shaped'
  <2>1. outer[c] = NoToken
    BY <1>1 DEF HInv, Shaped, Shape
  <2>2. Shape(c)'
    BY <1>1, <1>2, <1>5, <2>1 DEF Shape
  <2>3. ASSUME NEW x \in Contexts \ {c} PROVE Shape(x)'
    BY <1>1, <1>5, ShapeStays DEF HInv, Shaped, IInv, TypeOK
  <2> QED
    BY <2>2, <2>3 DEF Shaped
<1>8. HoldsAreLive'
  BY <1>1, <1>3, <1>4, <1>5 DEF HInv, HoldsAreLive
<1>9. LiveAreHeld'
  BY <1>1, <1>4, <1>5 DEF HInv, LiveAreHeld
<1>10. Covered'
  BY <1>1, <1>4, <1>5, <1>6 DEF HInv, Covered
<1>11. Claimed'
  BY <1>1 DEF Claimed
<1> QED
  BY <1>7, <1>8, <1>9, <1>10, <1>11 DEF HInv

\* Every step, and every stutter, keeps the second inductive invariant.
LEMMA NextHInv == IInv /\ HInv /\ [Next]_vars => HInv'
<1> SUFFICES ASSUME IInv, HInv, [Next]_vars PROVE HInv'
  OBVIOUS
<1>1. CASE UNCHANGED vars
  BY <1>1 DEF vars, gateVars, contextVars, HInv, Shaped, Shape, HoldsAreLive, LiveAreHeld, Covered,
              Claimed, Waiting, Live
<1>2. ASSUME NEW c \in Contexts, NEW t \in Tokens, EnterShared(c, t) PROVE HInv'
  BY <1>2, EnterSharedHolds
<1>3. ASSUME NEW c \in Contexts, LeaveShared(c) PROVE HInv'
  BY <1>3, LeaveSharedHolds
<1>4. ASSUME NEW c \in Contexts,
             \/ \E d \in Contexts : Spawn(c, d)
             \/ FinishChild(c) \/ BeginMutation(c) \/ EndMutation(c)
             \/ RunWithAdmission(c) \/ EndAdmissionRun(c)
      PROVE  HInv'
  BY <1>4, WorkHolds
<1>5. ASSUME NEW c \in Contexts, NEW op \in Operations, NEW t \in Tokens,
             AcquireAtOnce(c, op, t)
      PROVE HInv'
  <2>1. /\ Take(c, op, t) /\ work[c] # "running"
        /\ UNCHANGED <<validShared, admissions, outer, handle, mutating>>
    BY <1>5 DEF AcquireAtOnce
  <2> QED
    BY <2>1, TakeHolds
<1>6. ASSUME NEW c \in Contexts, NEW op \in Operations, AcquireAndWait(c, op) PROVE HInv'
  BY <1>6, AcquireAndWaitHolds
<1>7. ASSUME NEW c \in Contexts, NEW t \in Tokens, Resume(c, t) PROVE HInv'
  <2>1. work[c] = "woken"
    BY <1>7 DEF Resume
  <2>2. exclusive = NoOp /\ sharedCount = 0 /\ wanted[c] \in Operations
    BY <2>1 DEF IInv, WaiterInv, WokenInv, Waiting
  <2>3. /\ Take(c, wanted[c], t)
        /\ UNCHANGED <<validShared, admissions, outer, handle, mutating>>
    BY <1>7, <2>2 DEF Resume
  <2> QED
    BY <2>1, <2>2, <2>3, TakeHolds
<1>8. ASSUME NEW c \in Contexts, ReleaseExclusive(c) PROVE HInv'
  BY <1>8, ReleaseExclusiveHolds
<1>9. ASSUME NEW c \in Contexts, NEW t \in Tokens, BeginDetachedVideoWork(c, t) PROVE HInv'
  BY <1>9, BeginVideoHolds
<1>10. ASSUME NEW c \in Contexts, NEW d \in Contexts, HandOff(c, d) PROVE HInv'
  BY <1>10, HandOffHolds
<1>11. ASSUME NEW c \in Contexts, ReleaseAdmission(c) PROVE HInv'
  BY <1>11, ReleaseAdmissionHolds
<1>12. CASE Next
  BY <1>12, <1>2, <1>3, <1>4, <1>5, <1>6, <1>7, <1>8, <1>9, <1>10, <1>11 DEF Next
<1> QED
  BY <1>1, <1>12

\* Who holds what is an invariant of the gate.
THEOREM HoldsInvariant == Spec => []HInv
<1>1. Init => HInv
  BY InitHInv
<1>2. IInv /\ HInv /\ [Next]_vars => HInv'
  BY NextHInv
<1> QED
  BY <1>1, <1>2, InductiveInvariant, PTL DEF Spec

-----------------------------------------------------------------------------
(* What follows for the properties of the gate.                            *)

\* The door is shut for exactly one context: the owner, or the one that waits.
LEMMA OneOwnerFollows == IInv /\ HInv => PendingHasOneOwner
<1> SUFFICES ASSUME IInv, HInv PROVE PendingHasOneOwner
  OBVIOUS
<1> DEFINE claimants == {c \in Contexts : \/ work[c] \in {"draining", "woken"}
                                         \/ lease[c] \in validCapabilities}
<1>1. ASSUME NEW c \in Contexts PROVE Cardinality({c}) = 1
  BY FS_Singleton
<1>2. Cardinality({}) = 0
  BY FS_EmptySet
<1>3. CASE exclusive # NoOp
  <2>1. \A c \in Contexts : ~ Waiting(c)
    BY <1>3 DEF IInv, WaiterInv
  <2>2. PICK k \in Tokens : validCapabilities = {k}
    BY <1>3 DEF IInv, OwnerInv
  <2>3. validShared = {} /\ admissions = {} /\ exclusivePending
    BY <1>3, LiveKinds DEF IInv, OwnerInv
  <2>4. PICK c \in Contexts : lease[c] = k
    BY <2>2, <2>3 DEF HInv, LiveAreHeld, Live
  <2>5. \A d \in Contexts : lease[d] = k => d = c
    BY <2>4, NullsAreNotValues DEF HInv, HoldsAreLive
  <2>6. claimants = {c}
    BY <2>1, <2>2, <2>4, <2>5 DEF Waiting
  <2>7. Cardinality(claimants) = IF exclusivePending THEN 1 ELSE 0
    BY <1>1, <2>3, <2>6
  <2> QED
    BY <2>7 DEF PendingHasOneOwner, IInv, SleeperInv
<1>4. CASE exclusive = NoOp /\ exclusivePending
  <2>1. PICK c \in Contexts : Waiting(c)
    BY <1>4 DEF HInv, Claimed
  <2>2. validCapabilities = {} /\ \A d \in Contexts : Waiting(d) => d = c
    BY <1>4, <2>1 DEF IInv, FreeInv, WaiterInv
  <2>3. claimants = {c}
    BY <2>1, <2>2 DEF Waiting
  <2>4. Cardinality(claimants) = IF exclusivePending THEN 1 ELSE 0
    BY <1>1, <1>4, <2>3
  <2> QED
    BY <2>4 DEF PendingHasOneOwner, IInv, SleeperInv
<1>5. CASE exclusive = NoOp /\ ~ exclusivePending
  <2>1. validCapabilities = {} /\ \A d \in Contexts : ~ Waiting(d)
    BY <1>5 DEF IInv, FreeInv, WaiterInv
  <2>2. claimants = {}
    BY <2>1 DEF Waiting
  <2>3. Cardinality(claimants) = IF exclusivePending THEN 1 ELSE 0
    BY <1>2, <1>5, <2>2
  <2> QED
    BY <2>3 DEF PendingHasOneOwner, IInv, SleeperInv
<1> QED
  BY <1>3, <1>4, <1>5

\* A live lease is in one pair of hands.
LEMMA LeasesHeldFollows == IInv /\ HInv => LeasesAreHeld
<1> SUFFICES ASSUME IInv, HInv, NEW t \in validShared
             PROVE  Cardinality({c \in Contexts : t \in {lease[c], handle[c]}}) = 1
  BY DEF LeasesAreHeld
<1>1. t # NoToken /\ t \in Live /\ \A c \in Contexts : lease[c] \notin admissions
  BY NullsAreNotValues, LiveKinds DEF Live
<1>2. PICK c \in Contexts : t \in {lease[c], handle[c]}
  BY <1>1 DEF HInv, LiveAreHeld
<1>3. ASSUME NEW d \in Contexts, t \in {lease[d], handle[d]} PROVE d = c
  BY <1>1, <1>2, <1>3 DEF HInv, HoldsAreLive
<1>4. {d \in Contexts : t \in {lease[d], handle[d]}} = {c}
  BY <1>2, <1>3
<1> QED
  BY <1>4, FS_Singleton

\* Work in flight is under a live authority, which under an owner is the owner's.
LEMMA MutationsFollow == IInv /\ HInv => MutationsAreCovered /\ HoldersNeverOverlapOwner
<1> SUFFICES ASSUME IInv, HInv PROVE MutationsAreCovered /\ HoldersNeverOverlapOwner
  OBVIOUS
<1>1. ASSUME NEW c \in Contexts, mutating[c], store[c] \notin Abandonable PROVE store[c] \in Live
  BY <1>1 DEF HInv, Shaped, Shape, Covered
<1>2. ASSUME NEW c \in Contexts, lease[c] # NoToken PROVE lease[c] \in Live
  BY <1>2 DEF HInv, HoldsAreLive
<1>3. Live = IF exclusive = NoOp THEN validShared ELSE validCapabilities
  BY DEF Live, IInv, OwnerInv, FreeInv
<1>4. MutationsAreCovered
  BY <1>1, <1>3 DEF MutationsAreCovered
<1>5. HoldersNeverOverlapOwner
  BY <1>2, <1>3 DEF HoldersNeverOverlapOwner
<1> QED
  BY <1>4, <1>5

\* A mutation that starts is under a live authority at that very step.
LEMMA StartsFollow ==
  IInv /\ [Next]_vars =>
    \A c \in Contexts :
      ~ mutating[c] /\ mutating'[c] /\ exclusive # NoOp => store[c] \in validCapabilities
<1> SUFFICES ASSUME IInv, [Next]_vars, NEW c \in Contexts,
                    ~ mutating[c], mutating'[c], exclusive # NoOp
             PROVE  store[c] \in validCapabilities
  OBVIOUS
<1>1. mutating' # mutating
  OBVIOUS
<1>2. PICK d \in Contexts : BeginMutation(d) \/ EndMutation(d)
  <2>1. ASSUME NEW d \in Contexts,
               \/ \E t \in Tokens : EnterShared(d, t) \/ Resume(d, t) \/ BeginDetachedVideoWork(d, t)
               \/ \E op \in Operations, t \in Tokens : AcquireAtOnce(d, op, t)
               \/ \E op \in Operations : AcquireAndWait(d, op)
        PROVE  mutating' = mutating
    BY <2>1 DEF EnterShared, Resume, BeginDetachedVideoWork, AcquireAtOnce, AcquireAndWait
  <2>2. ASSUME NEW d \in Contexts,
               \/ \E e \in Contexts : Spawn(d, e) \/ HandOff(d, e)
               \/ LeaveShared(d) \/ FinishChild(d) \/ ReleaseExclusive(d)
               \/ RunWithAdmission(d) \/ EndAdmissionRun(d) \/ ReleaseAdmission(d)
        PROVE  mutating' = mutating
    BY <2>2 DEF Spawn, HandOff, LeaveShared, FinishChild, ReleaseExclusive, RunWithAdmission,
                EndAdmissionRun, ReleaseAdmission
  <2>3. Next
    BY <1>1 DEF vars, contextVars
  <2> QED
    BY <1>1, <2>1, <2>2, <2>3 DEF Next
<1>3. BeginMutation(d) /\ d = c
  BY <1>2 DEF BeginMutation, EndMutation, IInv, TypeOK
<1> QED
  BY <1>3 DEF BeginMutation, HasAuthority, IInv, OwnerInv

\* No hold is leaked or given back twice, the door is shut for one context, and
\* no mutation runs or starts beside an owner except what a handler abandoned
\* (withSharedMutationLease, withWorkspaceExclusive, the video admissions).
THEOREM WorkStaysCovered == Spec => WorkIsCovered
<1>1. IInv /\ HInv =>
        PendingHasOneOwner /\ LeasesAreHeld /\ MutationsAreCovered /\ HoldersNeverOverlapOwner
  BY OneOwnerFollows, LeasesHeldFollows, MutationsFollow
<1>2. Spec =>
        [](PendingHasOneOwner /\ LeasesAreHeld /\ MutationsAreCovered /\ HoldersNeverOverlapOwner)
  BY <1>1, InductiveInvariant, HoldsInvariant, PTL
<1>3. Spec => NoStaleStart
  BY StartsFollow, InductiveInvariant, PTL DEF Spec, NoStaleStart
<1> QED
  BY <1>2, <1>3 DEF WorkIsCovered
=============================================================================
