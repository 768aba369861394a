---------------------------- MODULE WorkspaceGate ----------------------------
(***************************************************************************)
(* The process-wide workspace admission gate of the private server         *)
(* (lib/server/workspace-operation-gate.ts).                               *)
(*                                                                         *)
(* A context is one asynchronous execution context of the Node process: a  *)
(* request handler, a piece of work it started with Promise.all, or a      *)
(* detached video job.  Contexts interleave at every await, so each action *)
(* is one synchronous run of the gate's code between two awaits.  A token  *)
(* is the object identity the gate keeps in its weak sets (the token of a  *)
(* shared lease or video admission, or an exclusive capability); an        *)
(* identity is used again only when nothing refers to it any more.         *)
(***************************************************************************)
EXTENDS Integers, FiniteSets

CONSTANTS Contexts, Tokens, Operations,
          NoOp,            \* GateState.exclusive = null
          NoToken,         \* no authority in the async-local store
          Abandonable      \* leases whose handler may settle before the work it
                           \* started (a Promise.all that rejects early)

ASSUME TokensFinite == IsFiniteSet(Tokens)
ASSUME NullsAreNotValues == NoOp \notin Operations /\ NoToken \notin Tokens
ASSUME AbandonableAreTokens == Abandonable \subseteq Tokens

VARIABLES
  \* GateState and the weak sets of GateRuntime
  exclusive, exclusivePending, sharedCount, activeVideoCount,
  validShared, validCapabilities, admissions, drainWaiters,
  \* the asynchronous contexts that run through the gate
  work,       \* "idle", "running", "draining" (awaiting the drain) or "woken"
  wanted,     \* the exclusive operation the context asked for or owns
  store,      \* authorityStorage.getStore(): the token this context sees
  outer,      \* the store to return to when the context's own lease ends
  lease,      \* the token whose release closure the context must still call
  handle,     \* the DetachedVideoAdmission the context holds
  mutating    \* a query or file mutation of the context is in flight

gateVars == <<exclusive, exclusivePending, sharedCount, activeVideoCount,
              validShared, validCapabilities, admissions, drainWaiters>>
contextVars == <<work, wanted, store, outer, lease, handle, mutating>>
vars == <<gateVars, contextVars>>

MaybeToken == Tokens \cup {NoToken}

TypeOK ==
  /\ exclusive \in Operations \cup {NoOp}
  /\ exclusivePending \in BOOLEAN
  /\ sharedCount \in Nat
  /\ activeVideoCount \in Nat
  /\ validShared \subseteq Tokens
  /\ validCapabilities \subseteq Tokens
  /\ admissions \subseteq Tokens
  /\ drainWaiters \subseteq Contexts
  /\ work \in [Contexts -> {"idle", "running", "draining", "woken"}]
  /\ wanted \in [Contexts -> Operations \cup {NoOp}]
  /\ store \in [Contexts -> MaybeToken]
  /\ outer \in [Contexts -> MaybeToken]
  /\ lease \in [Contexts -> MaybeToken]
  /\ handle \in [Contexts -> MaybeToken]
  /\ mutating \in [Contexts -> BOOLEAN]

Init ==
  /\ exclusive = NoOp
  /\ exclusivePending = FALSE
  /\ sharedCount = 0
  /\ activeVideoCount = 0
  /\ validShared = {}
  /\ validCapabilities = {}
  /\ admissions = {}
  /\ drainWaiters = {}
  /\ work = [c \in Contexts |-> "idle"]
  /\ wanted = [c \in Contexts |-> NoOp]
  /\ store = [c \in Contexts |-> NoToken]
  /\ outer = [c \in Contexts |-> NoToken]
  /\ lease = [c \in Contexts |-> NoToken]
  /\ handle = [c \in Contexts |-> NoToken]
  /\ mutating = [c \in Contexts |-> FALSE]

-----------------------------------------------------------------------------
(* Helpers of the gate.                                                    *)

\* Faulty variant: any token in the store counts, expired or not.
HasAnyToken(c) == store[c] # NoToken

\* hasWorkspaceMutationAuthority: the token in the async-local store is live.
HasAuthority(c) == store[c] \in validShared \cup validCapabilities

\* A new object is equal to no object anything still refers to.
Fresh(t) ==
  /\ t \notin validShared \cup validCapabilities \cup admissions
  /\ \A c \in Contexts : t \notin {store[c], outer[c], lease[c], handle[c]}

\* acquireSharedSlot's admission test.
SlotOpen == exclusive = NoOp /\ ~ exclusivePending

\* One slot is given back: the counter never goes below zero, and the last
\* slot wakes every context that awaits the drain (notifyDrainWaiters).
FreeSlot(sharedAfter) ==
  LET drained == sharedAfter = 0
  IN  /\ sharedCount' = sharedAfter
      /\ drainWaiters' = IF drained THEN {} ELSE drainWaiters

\* Faulty variant: the release forgets notifyDrainWaiters.
WokenNever(sharedAfter, w) == w

Woken(sharedAfter, w) ==
  IF sharedAfter = 0
  THEN [d \in Contexts |-> IF d \in drainWaiters THEN "woken" ELSE w[d]]
  ELSE w

\* Faulty variant: the slot is given back twice, and nothing stops at zero.
DecrementTwice(n) == n - 2

\* Faulty variant: a release that does not give its slot back.
DecrementForgotten(n) == n

Decrement(n) == IF n = 0 THEN 0 ELSE n - 1

\* Work started inside lease t by a context other than the lease's holder.
ChildrenOf(t) == {d \in Contexts : /\ work[d] # "idle"
                                   /\ lease[d] # t
                                   /\ t \in {store[d], outer[d]}}

\* Faulty variant: a lease ends while the work it covers still runs.
SettledAlways(t) == TRUE

\* The awaited work of lease t has settled.
Settled(t) == t \notin Abandonable => ChildrenOf(t) = {}

-----------------------------------------------------------------------------
(* Shared leases: withSharedMutationLease and its read and sync variants.  *)

\* A request, or a child whose inherited authority has expired, is admitted.
EnterShared(c, t) ==
  /\ work[c] = "idle" \/ (work[c] = "running" /\ lease[c] = NoToken /\ store[c] # NoToken)
  /\ ~ mutating[c] /\ handle[c] = NoToken
  /\ ~ HasAuthority(c)
  /\ SlotOpen
  /\ Fresh(t)
  /\ sharedCount' = sharedCount + 1
  /\ validShared' = validShared \cup {t}
  /\ work' = [work EXCEPT ![c] = "running"]
  /\ outer' = [outer EXCEPT ![c] = store[c]]
  /\ store' = [store EXCEPT ![c] = t]
  /\ lease' = [lease EXCEPT ![c] = t]
  /\ UNCHANGED <<exclusive, exclusivePending, activeVideoCount, validCapabilities,
                 admissions, drainWaiters, wanted, handle, mutating>>

\* The finally block: the authority expires and the slot is given back.
LeaveShared(c) ==
  LET t == lease[c]
      after == Decrement(sharedCount)
  IN  /\ work[c] = "running" /\ ~ mutating[c]
      /\ t \in validShared /\ store[c] = t
      /\ Settled(t)
      /\ validShared' = validShared \ {t}
      /\ FreeSlot(after)
      /\ work' = Woken(after, [work EXCEPT ![c] = IF outer[c] = NoToken THEN "idle" ELSE "running"])
      /\ store' = [store EXCEPT ![c] = outer[c]]
      /\ outer' = [outer EXCEPT ![c] = NoToken]
      /\ lease' = [lease EXCEPT ![c] = NoToken]
      /\ UNCHANGED <<exclusive, exclusivePending, activeVideoCount, validCapabilities,
                     admissions, wanted, handle, mutating>>

-----------------------------------------------------------------------------
(* Work that runs under an authority.                                      *)

\* Started work inherits the async-local store of the context that starts it
\* (a context is one sequential flow: parallel queries are spawned contexts).
Spawn(c, d) ==
  /\ work[c] = "running" /\ ~ mutating[c] /\ store[c] # NoToken
  /\ work[d] = "idle" /\ handle[d] = NoToken
  /\ work' = [work EXCEPT ![d] = "running"]
  /\ store' = [store EXCEPT ![d] = store[c]]
  /\ UNCHANGED <<gateVars, wanted, outer, lease, handle, mutating>>

\* A spawned piece of work settles.
FinishChild(d) ==
  /\ work[d] = "running" /\ ~ mutating[d]
  /\ lease[d] = NoToken /\ handle[d] = NoToken
  /\ work' = [work EXCEPT ![d] = "idle"]
  /\ store' = [store EXCEPT ![d] = NoToken]
  /\ UNCHANGED <<gateVars, wanted, outer, lease, handle, mutating>>

\* A Prisma query or a file mutation starts: it runs directly only when the
\* store holds a live authority; otherwise it goes through EnterShared.
BeginMutation(c) ==
  /\ work[c] = "running" /\ ~ mutating[c]
  /\ HasAuthority(c)
  /\ mutating' = [mutating EXCEPT ![c] = TRUE]
  /\ UNCHANGED <<gateVars, work, wanted, store, outer, lease, handle>>

EndMutation(c) ==
  /\ mutating[c]
  /\ mutating' = [mutating EXCEPT ![c] = FALSE]
  /\ UNCHANGED <<gateVars, work, wanted, store, outer, lease, handle>>

-----------------------------------------------------------------------------
(* Exclusive ownership: acquireWorkspaceExclusive, withWorkspaceExclusive. *)

\* The loop exit of acquireWorkspaceExclusive and the entry into the work.
Take(c, op, t) ==
  /\ Fresh(t)
  /\ exclusive' = op
  /\ validCapabilities' = validCapabilities \cup {t}
  /\ work' = [work EXCEPT ![c] = "running"]
  /\ store' = [store EXCEPT ![c] = t]
  /\ lease' = [lease EXCEPT ![c] = t]

\* Faulty variant: ownership does not wait for the holders.
AcquireUndrained(c, op, t) ==
  /\ work[c] = "idle" /\ handle[c] = NoToken
  /\ SlotOpen
  /\ exclusivePending' = TRUE
  /\ wanted' = [wanted EXCEPT ![c] = op]
  /\ Take(c, op, t)
  /\ UNCHANGED <<sharedCount, activeVideoCount, validShared, admissions,
                 drainWaiters, outer, handle, mutating>>

\* No holder to wait for: pending, owned and entered in one synchronous run.
AcquireAtOnce(c, op, t) ==
  /\ work[c] = "idle" /\ handle[c] = NoToken
  /\ SlotOpen
  /\ sharedCount = 0
  /\ exclusivePending' = TRUE
  /\ wanted' = [wanted EXCEPT ![c] = op]
  /\ Take(c, op, t)
  /\ UNCHANGED <<sharedCount, activeVideoCount, validShared, admissions,
                 drainWaiters, outer, handle, mutating>>

\* Holders remain: close the door and await their drain.
AcquireAndWait(c, op) ==
  /\ work[c] = "idle" /\ handle[c] = NoToken
  /\ SlotOpen
  /\ sharedCount > 0
  /\ exclusivePending' = TRUE
  /\ wanted' = [wanted EXCEPT ![c] = op]
  /\ drainWaiters' = drainWaiters \cup {c}
  /\ work' = [work EXCEPT ![c] = "draining"]
  /\ UNCHANGED <<exclusive, sharedCount, activeVideoCount, validShared,
                 validCapabilities, admissions, store, outer, lease, handle, mutating>>

\* The awaited promise resolved: another owner means failure, new holders mean
\* another wait, and otherwise the workspace is owned.
Resume(c, t) ==
  /\ work[c] = "woken"
  /\ IF exclusive # NoOp THEN
       /\ exclusivePending' = FALSE
       /\ work' = [work EXCEPT ![c] = "idle"]
       /\ wanted' = [wanted EXCEPT ![c] = NoOp]
       /\ UNCHANGED <<exclusive, validCapabilities, drainWaiters, store, lease>>
     ELSE IF sharedCount > 0 THEN
       /\ drainWaiters' = drainWaiters \cup {c}
       /\ work' = [work EXCEPT ![c] = "draining"]
       /\ UNCHANGED <<exclusive, exclusivePending, validCapabilities, wanted, store, lease>>
     ELSE
       /\ Take(c, wanted[c], t)
       /\ UNCHANGED <<exclusivePending, drainWaiters, wanted>>
  /\ UNCHANGED <<sharedCount, activeVideoCount, validShared, admissions,
                 outer, handle, mutating>>

\* Faulty variant: the pending flag survives the release.
ReleaseKeepingPending(c) ==
  LET t == lease[c]
  IN  /\ work[c] = "running" /\ ~ mutating[c]
      /\ t \in validCapabilities
      /\ Settled(t)
      /\ validCapabilities' = validCapabilities \ {t}
      /\ exclusive' = IF exclusive = wanted[c] THEN NoOp ELSE exclusive
      /\ work' = [work EXCEPT ![c] = "idle"]
      /\ wanted' = [wanted EXCEPT ![c] = NoOp]
      /\ store' = [store EXCEPT ![c] = NoToken]
      /\ lease' = [lease EXCEPT ![c] = NoToken]
      /\ UNCHANGED <<exclusivePending, sharedCount, activeVideoCount, validShared,
                     admissions, drainWaiters, outer, handle, mutating>>

\* The finally block of withWorkspaceExclusive.
ReleaseExclusive(c) ==
  LET t == lease[c]
  IN  /\ work[c] = "running" /\ ~ mutating[c]
      /\ t \in validCapabilities
      /\ Settled(t)
      /\ validCapabilities' = validCapabilities \ {t}
      /\ exclusive' = IF exclusive = wanted[c] THEN NoOp ELSE exclusive
      /\ exclusivePending' = FALSE
      /\ work' = [work EXCEPT ![c] = "idle"]
      /\ wanted' = [wanted EXCEPT ![c] = NoOp]
      /\ store' = [store EXCEPT ![c] = NoToken]
      /\ lease' = [lease EXCEPT ![c] = NoToken]
      /\ UNCHANGED <<sharedCount, activeVideoCount, validShared, admissions,
                     drainWaiters, outer, handle, mutating>>

-----------------------------------------------------------------------------
(* Detached video work: a shared lease that outlives the request.          *)

BeginDetachedVideoWork(c, t) ==
  /\ work[c] = "idle" /\ handle[c] = NoToken
  /\ SlotOpen
  /\ Fresh(t)
  /\ sharedCount' = sharedCount + 1
  /\ activeVideoCount' = activeVideoCount + 1
  /\ validShared' = validShared \cup {t}
  /\ admissions' = admissions \cup {t}
  /\ work' = [work EXCEPT ![c] = "running"]
  /\ handle' = [handle EXCEPT ![c] = t]
  /\ UNCHANGED <<exclusive, exclusivePending, validCapabilities, drainWaiters,
                 wanted, store, outer, lease, mutating>>

\* runWithDetachedVideoAdmission: the admission must still be valid.
RunWithAdmission(c) ==
  /\ work[c] = "running" /\ handle[c] # NoToken /\ store[c] = NoToken
  /\ handle[c] \in admissions \cap validShared
  /\ store' = [store EXCEPT ![c] = handle[c]]
  /\ UNCHANGED <<gateVars, work, wanted, outer, lease, handle, mutating>>

EndAdmissionRun(c) ==
  /\ work[c] = "running" /\ ~ mutating[c]
  /\ handle[c] # NoToken /\ store[c] = handle[c]
  /\ store' = [store EXCEPT ![c] = NoToken]
  /\ UNCHANGED <<gateVars, work, wanted, outer, lease, handle, mutating>>

\* Faulty variant: the handle is copied to the job, so both sides release it.
HandOffKeepingHandle(c, d) ==
  /\ work[c] = "running" /\ handle[c] # NoToken /\ store[c] = NoToken
  /\ work[d] = "idle" /\ handle[d] = NoToken
  /\ work' = [work EXCEPT ![d] = "running"]
  /\ handle' = [handle EXCEPT ![d] = handle[c]]
  /\ UNCHANGED <<gateVars, wanted, store, outer, lease, mutating>>

\* The route answers and hands its admission to the detached job.
HandOff(c, d) ==
  /\ work[c] = "running" /\ handle[c] # NoToken /\ store[c] = NoToken
  /\ work[d] = "idle" /\ handle[d] = NoToken
  /\ work' = [work EXCEPT ![c] = "idle", ![d] = "running"]
  /\ handle' = [handle EXCEPT ![c] = NoToken, ![d] = handle[c]]
  /\ UNCHANGED <<gateVars, wanted, store, outer, lease, mutating>>

\* admission.release(): everything the admission granted expires together.
ReleaseAdmission(c) ==
  LET t == handle[c]
      after == Decrement(sharedCount)
  IN  /\ work[c] = "running" /\ t \in admissions /\ store[c] = NoToken
      /\ Settled(t)
      /\ admissions' = admissions \ {t}
      /\ validShared' = validShared \ {t}
      /\ activeVideoCount' = Decrement(activeVideoCount)
      /\ FreeSlot(after)
      /\ work' = Woken(after, [work EXCEPT ![c] = "idle"])
      /\ handle' = [handle EXCEPT ![c] = NoToken]
      /\ UNCHANGED <<exclusive, exclusivePending, validCapabilities,
                     wanted, store, outer, lease, mutating>>

-----------------------------------------------------------------------------
Next ==
  \E c \in Contexts :
    \/ \E t \in Tokens : EnterShared(c, t)
    \/ LeaveShared(c)
    \/ \E d \in Contexts : Spawn(c, d)
    \/ FinishChild(c)
    \/ BeginMutation(c)
    \/ EndMutation(c)
    \/ \E op \in Operations, t \in Tokens : AcquireAtOnce(c, op, t)
    \/ \E op \in Operations : AcquireAndWait(c, op)
    \/ \E t \in Tokens : Resume(c, t)
    \/ ReleaseExclusive(c)
    \/ \E t \in Tokens : BeginDetachedVideoWork(c, t)
    \/ RunWithAdmission(c)
    \/ EndAdmissionRun(c)
    \/ \E d \in Contexts : HandOff(c, d)
    \/ ReleaseAdmission(c)

Spec == Init /\ [][Next]_vars

\* The end of the work a context is running under an authority.
Settle(c) == FinishChild(c) \/ LeaveShared(c) \/ EndAdmissionRun(c) \/ ReleaseExclusive(c)

\* Queries complete and the event loop resumes resolved promises; a handler
\* performs finitely many steps, so a context that can settle again and again
\* eventually does.
Fairness ==
  \A c \in Contexts :
    /\ WF_vars(EndMutation(c) \/ \E t \in Tokens : Resume(c, t))
    /\ SF_vars(Settle(c))
    /\ SF_vars(ReleaseAdmission(c))

\* A handler starts finitely much work: behind a door that stays shut nobody
\* can keep adding work to leases that were granted before.
FiniteWork ==
  \/ []<>(~ exclusivePending)
  \/ <>[][\A c, d \in Contexts : ~ Spawn(c, d)]_vars

FairSpec == Spec /\ Fairness /\ FiniteWork

-----------------------------------------------------------------------------
(* Safety.                                                                 *)

\* While an exclusive operation owns the workspace no shared lease, read lease
\* or video admission is alive, and exactly one capability is
\* (acquireWorkspaceExclusive against every releaser of a slot).
OwnerIsAlone ==
  exclusive # NoOp => /\ validShared = {} /\ admissions = {}
                      /\ Cardinality(validCapabilities) = 1

\* The counters the gate decides by are exactly the live leases and live video
\* admissions, across every order of entering, handing off and releasing.
CountsAreHolders ==
  /\ sharedCount = Cardinality(validShared)
  /\ activeVideoCount = Cardinality(admissions)
  /\ admissions \subseteq validShared

\* The door is shut only on behalf of a context that will open it: one that
\* awaits the drain, was woken by it, or owns the workspace.  Nobody sleeps on
\* a drain that has already happened.
PendingHasOneOwner ==
  LET claimants == {c \in Contexts : \/ work[c] \in {"draining", "woken"}
                                     \/ lease[c] \in validCapabilities}
  IN  /\ Cardinality(claimants) = IF exclusivePending THEN 1 ELSE 0
      /\ drainWaiters = {c \in Contexts : work[c] = "draining"}
      /\ drainWaiters # {} => sharedCount > 0

\* Every live lease has one context that will release it, so the drain an
\* exclusive operation waits for cannot be leaked or released twice.
LeasesAreHeld ==
  \A t \in validShared :
    Cardinality({c \in Contexts : t \in {lease[c], handle[c]}}) = 1

\* When lease-covered work awaits everything it starts, a mutation in flight is
\* covered by a live authority: under an exclusive owner only the owner's own
\* work touches the database or the profile files.
MutationsAreCovered ==
  \A c \in Contexts :
    mutating[c] /\ store[c] \notin Abandonable =>
      IF exclusive = NoOp THEN store[c] \in validShared
                          ELSE store[c] \in validCapabilities

\* Even when a handler abandons work it started (a Promise.all that rejects
\* early), the only mutations an owner can overlap are those of abandoned work:
\* a context that holds a lease or an admission never overlaps an owner.
HoldersNeverOverlapOwner ==
  exclusive # NoOp =>
    \A c \in Contexts :
      mutating[c] /\ lease[c] # NoToken => lease[c] \in validCapabilities

\* Work that survived its lease cannot start another mutation on the strength
\* of the expired authority: what starts under an owner belongs to the owner.
NoStaleStart ==
  [][\A c \in Contexts :
       ~ mutating[c] /\ mutating'[c] /\ exclusive # NoOp
         => store[c] \in validCapabilities]_vars

\* Every hold on the workspace has one context that will give it back, and no
\* work goes on without one: neither under a lease that is leaked or released
\* twice, nor under an authority that has expired, nor beside an owner.
WorkIsCovered ==
  /\ [](PendingHasOneOwner /\ LeasesAreHeld /\ MutationsAreCovered /\ HoldersNeverOverlapOwner)
  /\ NoStaleStart

\* The gate implements the abstract lock it promises.
Abstract == INSTANCE WorkspaceExclusion
              WITH leases <- validShared, owner <- exclusive, doorShut <- exclusivePending
ImplementsExclusion == Abstract!ExclusionSpec

-----------------------------------------------------------------------------
(* Liveness.                                                               *)

\* A backup, restore or delete that was accepted while holders were at work
\* gets the workspace: new entrants are turned away, so it cannot starve.
AcceptedOwnerIsServed ==
  \A c \in Contexts : work[c] = "draining" ~> lease[c] \in validCapabilities

\* The door never stays shut: every announcement ends with the door open again.
WorkspaceReopens == exclusivePending ~> ~ exclusivePending

\* Exclusive work goes on: who waits for the drain is served, and every shut
\* door opens (waitForSharedDrain, the release of acquireWorkspaceExclusive).
ExclusiveWorkGoesOn == AcceptedOwnerIsServed /\ WorkspaceReopens
=============================================================================
