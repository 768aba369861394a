------------------------- MODULE WorkspaceExclusion -------------------------
(***************************************************************************)
(* What the workspace operation gate promises, without counters, waiter    *)
(* lists or capabilities: a set of live shared leases, at most one owner   *)
(* of the whole workspace, and a door that an announced owner keeps shut.  *)
(* A lease may be granted only while the door is open; ownership begins    *)
(* only once the door is shut and every lease has been given back.         *)
(***************************************************************************)
CONSTANTS Tokens,       \* identities of leases
          Operations,   \* kinds of exclusive operation
          NoOp          \* "nobody owns the workspace"

VARIABLES leases,       \* live shared leases
          owner,        \* the exclusive operation that owns the workspace
          doorShut      \* TRUE from the announcement of an owner to its release

exclusionVars == <<leases, owner, doorShut>>

ExclusionInit ==
  /\ leases = {}
  /\ owner = NoOp
  /\ doorShut = FALSE

Grant(t) ==
  /\ ~ doorShut
  /\ owner = NoOp
  /\ t \notin leases
  /\ leases' = leases \cup {t}
  /\ UNCHANGED <<owner, doorShut>>

GiveBack(t) ==
  /\ t \in leases
  /\ leases' = leases \ {t}
  /\ UNCHANGED <<owner, doorShut>>

Announce ==
  /\ ~ doorShut
  /\ leases # {}
  /\ doorShut' = TRUE
  /\ UNCHANGED <<leases, owner>>

\* Ownership of a quiet workspace may be announced and taken in one step.
Own(op) ==
  /\ owner = NoOp
  /\ leases = {}
  /\ owner' = op
  /\ doorShut' = TRUE
  /\ UNCHANGED leases

Disown ==
  /\ owner # NoOp
  /\ owner' = NoOp
  /\ doorShut' = FALSE
  /\ UNCHANGED leases

ExclusionNext ==
  \/ \E t \in Tokens : Grant(t) \/ GiveBack(t)
  \/ Announce
  \/ \E op \in Operations : Own(op)
  \/ Disown

ExclusionSpec == ExclusionInit /\ [][ExclusionNext]_exclusionVars

\* The promise itself: an owner never coexists with a shared lease.
Exclusion == owner # NoOp => leases = {}
=============================================================================
