---------------------------- MODULE AtomicWorkspace ----------------------------
(***************************************************************************)
(* What a workspace promises across restores: rows, media and config are   *)
(* three parts of one workspace.  Assets are added to rows and media       *)
(* together, and a restore replaces all three parts in one step or has no  *)
(* effect.  WorkspaceRestore implements it.                                *)
(***************************************************************************)
EXTENDS Integers

CONSTANTS Assets, MaxRestores

VARIABLES
  version,   \* the workspace the rows belong to: 0 at first, then a restore's token
  trees,     \* the workspace each directory tree belongs to
  rows,      \* assets with a row
  files      \* assets with a media file

vars == <<version, trees, rows, files>>

Init ==
  /\ version = 0
  /\ trees = [media |-> 0, config |-> 0]
  /\ rows = {}
  /\ files = {}

Add(a) ==
  /\ a \notin rows
  /\ rows' = rows \cup {a}
  /\ files' = files \cup {a}
  /\ UNCHANGED <<version, trees>>

Replace(v) ==
  /\ version < v
  /\ version' = v
  /\ trees' = [media |-> v, config |-> v]
  /\ rows' = {}
  /\ files' = {}

Next == (\E a \in Assets : Add(a)) \/ (\E v \in 1 .. MaxRestores : Replace(v))

Spec == Init /\ [][Next]_vars
=============================================================================
