-------------------------- MODULE MCModelDownloads --------------------------
(***************************************************************************)
(* Two downloads of one file and two deletions of its model.               *)
(***************************************************************************)
EXTENDS ModelDownloads

CONSTANTS j1, j2, d1, d2, x1, x2

Destination == [j \in Jobs |-> d1]
Case(one, two, deletions, faults, restarts) ==
  [starts |-> [j \in Jobs |-> IF j = j1 THEN one ELSE two],
   deletions |-> deletions, faults |-> faults, restarts |-> restarts]

\* Two downloads and a deletion; two downloads with a fault and a restart; a
\* download and two deletions with a fault; two deletions and a restart.
Cases == {Case(1, 1, {x1}, 0, 0), Case(1, 1, {}, 1, 1),
          Case(1, 0, {x1, x2}, 1, 0), Case(0, 0, {x1, x2}, 1, 1)}

Files == [x \in Deletions |-> {d1}]

\* A model of two files, each with a download, and a fault anywhere.
WideDestination == [j \in Jobs |-> IF j = j1 THEN d1 ELSE d2]
WideFiles == [x \in Deletions |-> {d1, d2}]
WideCases == {Case(1, 1, {x1}, 1, 0)}
=============================================================================
