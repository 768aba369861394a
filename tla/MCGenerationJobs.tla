---------------------------- MODULE MCGenerationJobs ----------------------------
EXTENDS GenerationJobs

CONSTANTS a, b, f, g

Ask(kind, keyed, print) == [kind |-> kind, keyed |-> keyed, print |-> print]
Pair(one, other) == [w \in Runs |-> IF w = a THEN one ELSE other]

\* A request and its retry, two requests that share a key by mistake, and runs
\* of different kinds beside each other.
MCMixes ==
  {Pair(Ask("image", TRUE, f), Ask("image", TRUE, f)),
   Pair(Ask("image", TRUE, f), Ask("image", TRUE, g)),
   Pair(Ask("image", TRUE, f), Ask("video", TRUE, f)),
   Pair(Ask("video", TRUE, f), Ask("video", TRUE, f)),
   Pair(Ask("tool", FALSE, f), Ask("edit", FALSE, f)),
   Pair(Ask("video", FALSE, f), Ask("tool", FALSE, f))}
=============================================================================
