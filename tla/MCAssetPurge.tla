---------------------------- MODULE MCAssetPurge ----------------------------
EXTENDS AssetPurge
CONSTANTS s1, c1, a1, a2, u1, ps, p1, p2, pu, x1, x2
\* s1 is a bundled sample and c1 its clone, a1 and a2 are in the workspace from
\* the beginning, u1 may be uploaded.
MCPathOf == [a \in Assets |-> IF a \in {s1, c1} THEN ps ELSE IF a = a1 THEN p1
                              ELSE IF a = a2 THEN p2 ELSE pu]
MCPaths == {MCPathOf[a] : a \in Assets}
=============================================================================
