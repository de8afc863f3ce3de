--------------------------- MODULE MCFairnessQueue ---------------------------
EXTENDS FairnessQueue
CONSTANTS alice, bob
\* The hashes put alice first in the first window and last in the others.
MCRank == [w \in Windows |-> [u \in Users |-> IF (u = alice) = (w = 1) THEN 1 ELSE 2]]
=============================================================================
