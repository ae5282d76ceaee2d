--------------------------- MODULE MCKeyLifecycle ---------------------------
(* Small instances of KeyLifecycle.                                        *)
EXTENDS KeyLifecycle, TLC

CONSTANTS u1, u2, k1, k2, k3

NoneClaimed == [u \in Users |-> NoKey]
OneClaimed == [u \in Users |-> IF u = u1 THEN k1 ELSE NoKey]
BothClaimed == [u \in Users |-> IF u = u1 THEN k1 ELSE k2]
=============================================================================
