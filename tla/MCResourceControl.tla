------------------------- MODULE MCResourceControl -------------------------
(* Small instances of ResourceControl.                                     *)
EXTENDS ResourceControl, TLC

CONSTANTS r1, r2, r3, u1, u2

Owners == [r \in Requests |-> IF r = r3 THEN u2 ELSE u1]

Enforce(n, m, l) == [enforce |-> TRUE, global |-> n, perUser |-> m, limited |-> l]
Observe(n, m, l) == [enforce |-> FALSE, global |-> n, perUser |-> m, limited |-> l]

OneLimit == {Enforce(2, 1, FALSE)}
TwoModes == {Enforce(1, 1, TRUE), Observe(1, 1, TRUE)}
=============================================================================
