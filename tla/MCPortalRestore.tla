--------------------------- MODULE MCPortalRestore ---------------------------
(* Two paths for a database restore, four for a rebuild.                   *)
EXTENDS PortalRestore

TargetsOf ==
    [m \in {"database", "rebuild"} |->
        IF m = "database"
        THEN <<[kind |-> "database", exists |-> TRUE], [kind |-> "file", exists |-> FALSE]>>
        ELSE <<[kind |-> "database", exists |-> TRUE], [kind |-> "directory", exists |-> TRUE],
               [kind |-> "file", exists |-> FALSE], [kind |-> "database", exists |-> FALSE]>>]
=============================================================================
