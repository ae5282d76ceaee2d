--------------------------- MODULE MCPortalServices ---------------------------
(* A small instance of the components that share no state.                 *)
EXTENDS PortalServices

\* Constants that a configuration file cannot write.
AdminWork ==
    {{"suspend", "pending", "resume"}, {"delete", "pending", "resume"},
     {"suspend", "pending", "demote"}, {"suspend", "delete", "demote"},
     {"reset", "delete"}, {"login", "delete"}, {"login", "reset"}, {"login", "password"},
     {"login", "promote", "demote"}, {"register", "suspend"}, {"register", "login"}}
TwoChannels == <<"c", "d">>
ThreeModels == [c |-> {"m1", "m2"}, d |-> {"n1"}]
AliasForms == [m1 |-> {[name |-> "m2", fork |-> FALSE], [name |-> "n1", fork |-> TRUE]},
               m2 |-> {}, n1 |-> {}]
=============================================================================
