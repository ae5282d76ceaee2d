---------------------------- MODULE AtomicRestore ----------------------------
(***************************************************************************)
(* What an online restore promises, whatever fails and whenever the runner *)
(* dies: the portal is down, or serves the data it had, or serves the data *)
(* of the backup, never a mixture; and once the outcome is decided the     *)
(* portal serves what was decided.                                         *)
(***************************************************************************)
VARIABLES
    serves,    \* what the portal serves
    decided    \* which data it will serve for good

promise == <<serves, decided>>

PromiseInit == serves = "old" /\ decided = "open"

GoDown == serves' = "down" /\ UNCHANGED decided

\* Before the decision the new data may be tried and taken back.
Serve(data) ==
    /\ serves = "down"
    /\ decided \in {data, "open"}
    /\ serves' = data
    /\ UNCHANGED decided

\* For the new data only while the portal serves them.
Decide(data) ==
    /\ decided = "open"
    /\ data = "new" => serves = "new"
    /\ decided' = data
    /\ UNCHANGED serves

PromiseNext == GoDown \/ \E data \in {"old", "new"} : Serve(data) \/ Decide(data)

PromiseSpec == PromiseInit /\ [][PromiseNext]_promise
=============================================================================
