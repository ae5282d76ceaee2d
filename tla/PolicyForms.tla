------------------------------ MODULE PolicyForms ------------------------------
(***************************************************************************)
(* The policy of the resource protection: one row in the database, the     *)
(* copy the controller decides by, and the forms of administrators.  A     *)
(* form carries the revision of the copy; the row takes a form only with   *)
(* its own revision, and the handler then reads the row back and installs  *)
(* what it read.  The content of a policy is named by its revision.        *)
(***************************************************************************)
EXTENDS Naturals, FiniteSets

CONSTANTS
    FormAdmins,      \* administrators with the page open
    MaxRevision,   \* bound: saves
    MaxPolicyFaults \* bound: failing calls and restarts

ASSUME PolicyAssumption == MaxRevision \in Nat \ {0} /\ MaxPolicyFaults \in Nat

VARIABLES
    row,       \* revision of the row
    inForce,   \* revision of Controller.policy
    form,      \* [administrator -> what the form or its handler knows]
    unread,    \* history: a save whose row was not read back
    faults

policyVars == <<row, inForce, form, unread, faults>>

NoForm == [step |-> "none", revision |-> 1]
PolicyTypeOK ==
    /\ row \in 1..MaxRevision /\ inForce \in 1..MaxRevision
    /\ form \in [FormAdmins -> [step : {"none", "open", "saved", "read"}, revision : 1..MaxRevision]]
    /\ unread \in BOOLEAN /\ faults \in 0..MaxPolicyFaults

\* NewServer starts the controller with the row, or the default policy.
PolicyInit ==
    /\ row = 1 /\ inForce = 1 /\ form = [a \in FormAdmins |-> NoForm]
    /\ unread = FALSE /\ faults = 0

FormAt(a, step) == form[a].step = step
FillIn(a, step, revision) == form' = [form EXCEPT ![a] = [step |-> step, revision |-> revision]]
CallWorks == UNCHANGED faults
CallFails == faults < MaxPolicyFaults /\ faults' = faults + 1

\* Mutant: the page shows the row.
OpenFormOfRow(a) ==
    /\ FormAt(a, "none") /\ FillIn(a, "open", row)
    /\ UNCHANGED <<row, inForce, unread>> /\ CallWorks

\* The page shows the snapshot of the controller.
OpenForm(a) ==
    /\ FormAt(a, "none") /\ FillIn(a, "open", inForce)
    /\ UNCHANGED <<row, inForce, unread>> /\ CallWorks

\* Mutant: the revision of the row is not compared.
SaveAnyRevision(a) ==
    /\ FormAt(a, "open") /\ row < MaxRevision
    /\ row' = form[a].revision + 1 /\ FillIn(a, "saved", form[a].revision)
    /\ UNCHANGED <<inForce, unread>> /\ CallWorks

\* SaveResourcePolicy: one transaction.
SavePolicy(a) ==
    /\ FormAt(a, "open") /\ row < MaxRevision
    /\ \/ /\ form[a].revision = row /\ row' = row + 1
          /\ FillIn(a, "saved", row) /\ CallWorks
       \/ form[a].revision # row /\ FillIn(a, "none", 1) /\ UNCHANGED row /\ CallWorks
       \/ FillIn(a, "none", 1) /\ UNCHANGED row /\ CallFails
    /\ UNCHANGED <<inForce, unread>>

\* The row is read back; when that fails the copy stays as it was.
ReadBack(a) ==
    /\ FormAt(a, "saved")
    /\ \/ FillIn(a, "read", row) /\ UNCHANGED unread /\ CallWorks
       \/ FillIn(a, "none", 1) /\ unread' = TRUE /\ CallFails
    /\ UNCHANGED <<row, inForce>>

Install(a) ==
    /\ FormAt(a, "read") /\ inForce' = form[a].revision /\ FillIn(a, "none", 1)
    /\ UNCHANGED <<row, unread>> /\ CallWorks

\* The portal restarts: handlers are gone, open pages are not.
RestartPortal ==
    /\ inForce' = row /\ unread' = FALSE /\ CallFails
    /\ form' = [a \in FormAdmins |-> IF FormAt(a, "open") THEN form[a] ELSE NoForm]
    /\ UNCHANGED row

PolicyNext ==
    \/ \E a \in FormAdmins : OpenForm(a) \/ SavePolicy(a) \/ ReadBack(a) \/ Install(a)
    \/ RestartPortal

PolicySpec == PolicyInit /\ [][PolicyNext]_policyVars

-----------------------------------------------------------------------------
\* The policy in force is the stored one unless its save is still under way or
\* was never read back, at most one save is under way, and none of them is
\* overtaken by a later one: what a handler has read back is the row.
PolicyFollowsRow ==
    /\ \A a \in FormAdmins : FormAt(a, "read") => form[a].revision = row
    /\ Cardinality({a \in FormAdmins : form[a].step \in {"saved", "read"}}) <= 1
    /\ inForce # row => unread \/ \E a \in FormAdmins : form[a].step \in {"saved", "read"}
    /\ inForce <= row
=============================================================================
