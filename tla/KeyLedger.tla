------------------------------ MODULE KeyLedger ------------------------------
(***************************************************************************)
(* What the portal promises about keys, as a ledger: a user who is not     *)
(* closed is granted one key at a time; a key is entered as retired only   *)
(* when CPA refuses it, and no granted key is ever accepted again once it  *)
(* was refused; an account is closed only when its user has no active key. *)
(***************************************************************************)
CONSTANTS
    Users,     \* accounts
    Keys,      \* secrets the portal may mint
    Manual,    \* keys the operator may put in CPA by hand
    NoUser     \* holder of a key nobody was shown

VARIABLES
    holder,    \* whom a key was shown to
    state,     \* "unused", "active" or "retired"
    accepted,  \* the keys CPA accepts
    closed,    \* users who are suspended or deleted
    manual     \* the operator's keys the portal has to leave in CPA

ledger == <<holder, state, accepted, closed, manual>>

Granted == {k \in Keys : state[k] # "unused"}
ActiveOf(u) == {k \in Keys : state[k] = "active" /\ holder[k] = u}

LedgerInit ==
    /\ holder \in [Keys -> Users \cup {NoUser}]
    /\ state = [k \in Keys |-> IF holder[k] = NoUser THEN "unused" ELSE "active"]
    /\ \A k, l \in Granted : holder[k] = holder[l] => k = l
    /\ accepted = Granted \cup Manual
    /\ closed = {}
    /\ manual = Manual

\* A user is shown a key that nobody was shown before.
Grant(u, k) ==
    /\ u \notin closed
    /\ ActiveOf(u) = {}
    /\ state[k] = "unused"
    /\ holder' = [holder EXCEPT ![k] = u]
    /\ state' = [state EXCEPT ![k] = "active"]
    /\ UNCHANGED <<accepted, closed, manual>>

\* The key is entered as dead, for good.
Retire(k) ==
    /\ state[k] = "active"
    /\ k \notin accepted
    /\ state' = [state EXCEPT ![k] = "retired"]
    /\ UNCHANGED <<holder, accepted, closed, manual>>

\* CPA's list is replaced.  Keys nobody was shown come and go with claims; of
\* the granted keys one may leave and none comes back.
Relist ==
    /\ accepted' \subseteq Keys \cup Manual
    /\ manual \subseteq accepted'
    /\ \/ accepted' \cap Granted = accepted \cap Granted
       \/ \E k \in Granted : accepted' \cap Granted = (accepted \cap Granted) \ {k}
    /\ UNCHANGED <<holder, state, closed, manual>>

\* The operator puts a key of his own in CPA, which the portal has to leave
\* there from now on or not, or takes one out.
OperatorEdits(m) ==
    /\ \/ accepted' = accepted \cup {m} /\ manual' \in {manual, manual \cup {m}}
       \/ accepted' = accepted \ {m} /\ manual' = manual \ {m}
    /\ UNCHANGED <<holder, state, closed>>

\* A suspension or a deletion is complete.
Close(u) ==
    /\ ActiveOf(u) = {}
    /\ closed' = closed \cup {u}
    /\ UNCHANGED <<holder, state, accepted, manual>>

\* The suspension is lifted, or another removal of the user is pending.
Reopen(u) ==
    /\ closed' = closed \ {u}
    /\ UNCHANGED <<holder, state, accepted, manual>>

LedgerNext ==
    \/ \E u \in Users, k \in Keys : Grant(u, k)
    \/ \E k \in Keys : Retire(k)
    \/ Relist
    \/ \E m \in Manual : OperatorEdits(m)
    \/ \E u \in Users : Close(u) \/ Reopen(u)

LedgerSpec == LedgerInit /\ [][LedgerNext]_ledger

\* What follows from the entries alone (proved in KeyLifecycleProofs): a retired
\* key is refused, a user holds one active key at most and none once closed, and
\* the operator's keys that have to stay are accepted.
LedgerPromises ==
    /\ \A k \in Keys : state[k] = "retired" => k \notin accepted
    /\ \A k, l \in Keys : state[k] = "active" /\ state[l] = "active" /\ holder[k] = holder[l] => k = l
    /\ \A u \in closed : ActiveOf(u) = {}
    /\ manual \subseteq accepted
=============================================================================
