---------------------------- MODULE KeyLifecycle ----------------------------
(***************************************************************************)
(* The life of the API keys the portal hands out: claim, revoke, test,     *)
(* suspend, delete, reconciliation and the queue of pending revocations.   *)
(*                                                                         *)
(* Three stores are involved and none of them locks another:               *)
(*   - the portal database (SQLite, one connection: a statement is atomic):*)
(*     users.status, api_keys, sync_jobs;                                  *)
(*   - CPA's key list, which the portal can only read whole and replace    *)
(*     whole (cpamp.AddAPIKey and cpamp.RemoveAPIKey: read, merge, put,    *)
(*     read again);                                                        *)
(*   - CPAMP's alias table (read whole and replace whole, or delete one).  *)
(* Every HTTP handler is a goroutine (a member of Slots) and one more      *)
(* goroutine, Background, runs the tickers.  One action is one access to   *)
(* one store, so everything between two accesses may interleave.           *)
(***************************************************************************)
EXTENDS FiniteSets, Naturals

CONSTANTS
    Users,        \* accounts
    Keys,         \* secrets the portal may mint; a hash identifies its secret
    Manual,       \* keys the operator may put in CPA by hand, unknown to the portal
    NoUser,       \* owner of a key that has not been minted
    NoKey,        \* no key: the "" hash of a job, a handler without a key
    Slots,        \* concurrent request handlers
    Background,   \* the goroutine of main.background
    Operations,   \* which operations are used, a subset of AllOperations
    FirstKey,     \* the key each user starts with, or NoKey
    MaxFaults     \* bound: remote calls that fail and handlers that are cut off

AllOperations == {"claim", "revoke", "test", "suspend", "delete", "unsuspend",
                  "reconcile", "jobs", "external", "operator", "cutoff"}

ASSUME ConstantsAssumption ==
    /\ NoUser \notin Users
    /\ NoKey \notin Keys
    /\ Manual \cap Keys = {}
    /\ Background \notin Slots
    /\ Operations \subseteq AllOperations
    /\ MaxFaults \in Nat
    /\ FirstKey \in [Users -> Keys \cup {NoKey}]
    /\ \A u, v \in Users : FirstKey[u] = FirstKey[v] /\ FirstKey[u] # NoKey => u = v

Threads == Slots \cup {Background}

VARIABLES
    status,    \* users.status
    owner,     \* whom a key was minted for
    row,       \* api_keys.status of a key, "none" without a row
    jobs,      \* sync_jobs, identified by UNIQUE(user_id, action, key_hash)
    pages,     \* admin pages left open, with the button they offer
    kept,      \* the operator's keys in CPA that a rewrite may not lose
    cpa,       \* CPA's list of API keys
    alias,     \* keys with a CPAMP alias row; the alias is that of the owner
    th,        \* what every goroutine is doing
    faults     \* faults so far

db == <<status, row, jobs>>
remote == <<cpa, alias>>
vars == <<status, owner, row, jobs, pages, kept, cpa, alias, th, faults>>

Statuses == {"approved", "suspended_pending", "suspended", "delete_pending", "deleted"}
RowStatuses == {"none", "active", "revoked", "external_revoked"}
Jobs == [user : Users, action : {"revoke", "suspend", "delete"}, key : Keys \cup {NoKey}]
NoJob == [user |-> NoUser, action |-> "none", key |-> NoKey]
Labels ==
    {"idle", "issue.active", "add.list", "add.put", "add.confirm",
     "alias.list", "alias.keys", "alias.put", "swap", "undo.alias",
     "revoke.active", "revoke.list", "rm.list", "rm.put", "rm.confirm",
     "revoke.alias", "revoke.status", "missing.status", "missing.alias",
     "queue.active", "queue.status", "queue.job", "settle",
     "jobs.next", "jobs.delete", "reconcile.list", "reconcile.rows", "reconcile.next"}

Thread ==
    [op    : AllOperations \cup {"none"},   \* the operation it runs
     pc    : Labels,                        \* its next access
     user  : Users \cup {NoUser},           \* the user it is about
     key   : Keys \cup {NoKey},             \* the key it is about
     list  : SUBSET (Keys \cup Manual),     \* its last read of the CPA list
     names : SUBSET Keys,                   \* its last read of the aliases
     undo  : BOOLEAN,                       \* rollback after a failed insert
     job   : Jobs \cup {NoJob},              \* ProcessJobs: the job in hand
     due   : SUBSET Jobs,                   \* ProcessJobs: the rest of this tick
     gone  : SUBSET Keys]                   \* Reconcile: rows not in the list

Idle == [op |-> "none", pc |-> "idle", user |-> NoUser, key |-> NoKey, list |-> {},
         names |-> {}, undo |-> FALSE, job |-> NoJob, due |-> {}, gone |-> {}]

TypeOK ==
    /\ status \in [Users -> Statuses]
    /\ owner \in [Keys -> Users \cup {NoUser}]
    /\ row \in [Keys -> RowStatuses]
    /\ jobs \subseteq Jobs
    /\ pages \subseteq Users \X {"suspend", "unsuspend"}
    /\ kept \subseteq Manual
    /\ cpa \subseteq Keys \cup Manual
    /\ alias \subseteq Keys
    /\ th \in [Threads -> Thread]
    /\ faults \in 0..MaxFaults

Claimed == {FirstKey[u] : u \in Users} \ {NoKey}

Init ==
    /\ status = [u \in Users |-> "approved"]
    /\ owner = [k \in Keys |-> IF k \in Claimed THEN CHOOSE u \in Users : FirstKey[u] = k
                                                ELSE NoUser]
    /\ row = [k \in Keys |-> IF k \in Claimed THEN "active" ELSE "none"]
    /\ jobs = {}
    /\ pages = Users \X {"suspend"}
    /\ kept = Manual
    /\ cpa = Claimed \cup Manual
    /\ alias = Claimed
    /\ th = [t \in Threads |-> Idle]
    /\ faults = 0

-----------------------------------------------------------------------------
(* Helpers.                                                                *)

ActiveKeysOf(u) == {k \in Keys : owner[k] = u /\ row[k] = "active"}
Fresh == {k \in Keys : owner[k] = NoUser}

Fault == faults < MaxFaults /\ faults' = faults + 1
NoFault == UNCHANGED faults

At(t, label) == th[t].pc = label
Become(t, r) == th' = [th EXCEPT ![t] = r]
Goto(t, label) == Become(t, [th[t] EXCEPT !.pc = label])
Take(t, label, k) == Become(t, [th[t] EXCEPT !.pc = label, !.key = k])
Finish(t) == Become(t, Idle)

\* A read of the CPA list by t, remembered until the put that is made from it.
ReadList(t, label) == Become(t, [th[t] EXCEPT !.pc = label, !.list = cpa])
Forget(t, label) == Become(t, [th[t] EXCEPT !.pc = label, !.list = {}, !.names = {}])

Start(t, operation, u, label) ==
    /\ operation \in Operations
    /\ At(t, "idle")
    /\ Become(t, [Idle EXCEPT !.op = operation, !.pc = label, !.user = u])

NextJob(t) == Become(t, [Idle EXCEPT !.op = "jobs", !.pc = "jobs.next", !.due = th[t].due])

\* Mutant: a failed job is dropped from the queue instead of being retried.
RevokeReturnsDropsJob(t, done) ==
    \/ done /\ th[t].op = "revoke" /\ Finish(t)
    \/ (done \/ th[t].op = "jobs") /\ th[t].op # "revoke" /\
          Forget(t, IF done THEN "settle" ELSE "jobs.delete")
    \/ ~done /\ th[t].op # "jobs" /\ Forget(t, "queue.active")

\* Where Keys.Revoke returns to in its three callers: keyRevoke,
\* suspendOrDelete and ProcessJobs.
RevokeReturns(t, done) ==
    \/ done /\ th[t].op = "revoke" /\ Finish(t)
    \/ done /\ th[t].op # "revoke" /\ Forget(t, "settle")
    \/ ~done /\ th[t].op = "jobs" /\ NextJob(t)
    \/ ~done /\ th[t].op # "jobs" /\ Forget(t, "queue.active")

\* Where cpamp.RemoveAPIKey returns to: Revoke, or the rollback of Issue, which
\* ignores the outcome and deletes the alias only when the insert had failed.
RemoveReturns(t, done) ==
    \/ th[t].op = "claim" /\ th[t].undo /\ Forget(t, "undo.alias")
    \/ th[t].op = "claim" /\ ~th[t].undo /\ Finish(t)
    \/ th[t].op # "claim" /\ done /\ Forget(t, "revoke.alias")
    \/ th[t].op # "claim" /\ ~done /\ RevokeReturns(t, FALSE)

-----------------------------------------------------------------------------
(* Keys.Issue: POST /key/claim.  withApproved reads the user row once; the  *)
(* password check and everything below run on that copy.                    *)

StartClaim(t, u) ==
    /\ t \in Slots
    /\ status[u] = "approved"
    /\ Start(t, "claim", u, "issue.active")
    /\ UNCHANGED <<db, owner, pages, kept, remote, faults>>

\* Mutant: a secret that another claim minted may be handed out again.
IssueActiveReusing(t) ==
    /\ At(t, "issue.active")
    /\ ActiveKeysOf(th[t].user) = {}
    /\ \E k \in {l \in Keys : row[l] = "none"} :
          /\ owner' = [owner EXCEPT ![k] = th[t].user]
          /\ Take(t, "add.list", k)
    /\ UNCHANGED <<db, pages, kept, remote, faults>>

\* Store.ActiveKey must find nothing; then a secret is minted.  A handler that
\* finds every key of this instance minted gives up: the bound on Keys.
IssueActive(t) ==
    /\ At(t, "issue.active")
    /\ \/ /\ ActiveKeysOf(th[t].user) # {} \/ Fresh = {}
          /\ Finish(t)
          /\ UNCHANGED owner
       \/ /\ ActiveKeysOf(th[t].user) = {}
          /\ \E k \in Fresh :
                /\ owner' = [owner EXCEPT ![k] = th[t].user]
                /\ Take(t, "add.list", k)
    /\ UNCHANGED <<db, pages, kept, remote, faults>>

\* cpamp.AddAPIKey: read the whole list, put it back with the key, read again.
\* When it fails Issue returns at once, whatever the put has done.
AddList(t) ==
    /\ At(t, "add.list")
    /\ \/ NoFault /\ ReadList(t, "add.put")
       \/ Fault /\ Finish(t)
    /\ UNCHANGED <<db, owner, pages, kept, remote>>

\* Mutant: the list is replaced by the keys the portal knows.
AddPutOwnKeys(t) ==
    /\ At(t, "add.put")
    /\ NoFault
    /\ cpa' = (th[t].list \cap Keys) \cup {th[t].key}
    /\ Forget(t, "add.confirm")
    /\ UNCHANGED <<db, owner, pages, kept, alias>>

AddPut(t) ==
    /\ At(t, "add.put")
    /\ LET merged == th[t].list \cup {th[t].key} IN
       \/ NoFault /\ cpa' = merged /\ Forget(t, "add.confirm")
       \/ Fault /\ cpa' \in {cpa, merged} /\ Finish(t)
    /\ UNCHANGED <<db, owner, pages, kept, alias>>

AddConfirm(t) ==
    /\ At(t, "add.confirm")
    /\ \/ NoFault /\ IF th[t].key \in cpa THEN Goto(t, "alias.list") ELSE Finish(t)
       \/ Fault /\ Finish(t)
    /\ UNCHANGED <<db, owner, pages, kept, remote>>

\* Keys.upsertAlias: two reads, then the whole alias table is replaced.  Any
\* failure makes Issue remove the key again, best effort.
AliasList(t) ==
    /\ At(t, "alias.list")
    /\ \/ NoFault /\ Become(t, [th[t] EXCEPT !.pc = "alias.keys", !.names = alias])
       \/ Fault /\ Goto(t, "rm.list")
    /\ UNCHANGED <<db, owner, pages, kept, remote>>

SameAlias(t, names) == {k \in names \ {th[t].key} : owner[k] = th[t].user}

AliasKeys(t) ==
    /\ At(t, "alias.keys")
    /\ \/ NoFault /\ IF SameAlias(t, th[t].names) \cap cpa = {}
                      THEN Goto(t, "alias.put")
                      ELSE Forget(t, "rm.list")
       \/ Fault /\ Forget(t, "rm.list")
    /\ UNCHANGED <<db, owner, pages, kept, remote>>

AliasPut(t) ==
    /\ At(t, "alias.put")
    /\ LET merged == (th[t].names \ SameAlias(t, th[t].names)) \cup {th[t].key} IN
       \/ NoFault /\ alias' = merged /\ Forget(t, "swap")
       \/ Fault /\ alias' \in {alias, merged} /\ Forget(t, "rm.list")
    /\ UNCHANGED <<db, owner, pages, kept, cpa>>

\* Mutant: no unique index on the active rows.
SwapWithoutIndex(t) ==
    /\ At(t, "swap")
    /\ row' = [row EXCEPT ![th[t].key] = "active"]
    /\ Finish(t)
    /\ UNCHANGED <<status, jobs, owner, pages, kept, remote, faults>>

\* Store.SwapActiveKey inserts the row; idx_one_active_key refuses a second
\* active row of the user.  On success the secret is shown.
Swap(t) ==
    /\ At(t, "swap")
    /\ IF ActiveKeysOf(th[t].user) = {}
       THEN /\ row' = [row EXCEPT ![th[t].key] = "active"]
            /\ Finish(t)
       ELSE /\ Become(t, [th[t] EXCEPT !.pc = "rm.list", !.undo = TRUE])
            /\ UNCHANGED row
    /\ UNCHANGED <<status, jobs, owner, pages, kept, remote, faults>>

UndoAlias(t) ==
    /\ At(t, "undo.alias")
    /\ \/ NoFault /\ alias' = alias \ {th[t].key}
       \/ Fault /\ alias' \in {alias, alias \ {th[t].key}}
    /\ Finish(t)
    /\ UNCHANGED <<db, owner, pages, kept, cpa>>

-----------------------------------------------------------------------------
(* cpamp.RemoveAPIKey.                                                      *)

\* Mutant: a list that could not be read counts as one without the key.
RemoveListIgnoringError(t) ==
    /\ At(t, "rm.list")
    /\ \/ NoFault /\ IF th[t].key \in cpa THEN ReadList(t, "rm.put")
                                            ELSE RemoveReturns(t, TRUE)
       \/ Fault /\ RemoveReturns(t, TRUE)
    /\ UNCHANGED <<db, owner, pages, kept, remote>>

RemoveList(t) ==
    /\ At(t, "rm.list")
    /\ \/ NoFault /\ IF th[t].key \in cpa THEN ReadList(t, "rm.put")
                                            ELSE RemoveReturns(t, TRUE)
       \/ Fault /\ RemoveReturns(t, FALSE)
    /\ UNCHANGED <<db, owner, pages, kept, remote>>

\* Mutant: the error of the put is ignored and nothing is read again.
RemovePutIgnoringError(t) ==
    /\ At(t, "rm.put")
    /\ LET merged == th[t].list \ {th[t].key} IN
       \/ NoFault /\ cpa' = merged /\ RemoveReturns(t, TRUE)
       \/ Fault /\ cpa' \in {cpa, merged} /\ RemoveReturns(t, TRUE)
    /\ UNCHANGED <<db, owner, pages, kept, alias>>

RemovePut(t) ==
    /\ At(t, "rm.put")
    /\ LET merged == th[t].list \ {th[t].key} IN
       \/ NoFault /\ cpa' = merged /\ Forget(t, "rm.confirm")
       \/ Fault /\ cpa' \in {cpa, merged} /\ RemoveReturns(t, FALSE)
    /\ UNCHANGED <<db, owner, pages, kept, alias>>

RemoveConfirm(t) ==
    /\ At(t, "rm.confirm")
    /\ \/ NoFault /\ RemoveReturns(t, th[t].key \notin cpa)
       \/ Fault /\ RemoveReturns(t, FALSE)
    /\ UNCHANGED <<db, owner, pages, kept, remote>>

-----------------------------------------------------------------------------
(* Keys.Revoke, and Keys.TestKey / TestModel, which share its two reads and *)
(* the answer to a key CPA no longer lists.                                 *)

StartOwn(t, u, operation) ==      \* POST /key/revoke, /key/test, /models/test
    /\ t \in Slots
    /\ operation \in {"revoke", "test"}
    /\ status[u] = "approved"
    /\ Start(t, operation, u, "revoke.active")
    /\ UNCHANGED <<db, owner, pages, kept, remote, faults>>

\* adminUserAction suspend, from a page that offered the button, and delete,
\* offered for every account; neither looks at the status again.
StartSuspendOrDelete(t, u, operation) ==
    /\ t \in Slots
    /\ operation \in {"suspend", "delete"}
    /\ operation = "suspend" => <<u, "suspend">> \in pages
    /\ Start(t, operation, u, "revoke.active")
    /\ UNCHANGED <<db, owner, pages, kept, remote, faults>>

RevokeActive(t) ==
    /\ At(t, "revoke.active")
    /\ IF ActiveKeysOf(th[t].user) = {}
       THEN IF th[t].op = "test" THEN Finish(t) ELSE RevokeReturns(t, TRUE)
       ELSE \E k \in ActiveKeysOf(th[t].user) : Take(t, "revoke.list", k)
    /\ UNCHANGED <<db, owner, pages, kept, remote, faults>>

\* Mutant: rawKeyByHash answers an error of the list as a missing key.
RevokeListIgnoringError(t) ==
    /\ At(t, "revoke.list")
    /\ \/ /\ NoFault
          /\ \/ th[t].key \notin cpa /\ Goto(t, "missing.status")
             \/ th[t].key \in cpa /\ th[t].op = "test" /\ Finish(t)
             \/ th[t].key \in cpa /\ th[t].op # "test" /\ Goto(t, "rm.list")
       \/ Fault /\ Goto(t, "missing.status")
    /\ UNCHANGED <<db, owner, pages, kept, remote>>

\* rawKeyByHash
RevokeList(t) ==
    /\ At(t, "revoke.list")
    /\ \/ /\ NoFault
          /\ \/ th[t].key \notin cpa /\ Goto(t, "missing.status")
             \/ th[t].key \in cpa /\ th[t].op = "test" /\ Finish(t)
             \/ th[t].key \in cpa /\ th[t].op # "test" /\ Goto(t, "rm.list")
       \/ /\ Fault
          /\ IF th[t].op = "test" THEN Finish(t) ELSE RevokeReturns(t, FALSE)
    /\ UNCHANGED <<db, owner, pages, kept, remote>>

\* The key is not in the list that was read: the row becomes external_revoked
\* and the alias is deleted, best effort.
MissingStatus(t) ==
    /\ At(t, "missing.status")
    /\ row' = [row EXCEPT ![th[t].key] = "external_revoked"]
    /\ Goto(t, "missing.alias")
    /\ UNCHANGED <<status, jobs, owner, pages, kept, remote, faults>>

MissingAlias(t) ==
    /\ At(t, "missing.alias")
    /\ \/ NoFault /\ alias' = alias \ {th[t].key}
       \/ Fault /\ alias' \in {alias, alias \ {th[t].key}}
    /\ \/ th[t].op = "test" /\ Finish(t)
       \/ th[t].op = "reconcile" /\ Goto(t, "reconcile.next")
       \/ th[t].op \notin {"test", "reconcile"} /\ RevokeReturns(t, TRUE)
    /\ UNCHANGED <<db, owner, pages, kept, cpa>>

RevokeAlias(t) ==
    /\ At(t, "revoke.alias")
    /\ \/ NoFault /\ alias' = alias \ {th[t].key} /\ Goto(t, "revoke.status")
       \/ Fault /\ alias' \in {alias, alias \ {th[t].key}} /\ RevokeReturns(t, FALSE)
    /\ UNCHANGED <<db, owner, pages, kept, cpa>>

\* Mutant: the row of a revoked key is deleted.
RevokeStatusDropsRow(t) ==
    /\ At(t, "revoke.status")
    /\ row' = [row EXCEPT ![th[t].key] = "none"]
    /\ RevokeReturns(t, TRUE)
    /\ UNCHANGED <<status, jobs, owner, pages, kept, remote, faults>>

RevokeStatus(t) ==
    /\ At(t, "revoke.status")
    /\ row' = [row EXCEPT ![th[t].key] = "revoked"]
    /\ RevokeReturns(t, TRUE)
    /\ UNCHANGED <<status, jobs, owner, pages, kept, remote, faults>>

-----------------------------------------------------------------------------
(* What the handlers do with an unconfirmed revocation.                     *)

\* keyRevoke gives up when the active key is gone; suspendOrDelete goes on.
QueueActive(t) ==
    /\ At(t, "queue.active")
    /\ LET active == ActiveKeysOf(th[t].user) IN
       IF th[t].op = "revoke"
       THEN \/ active = {} /\ Finish(t)
            \/ \E k \in active : Take(t, "queue.job", k)
       ELSE \E k \in IF active = {} THEN {NoKey} ELSE active : Take(t, "queue.status", k)
    /\ UNCHANGED <<db, owner, pages, kept, remote, faults>>

\* Mutant: the account is suspended before the key is known to be dead.
QueueStatusNotPending(t) ==
    /\ At(t, "queue.status")
    /\ status' = [status EXCEPT ![th[t].user] =
                    IF th[t].op = "delete" THEN "delete_pending" ELSE "suspended"]
    /\ Goto(t, "queue.job")
    /\ UNCHANGED <<row, jobs, owner, pages, kept, remote, faults>>

QueueStatus(t) ==
    /\ At(t, "queue.status")
    /\ status' = [status EXCEPT ![th[t].user] =
                    IF th[t].op = "delete" THEN "delete_pending" ELSE "suspended_pending"]
    /\ Goto(t, "queue.job")
    /\ UNCHANGED <<row, jobs, owner, pages, kept, remote, faults>>

QueueJob(t) ==
    /\ At(t, "queue.job")
    /\ jobs' = jobs \cup {[user |-> th[t].user, action |-> th[t].op, key |-> th[t].key]}
    /\ Finish(t)
    /\ UNCHANGED <<status, row, owner, pages, kept, remote, faults>>

\* The revocation is done: AnonymizeUser or SetUserStatus(suspended), by the
\* handler or by ProcessJobs, whatever the status is by now.
Settled(u, action) ==
    CASE action = "delete"  -> "deleted"
      [] action = "suspend" -> "suspended"
      [] OTHER              -> status[u]

Settle(t) ==
    /\ At(t, "settle")
    /\ LET action == IF th[t].op = "jobs" THEN th[t].job.action ELSE th[t].op IN
       status' = [status EXCEPT ![th[t].user] = Settled(th[t].user, action)]
    /\ IF th[t].op = "jobs" THEN Goto(t, "jobs.delete") ELSE Finish(t)
    /\ UNCHANGED <<row, jobs, owner, pages, kept, remote, faults>>

-----------------------------------------------------------------------------
(* Keys.ProcessJobs, on the job ticker.                                     *)

StartJobs(t, due) ==
    /\ t = Background
    /\ "jobs" \in Operations
    /\ At(t, "idle")
    /\ due # {}
    /\ Become(t, [Idle EXCEPT !.op = "jobs", !.pc = "jobs.next", !.due = due])
    /\ UNCHANGED <<db, owner, pages, kept, remote, faults>>

\* The job names a user; Revoke takes whatever key the user has now.  A failed
\* job keeps its row (RetryJob) and comes back on a later tick.
JobsNext(t) ==
    /\ At(t, "jobs.next")
    /\ \/ th[t].due = {} /\ Finish(t)
       \/ \E job \in th[t].due :
             Become(t, [th[t] EXCEPT !.pc = "revoke.active", !.user = job.user,
                                     !.job = job, !.due = @ \ {job}])
    /\ UNCHANGED <<db, owner, pages, kept, remote, faults>>

JobsDelete(t) ==
    /\ At(t, "jobs.delete")
    /\ jobs' = jobs \ {th[t].job}
    /\ NextJob(t)
    /\ UNCHANGED <<status, row, owner, pages, kept, remote, faults>>

-----------------------------------------------------------------------------
(* Keys.Reconcile, on the reconcile ticker and from the admin health page;  *)
(* reconcileMu lets one run at a time.                                      *)

StartReconcile(t) ==
    /\ \A other \in Threads : th[other].op # "reconcile"
    /\ Start(t, "reconcile", NoUser, "reconcile.list")
    /\ UNCHANGED <<db, owner, pages, kept, remote, faults>>

ReconcileList(t) ==
    /\ At(t, "reconcile.list")
    /\ \/ NoFault /\ ReadList(t, "reconcile.rows")
       \/ Fault /\ Finish(t)
    /\ UNCHANGED <<db, owner, pages, kept, remote>>

\* Store.ActiveKeys, after the list
ReconcileRows(t) ==
    /\ At(t, "reconcile.rows")
    /\ Become(t, [th[t] EXCEPT !.pc = "reconcile.next", !.list = {},
                               !.gone = {k \in Keys : row[k] = "active"} \ th[t].list])
    /\ UNCHANGED <<db, owner, pages, kept, remote, faults>>

ReconcileNext(t) ==
    /\ At(t, "reconcile.next")
    /\ \/ th[t].gone = {} /\ Finish(t)
       \/ \E k \in th[t].gone :
             Become(t, [th[t] EXCEPT !.pc = "missing.status", !.key = k, !.gone = @ \ {k}])
    /\ UNCHANGED <<db, owner, pages, kept, remote, faults>>

-----------------------------------------------------------------------------
(* The rest of the world.                                                   *)

\* adminUser: a page offers suspend or unsuspend by the status it read, and
\* may be used long afterwards.
OpenPage(u) ==
    /\ "unsuspend" \in Operations
    /\ pages' = pages \cup (CASE status[u] = "approved"  -> {<<u, "suspend">>}
                              [] status[u] = "suspended" -> {<<u, "unsuspend">>}
                              [] OTHER                   -> {})
    /\ pages' # pages
    /\ UNCHANGED <<db, owner, kept, remote, th, faults>>

\* adminUserAction unsuspend: SetUserStatus(approved) without a condition.
Unsuspend(u) ==
    /\ "unsuspend" \in Operations
    /\ <<u, "unsuspend">> \in pages
    /\ status' = [status EXCEPT ![u] = "approved"]
    /\ UNCHANGED <<row, jobs, owner, pages, kept, remote, th, faults>>

\* The operator deletes a portal key in CPA or CPAMP by hand.
ExternalDelete(k) ==
    /\ "external" \in Operations
    /\ k \in cpa \ Manual
    /\ cpa' = cpa \ {k}
    /\ UNCHANGED <<db, owner, pages, kept, alias, th, faults>>

\* Between the read of CPA's list and the put that replaces it.
Rewriting(t) == th[t].pc \in {"add.put", "rm.put"}

\* The operator adds a key of his own or deletes one.  A rewrite that has read
\* the list and not put it back yet undoes either, for which README.md:159 asks
\* for one writer at a time; a key added while none is on its way has to stay.
OperatorEdits(m) ==
    /\ "operator" \in Operations
    /\ \/ /\ m \notin cpa
          /\ cpa' = cpa \cup {m}
          /\ kept' = IF \E t \in Threads : Rewriting(t) THEN kept ELSE kept \cup {m}
       \/ /\ m \in cpa
          /\ cpa' = cpa \ {m}
          /\ kept' = kept \ {m}
    /\ UNCHANGED <<db, owner, pages, alias, th, faults>>

\* The client disconnects, which cancels the context of every later call of the
\* handler, or the process goes down.
CutOff(t) ==
    /\ "cutoff" \in Operations
    /\ ~At(t, "idle")
    /\ Fault
    /\ Finish(t)
    /\ UNCHANGED <<db, owner, pages, kept, remote>>

Continue(t) ==
    \/ IssueActive(t) \/ AddList(t) \/ AddPut(t) \/ AddConfirm(t)
    \/ AliasList(t) \/ AliasKeys(t) \/ AliasPut(t) \/ Swap(t) \/ UndoAlias(t)
    \/ RemoveList(t) \/ RemovePut(t) \/ RemoveConfirm(t)
    \/ RevokeActive(t) \/ RevokeList(t) \/ MissingStatus(t) \/ MissingAlias(t)
    \/ RevokeAlias(t) \/ RevokeStatus(t)
    \/ QueueActive(t) \/ QueueStatus(t) \/ QueueJob(t) \/ Settle(t)
    \/ JobsNext(t) \/ JobsDelete(t)
    \/ ReconcileList(t) \/ ReconcileRows(t) \/ ReconcileNext(t)

Begin(t) ==
    \/ \E u \in Users : StartClaim(t, u)
    \/ \E u \in Users, operation \in Operations :
          StartOwn(t, u, operation) \/ StartSuspendOrDelete(t, u, operation)
    \/ \E due \in SUBSET jobs : StartJobs(t, due)
    \/ StartReconcile(t)

Next ==
    \/ \E t \in Threads : Begin(t) \/ Continue(t) \/ CutOff(t)
    \/ \E u \in Users : OpenPage(u) \/ Unsuspend(u)
    \/ \E k \in Keys : ExternalDelete(k)
    \/ \E m \in Manual : OperatorEdits(m)

Spec == Init /\ [][Next]_vars

\* A goroutine that is running goes on, and the job ticker keeps firing: a tick
\* takes the jobs due, and in PORTAL_PENDING_RETRY every job is due again.  The
\* select of `background` draws among the tickers that are ready, so the one of
\* Reconcile does not starve it for ever.
Fairness ==
    /\ \A t \in Threads : WF_vars(Continue(t))
    /\ SF_vars(StartJobs(Background, jobs))

FairSpec == Spec /\ Fairness

-----------------------------------------------------------------------------
(* Properties.                                                              *)

\* The portal never records two active keys for one user, however its claims
\* interleave (idx_one_active_key, Keys.Issue).
OneActiveRow ==
    \A k, l \in Keys : row[k] = "active" /\ row[l] = "active" /\ owner[k] = owner[l] => k = l

\* "Every approved user has at most one valid key" (README.md:10): of the keys
\* a user was shown, CPA accepts at most one.
Usable(u) == {k \in Keys : owner[k] = u /\ row[k] # "none" /\ k \in cpa}
AtMostOneUsableKey == \A u \in Users : Cardinality(Usable(u)) <= 1

\* A key the portal reports revoked, by itself or from outside, is not accepted
\* by CPA, whatever calls failed on the way (README.md:161, Keys.Revoke).
RevokedKeyIsDead == \A k \in Keys : row[k] \in {"revoked", "external_revoked"} => k \notin cpa

\* A user whose suspension or deletion is complete holds no active key.
SuspendedHasNoActiveKey ==
    \A u \in Users : status[u] \in {"suspended", "deleted"} => ActiveKeysOf(u) = {}

\* A key the operator put in CPA by hand, while no rewrite was between its read
\* and its put, survives every later rewrite of the list until he deletes it
\* (README.md:160, ReplaceAPIKeys).
ManualKeysKept == kept \subseteq cpa

\* The keys as the ledger enters them: a key without a row was shown to nobody.
Holder == [k \in Keys |-> IF row[k] = "none" THEN NoUser ELSE owner[k]]
KeyState == [k \in Keys |-> CASE row[k] = "none" -> "unused"
                              [] row[k] = "active" -> "active"
                              [] OTHER -> "retired"]
Closed == {u \in Users : status[u] \in {"suspended", "deleted"}}

\* The portal keeps the ledger, whatever fails on the way: a retired key never
\* comes back, in its row or in CPA, no key changes hands, and a claim, a
\* retirement and the end of a suspension find what the ledger asks of them
\* (Keys.Issue, Keys.Revoke, suspendOrDelete and ProcessJobs together).
Ledger == INSTANCE KeyLedger WITH holder <- Holder, state <- KeyState,
                                  accepted <- cpa, closed <- Closed, manual <- kept
KeepsTheLedger == Ledger!LedgerSpec

\* A deletion cannot be undone (admin-user.html:24): a deleted account, which is
\* anonymous and may not be given a phone or a password, is deleted for good.
DeletedForGood ==
    [][\A u \in Users : status[u] = "deleted" => status'[u] = "deleted"]_vars

\* A revocation in the queue is carried out once CPA answers again.
QueuedRevocationHappens ==
    \A u \in Users : (\E job \in jobs : job.user = u) ~> (ActiveKeysOf(u) = {})

-----------------------------------------------------------------------------
(* The inductive invariant behind OneActiveRow, ManualKeysKept and          *)
(* KeepsTheLedger (proved in KeyLifecycleProofs).                           *)

Revokers == {"revoke", "suspend", "delete", "jobs"}

\* Which operations reach which access, and with which user and key at hand.
Fits(r) ==
    /\ r.pc \in {"issue.active", "add.list", "add.put", "add.confirm", "alias.list",
                 "alias.keys", "alias.put", "swap", "undo.alias"} => r.op = "claim"
    /\ r.pc \in {"rm.list", "rm.put", "rm.confirm"} => r.op \in Revokers \cup {"claim"}
    /\ r.pc \in {"revoke.active", "revoke.list"} => r.op \in Revokers \cup {"test"}
    /\ r.pc \in {"revoke.alias", "revoke.status", "settle"} => r.op \in Revokers
    /\ r.pc \in {"missing.status", "missing.alias"} =>
                                          r.op \in Revokers \cup {"test", "reconcile"}
    /\ r.pc \in {"queue.active", "queue.status", "queue.job"} => r.op \in Revokers \ {"jobs"}
    /\ r.pc \in {"jobs.next", "jobs.delete"} => r.op = "jobs"
    /\ r.pc \in {"reconcile.list", "reconcile.rows", "reconcile.next"} => r.op = "reconcile"
    /\ r.pc = "idle" => r.op = "none"
    /\ r.op \in {"claim", "test"} \cup (Revokers \ {"jobs"}) => r.user \in Users
    /\ r.op = "jobs" /\ r.pc # "jobs.next" => r.user \in Users
    /\ r.pc \in {"add.list", "add.put", "add.confirm", "alias.list", "alias.keys", "alias.put",
                 "swap", "undo.alias", "rm.list", "rm.put", "rm.confirm", "revoke.list",
                 "revoke.alias", "revoke.status", "missing.status", "missing.alias"} =>
                                                                            r.key \in Keys
ControlOK == \A t \in Threads : Fits(th[t])

\* Until it is inserted, a minted key is known to one claim alone.
Claiming(r) == r.op = "claim" /\ r.pc # "issue.active"
PrivateClaims ==
    /\ \A t \in Threads : Claiming(th[t]) =>
          owner[th[t].key] = th[t].user /\ row[th[t].key] = "none"
    /\ \A t, v \in Threads :
          Claiming(th[t]) /\ Claiming(th[v]) /\ th[t].key = th[v].key => t = v

\* Everybody else works on keys that have a row, and a row has an owner.
Retirement == {"revoke.list", "rm.list", "rm.put", "rm.confirm",
               "revoke.alias", "revoke.status", "missing.status", "missing.alias"}
Retiring(r) == r.op # "claim" /\ r.pc \in Retirement
KnownRows ==
    /\ \A k \in Keys : row[k] # "none" => owner[k] # NoUser
    /\ \A t \in Threads : /\ Retiring(th[t]) => row[th[t].key] # "none"
                          /\ \A k \in th[t].gone : row[k] # "none"

\* A list about to be put back still holds the keys that have to stay.
SnapshotsKeepManual == \A t \in Threads : Rewriting(t) => kept \subseteq th[t].list

IInv ==
    /\ TypeOK
    /\ ControlOK
    /\ OneActiveRow
    /\ PrivateClaims
    /\ KnownRows
    /\ SnapshotsKeepManual
    /\ ManualKeysKept

=============================================================================
