------------------------------- MODULE Accounts -------------------------------
(***************************************************************************)
(* Accounts, roles, sessions and reset codes.                              *)
(*                                                                         *)
(* A handler reads its own user and its target when the request arrives    *)
(* and writes later; SQLite runs one statement at a time, so a step is one *)
(* statement or one transaction.  The revocation of the API key during a   *)
(* suspension is the module KeyLifecycle; here it succeeds or is queued,   *)
(* and a queued one succeeds on some tick or never.                        *)
(***************************************************************************)
EXTENDS Naturals, FiniteSetsExt

CONSTANTS
    People,     \* accounts that exist or may be registered
    Founders,   \* the administrators at the start
    Tokens,     \* session tokens
    Codes,      \* reset codes
    KeyHashes,  \* hashes of the keys a removal may find, or of none
    Handlers,   \* requests in flight
    Focuses,    \* bound: sets of kinds of steps; a behaviour has those of one set
    MaxEpoch,   \* bound: changes of passwords and roles
    MaxJobs,    \* bound: jobs in the queue
    MaxCuts     \* bound: requests cut off, ticks interrupted

ASSUME AccountsAssumption ==
    /\ Founders \subseteq People /\ Founders # {}
    /\ "none" \notin People \cup Tokens \cup Codes
    /\ {MaxEpoch, MaxJobs, MaxCuts} \subseteq Nat

VARIABLES
    status,   \* users.status, "none" before the registration
    role,     \* users.role
    epoch,    \* how often the password or the role was changed
    session,  \* sessions; user = "none" for a free token
    code,     \* password_resets
    queue,    \* sync_jobs: the removals whose revocation had failed
    ticker,   \* ProcessJobs: the job it has settled and not yet deleted
    request,  \* the requests in flight
    focus,    \* the kinds of steps of this behaviour
    raced,    \* history: an administrator went while another's removal was under way
    cuts

accountVars == <<status, role, epoch, session, code, queue, ticker, request, focus, raced, cuts>>

AccountStatuses == {"none", "pending", "approved", "rejected", "suspended",
                    "suspended_pending", "delete_pending", "deleted"}
NoSession == [user |-> "none", since |-> 0]
NoCode == [user |-> "none", state |-> "none", served |-> 0]
NoRequest == [op |-> "none", step |-> "idle", user |-> "none", token |-> "none",
              code |-> "none"]

Steps == {"idle", "create", "use", "set", "sessions", "settle", "queue", "write"}
Operations == {"none", "login", "password", "reset", "resubmit", "suspend", "delete",
               "promote", "demote"}
Requests ==
    [op : Operations, step : Steps, user : People \cup {"none"}, token : Tokens \cup {"none"},
     code : Codes \cup {"none"}]
RemovalJobs == [user : People, action : {"suspend", "delete"}, key : KeyHashes]

AccountsTypeOK ==
    /\ status \in [People -> AccountStatuses] /\ role \in [People -> {"user", "admin"}]
    /\ epoch \in [People -> Nat]
    /\ session \in [Tokens -> [user : People \cup {"none"}, since : Nat]]
    /\ code \in [Codes -> [user : People \cup {"none"}, state : {"none", "fresh", "used", "gone"},
                          served : Nat]]
    /\ queue \subseteq RemovalJobs /\ ticker \subseteq RemovalJobs
    /\ request \in [Handlers -> Requests]
    /\ focus \in Focuses /\ raced \in BOOLEAN /\ cuts \in 0..MaxCuts

\* Who may register in this behaviour is not there yet.
AccountsInit ==
    /\ focus \in Focuses
    /\ status = [u \in People |->
          IF u \in Founders \/ "register" \notin focus THEN "approved" ELSE "none"]
    /\ role = [u \in People |-> IF u \in Founders THEN "admin" ELSE "user"]
    /\ epoch = [u \in People |-> 0]
    /\ session = [t \in Tokens |-> NoSession] /\ code = [c \in Codes |-> NoCode]
    /\ queue = {} /\ ticker = {} /\ request = [h \in Handlers |-> NoRequest]
    /\ raced = FALSE /\ cuts = 0

-----------------------------------------------------------------------------
Admins == {u \in People : role[u] = "admin" /\ status[u] = "approved"}
Registered(u) == status[u] # "none"
Live(u) == status[u] \notin {"none", "deleted"}

\* ResolveSession: a session of these accounts is deleted when it is used.
Dead(u) == status[u] \in {"deleted", "delete_pending"}

Idle(h) == request[h].step = "idle"
Does(h, op, step) == request[h].op = op /\ request[h].step = step
Begin(h, op, step, u, t) ==
    request' = [request EXCEPT ![h] = [NoRequest EXCEPT !.op = op, !.step = step, !.user = u,
                                                         !.token = t]]
Step(h, step) == request' = [request EXCEPT ![h].step = step]
Done(h) == request' = [request EXCEPT ![h] = NoRequest]

\* An administrator's request: withAdmin reads the actor when it arrives.
ByAdmin == Admins # {}
Takes(op) == op \in focus
MayChange == MapThenSumSet(LAMBDA u : epoch[u], People) < MaxEpoch

Register(u) ==
    /\ status[u] = "none"
    /\ \/ status' = [status EXCEPT ![u] = "pending"] /\ UNCHANGED role
       \/ status' = [status EXCEPT ![u] = "approved"] /\ role' = [role EXCEPT ![u] = "admin"]
    /\ UNCHANGED <<epoch, session, code, queue, ticker, request, focus, raced, cuts>>

\* ApproveUser, RejectUser: the statement has the guard.
Decide(u) ==
    /\ ByAdmin
    /\ \/ status[u] \in {"pending", "rejected", "suspended"}
          /\ status' = [status EXCEPT ![u] = "approved"]
       \/ status[u] \in {"pending", "rejected"} /\ status' = [status EXCEPT ![u] = "rejected"]
    /\ UNCHANGED <<role, epoch, session, code, queue, ticker, request, focus, raced, cuts>>

\* Unsuspend has no guard: any account, a deleted one or one whose removal is in
\* the queue, is approved again, and its job stays.  A deleted account keeps its
\* role; that it needs a phone and a password to log in again is left out.
Resume(u) ==
    /\ ByAdmin /\ Registered(u)
    /\ status' = [status EXCEPT ![u] = "approved"]
    /\ UNCHANGED <<role, epoch, session, code, queue, ticker, request, focus, raced, cuts>>

\* resubmitPost: the user of the session was rejected when it was read.
OpenResubmit(h, t) ==
    /\ Idle(h) /\ session[t] # NoSession /\ status[session[t].user] = "rejected"
    /\ Begin(h, "resubmit", "write", session[t].user, t)
    /\ UNCHANGED <<status, role, epoch, session, code, queue, ticker, focus, raced, cuts>>

\* ResubmitRejectedUser, with its guard: a new password, while every session and
\* reset code stays.  The sessions that were current count from the new password.
Resubmit(h) ==
    /\ Does(h, "resubmit", "write")
    /\ LET u == request[h].user IN
       /\ MayChange
       /\ IF status[u] = "rejected"
          THEN /\ status' = [status EXCEPT ![u] = "pending"]
               /\ epoch' = [epoch EXCEPT ![u] = @ + 1]
               /\ session' = [t \in Tokens |->
                     IF session[t] = [user |-> u, since |-> epoch[u]]
                     THEN [user |-> u, since |-> epoch[u] + 1] ELSE session[t]]
          ELSE UNCHANGED <<status, epoch, session>>
    /\ Done(h)
    /\ UNCHANGED <<role, code, queue, ticker, focus, raced, cuts>>

\* Authenticate: the password is verified on the row as read.
Authenticate(h, u) ==
    /\ Idle(h) /\ Live(u)
    /\ Begin(h, "login", "create", u, "none")
    /\ UNCHANGED <<status, role, epoch, session, code, queue, ticker, focus, raced, cuts>>

\* CreateSession: the session counts from the moment it is stored, also when the
\* password it was opened with was changed since it was verified.
CreateSession(h, t) ==
    /\ Does(h, "login", "create") /\ session[t] = NoSession
    /\ LET u == request[h].user IN
       session' = [session EXCEPT ![t] = [user |-> u, since |-> epoch[u]]]
    /\ Done(h)
    /\ UNCHANGED <<status, role, epoch, code, queue, ticker, focus, raced, cuts>>

\* Logout, expiry, CleanupSessions, ResolveSession of a dead account.
EndSession(t) ==
    /\ session[t] # NoSession
    /\ session' = [session EXCEPT ![t] = NoSession]
    /\ UNCHANGED <<status, role, epoch, code, queue, ticker, request, focus, raced, cuts>>

\* passwordPost: withUser resolves the session and reads the user, then the
\* old password is verified.
OpenPassword(h, t) ==
    /\ Idle(h) /\ session[t] # NoSession /\ ~Dead(session[t].user)
    /\ Begin(h, "password", "set", session[t].user, t)
    /\ UNCHANGED <<status, role, epoch, session, code, queue, ticker, focus, raced, cuts>>

\* SetPassword; the session that asked belongs to the new password.
SetPassword(h) ==
    /\ request[h].op \in {"password", "reset"} /\ request[h].step = "set"
    /\ LET u == request[h].user
           t == request[h].token
           c == request[h].code IN
       /\ MayChange
       /\ epoch' = [epoch EXCEPT ![u] = @ + 1]
       /\ session' = [x \in Tokens |-> IF x = t /\ session[x].user = u
                                       THEN [session[x] EXCEPT !.since = epoch[u] + 1]
                                       ELSE session[x]]
       /\ code' = [x \in Codes |-> IF x = c THEN [code[x] EXCEPT !.served = @ + 1] ELSE code[x]]
    /\ Step(h, "sessions")
    /\ UNCHANGED <<status, role, queue, ticker, focus, raced, cuts>>

\* Mutant: the session that asked is dropped, the others stay.
OthersReversed(h) == {t \in Tokens : session[t].user = request[h].user /\ t = request[h].token}

\* DeleteUserSessions: every session of the user but the one that asked.
Others(h) == {t \in Tokens : session[t].user = request[h].user /\ t # request[h].token}

DropSessions(h) ==
    /\ request[h].step = "sessions"
    /\ session' = [t \in Tokens |-> IF t \in Others(h) THEN NoSession ELSE session[t]]
    /\ Done(h)
    /\ UNCHANGED <<status, role, epoch, code, queue, ticker, focus, raced, cuts>>

\* GenerateReset: the codes issued before are deleted with the same commit.
IssueCode(u, c) ==
    /\ ByAdmin /\ Registered(u) /\ code[c] = NoCode
    /\ code' = [x \in Codes |->
          CASE x = c -> [user |-> u, state |-> "fresh", served |-> 0]
            [] code[x].user = u /\ x # c -> [code[x] EXCEPT !.state = "gone"]
            [] OTHER -> code[x]]
    /\ UNCHANGED <<status, role, epoch, session, queue, ticker, request, focus, raced, cuts>>

\* ResetPassword: the code must be this user's, unused and not expired.
OpenReset(h, u, c) ==
    /\ Idle(h) /\ Live(u)
    /\ code[c].user = u /\ code[c].state = "fresh"
    /\ request' = [request EXCEPT ![h] = [NoRequest EXCEPT !.op = "reset", !.step = "use",
                                              !.user = u, !.code = c]]
    /\ UNCHANGED <<status, role, epoch, session, code, queue, ticker, focus, raced, cuts>>

\* Mutant: the code is marked whatever became of it since it was read.
UseCodeUnchecked(h) ==
    /\ Does(h, "reset", "use")
    /\ code' = [code EXCEPT ![request[h].code].state = "used"] /\ Step(h, "set")
    /\ UNCHANGED <<status, role, epoch, session, queue, ticker, focus, raced, cuts>>

\* UsePasswordReset: one statement tests and marks.
UseCode(h) ==
    /\ Does(h, "reset", "use")
    /\ LET c == request[h].code IN
       IF code[c].state = "fresh"
       THEN code' = [code EXCEPT ![c].state = "used"] /\ Step(h, "set")
       ELSE Done(h) /\ UNCHANGED code
    /\ UNCHANGED <<status, role, epoch, session, queue, ticker, focus, raced, cuts>>

CodeExpires(c) ==
    /\ code[c].state = "fresh"
    /\ code' = [code EXCEPT ![c].state = "gone"]
    /\ UNCHANGED <<status, role, epoch, session, queue, ticker, request, focus, raced, cuts>>

-----------------------------------------------------------------------------
(* Roles and removals.                                                     *)

\* A removal is under way from the reading of its target until its statement, or,
\* when the revocation fails, until ProcessJobs has deleted its job.
Removing(h) == request[h].op \in {"suspend", "delete"}
UnderRemoval == {request[h].user : h \in {g \in Handlers : Removing(g)}} \cup {j.user : j \in queue}
NoteRace(u) == raced' = (raced \/ (u \in Admins /\ (UnderRemoval \cap Admins) \ {u} # {}))

\* Mutant: the last administrator may be suspended.
MayRemoveLast(op, u) == TRUE

\* adminUserAction: an administrator may go only while two are approved; a
\* deletion of one who is not approved is let through.  Nothing else is asked of
\* the status.
MayRemove(op, u) ==
    role[u] = "admin" => Cardinality(Admins) > 1 \/ (op = "delete" /\ status[u] # "approved")

OpenRemoval(h, op, u) ==
    /\ Idle(h) /\ ByAdmin /\ Registered(u)
    /\ op = "delete" => Admins # {u}
    /\ MayRemove(op, u)
    /\ Begin(h, op, "settle", u, "none")
    /\ UNCHANGED <<status, role, epoch, session, code, queue, ticker, focus, raced, cuts>>

\* AnonymizeUser deletes sessions and codes with the row.
Anonymize(u) ==
    /\ status' = [status EXCEPT ![u] = "deleted"]
    /\ session' = [t \in Tokens |-> IF session[t].user = u THEN NoSession ELSE session[t]]
    /\ code' = [c \in Codes |-> IF code[c].user = u THEN [code[c] EXCEPT !.state = "gone"]
                                                     ELSE code[c]]

\* SetUserStatus(suspended) or AnonymizeUser, whatever the status is by now.
RemoveAccount(op, u) ==
    \/ op = "delete" /\ Anonymize(u)
    \/ op = "suspend" /\ status' = [status EXCEPT ![u] = "suspended"] /\ UNCHANGED <<session, code>>

\* suspendOrDelete, once Keys.Revoke has answered; whether the pending status could
\* be set is not looked at before the job is queued.
Settle(h) ==
    /\ Removing(h) /\ request[h].step = "settle"
    /\ LET u == request[h].user
           op == request[h].op IN
       \/ /\ Takes("pending") /\ Step(h, "queue") /\ UNCHANGED <<session, code>>
          /\ \/ /\ status' = [status EXCEPT ![u] =
                                 IF op = "delete" THEN "delete_pending" ELSE "suspended_pending"]
                /\ NoteRace(u) /\ UNCHANGED cuts
             \/ cuts < MaxCuts /\ cuts' = cuts + 1 /\ UNCHANGED <<status, raced>>
       \/ RemoveAccount(op, u) /\ NoteRace(u) /\ Done(h) /\ UNCHANGED cuts
    /\ UNCHANGED <<role, epoch, queue, ticker, focus>>

\* EnqueueJob: one row for each user, action and key hash.
Enqueue(h) ==
    /\ Removing(h) /\ request[h].step = "queue"
    /\ \E k \in KeyHashes :
          queue' = queue \cup {[user |-> request[h].user, action |-> request[h].op, key |-> k]}
    /\ Cardinality(queue') <= MaxJobs
    /\ Done(h)
    /\ UNCHANGED <<status, role, epoch, session, code, ticker, focus, raced, cuts>>

\* ProcessJobs, once Keys.Revoke has answered: the status is set without a look
\* at the old one; DeleteJob is a statement of its own.
SettleJob(j) ==
    /\ ticker = {} /\ ticker' = {j}
    /\ RemoveAccount(j.action, j.user) /\ NoteRace(j.user)
    /\ UNCHANGED <<role, epoch, queue, request, focus, cuts>>

DropJob ==
    /\ ticker # {} /\ ticker' = {}
    /\ queue' = queue \ ticker
    /\ UNCHANGED <<status, role, epoch, session, code, request, focus, raced, cuts>>

\* The process goes down in between, or DeleteJob fails: the job stays.
TickCutOff ==
    /\ ticker # {} /\ cuts < MaxCuts
    /\ ticker' = {} /\ cuts' = cuts + 1
    /\ UNCHANGED <<status, role, epoch, session, code, queue, request, focus, raced>>

\* The role form: the target is read, then one statement changes the role.
OpenRole(h, u) ==
    /\ Idle(h) /\ \E a \in Admins : a # u
    /\ \/ /\ Takes("promote") /\ role[u] = "user" /\ status[u] = "approved"
          /\ Begin(h, "promote", "write", u, "none")
       \/ Takes("demote") /\ role[u] = "admin" /\ Begin(h, "demote", "write", u, "none")
    /\ UNCHANGED <<status, role, epoch, session, code, queue, ticker, focus, raced, cuts>>

Promote(h) ==
    /\ Does(h, "promote", "write")
    /\ LET u == request[h].user IN
       /\ MayChange
       /\ IF Live(u)
          THEN role' = [role EXCEPT ![u] = "admin"] /\ epoch' = [epoch EXCEPT ![u] = @ + 1]
          ELSE UNCHANGED <<role, epoch>>
    /\ Step(h, "sessions")
    /\ UNCHANGED <<status, session, code, queue, ticker, focus, raced, cuts>>

\* Mutant: the count was taken when the page was opened.
MayDemoteUncounted(u) == role[u] = "admin" /\ Live(u)

\* DemoteAdmin: the count is part of the statement.
MayDemote(u) ==
    /\ role[u] = "admin" /\ Live(u)
    /\ status[u] = "approved" => Cardinality(Admins) > 1

Demote(h) ==
    /\ Does(h, "demote", "write")
    /\ LET u == request[h].user IN
       /\ MayChange
       /\ \/ /\ MayDemote(u)
             /\ role' = [role EXCEPT ![u] = "user"] /\ epoch' = [epoch EXCEPT ![u] = @ + 1]
             /\ NoteRace(u) /\ Step(h, "sessions")
          \/ ~MayDemote(u) /\ Done(h) /\ UNCHANGED <<role, epoch, raced>>
    /\ UNCHANGED <<status, session, code, queue, ticker, focus, cuts>>

\* The client goes away, or a call fails: the handler stops where it is.
CutOff(h) ==
    /\ ~Idle(h) /\ cuts < MaxCuts
    /\ cuts' = cuts + 1 /\ Done(h)
    /\ UNCHANGED <<status, role, epoch, session, code, queue, ticker, focus, raced>>

AccountsNext ==
    \/ Takes("register") /\ \E u \in People : Register(u) \/ Decide(u)
    \/ Takes("resume") /\ \E u \in People : Resume(u)
    \/ \E j \in queue : SettleJob(j)
    \/ DropJob \/ TickCutOff
    \/ \E u \in People, c \in Codes : Takes("reset") /\ IssueCode(u, c)
    \/ \E t \in Tokens : EndSession(t)
    \/ \E c \in Codes : CodeExpires(c)
    \/ \E h \in Handlers, u \in People :
          \/ Takes("login") /\ Authenticate(h, u)
          \/ OpenRole(h, u)
          \/ Takes("reset") /\ \E c \in Codes : OpenReset(h, u, c)
          \/ \E op \in {"suspend", "delete"} : Takes(op) /\ OpenRemoval(h, op, u)
    \/ \E h \in Handlers, t \in Tokens :
          \/ CreateSession(h, t)
          \/ Takes("password") /\ OpenPassword(h, t)
          \/ Takes("register") /\ OpenResubmit(h, t)
    \/ \E h \in Handlers :
          \/ SetPassword(h) \/ DropSessions(h) \/ UseCode(h) \/ Resubmit(h)
          \/ Settle(h) \/ Enqueue(h) \/ Promote(h) \/ Demote(h) \/ CutOff(h)

AccountsSpec == AccountsInit /\ [][AccountsNext]_accountVars

-----------------------------------------------------------------------------
\* The portal is never left without an approved administrator by requests and
\* jobs that follow each other, nor by any number of demotions at once.  Only the
\* removal or demotion of one administrator while the removal of another is under
\* way can do it, in a handler or as a job of the queue, were it left over from an
\* account that has been approved again.  (adminUserAction, ProcessJobs, DemoteAdmin)
AdminRemains == raced \/ Admins # {}

\* A session from before the last change of the password or the role is gone
\* once the request that made the change has ended, unless it is the session
\* that changed the password.  Two sessions do outlive a password: one stored
\* after the change by a login verified before it, and every session of a rejected
\* account that is submitted again; later changes end them like any other.
\* (ChangePassword, ResetPassword, the role form)
SessionsEndWithChange ==
    cuts = 0 => \A t \in Tokens :
        LET s == session[t] IN
        (s # NoSession /\ s.since # epoch[s.user]) =>
            \E h \in Handlers : request[h].user = s.user /\ request[h].step = "sessions"

\* However requests with the same code overlap, fail or meet a newer code, a
\* code sets one password, and none before it is marked.  (UsePasswordReset)
CodeServesOnce ==
    \A c \in Codes : code[c].served <= 1 /\ (code[c].state = "fresh" => code[c].served = 0)

\* What is opened with a credential: the sessions that a change of password or
\* role has to end are ended, and a reset code sets one password.
CredentialsEnd == SessionsEndWithChange /\ CodeServesOnce
=============================================================================
