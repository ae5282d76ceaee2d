-------------------------- MODULE ResourceControl --------------------------
(***************************************************************************)
(* Admission of model requests (resourcecontrol.Controller) and the audit  *)
(* of what it refuses or would have refused.                               *)
(*                                                                         *)
(* A request asks for a lease under the controller's mutex.  Recording an  *)
(* event releases that mutex: the handler blocks on a bounded channel,     *)
(* wakes the audit goroutine, locks again and goes on with the policy it   *)
(* read before.  A lease counts as active until the handler returns and as *)
(* processing until its capture, if it has one, is saved by a goroutine    *)
(* that outlives the handler.  The audit goroutine drains the channel into *)
(* batches, writes each in one transaction, and retries the one that       *)
(* failed; at shutdown main flushes once more.                             *)
(***************************************************************************)
EXTENDS FiniteSets, Integers, Sequences

CONSTANTS
    Requests,      \* HTTP requests, each served once
    Users,         \* owners of the keys they carry
    Owner,         \* the owner of the key a request carries
    Large,         \* the requests that declare a body over the limit
    Policies,      \* policies the administrator switches between
    QueueSize,     \* capacity of the channel of events (256 in the code)
    BatchSize,     \* most events of one transaction (64)
    Backlog,       \* leases still processing allowed beyond the global limit (4)
    Monitored,     \* whether thresholds of CPU or memory are set
    MayStop,       \* whether the process is asked to stop
    MaxChanges,    \* bound: changes of policy and of pressure
    MaxFailures    \* bound: transactions that fail

ASSUME ConstantsAssumption ==
    /\ IsFiniteSet(Requests)
    /\ Owner \in [Requests -> Users]
    /\ Large \subseteq Requests
    /\ Policies # {}
    \* Policy.Validate; 0 disables a limit, "limited" is a body limit
    /\ Policies \subseteq [enforce : BOOLEAN, global : Nat, perUser : Nat, limited : BOOLEAN]
    /\ \A p \in Policies : p.global > 0 => p.perUser <= p.global
    /\ QueueSize \in Nat \ {0}
    /\ BatchSize \in Nat \ {0}
    /\ Backlog \in Nat
    /\ Monitored \in BOOLEAN
    /\ MayStop \in BOOLEAN
    /\ MaxChanges \in Nat
    /\ MaxFailures \in Nat

VARIABLES
    policy,        \* Controller.policy
    paused,        \* Controller.paused, or metrics that refuse by themselves
    active,        \* Controller.active
    processing,    \* Controller.processing
    users,         \* Controller.users, 0 for an absent user
    rejected,      \* Controller.rejected
    observed,      \* Controller.observed
    req,           \* what the handler of every request is doing
    queue,         \* Controller.events, the channel
    wake,          \* Controller.auditWake holds its token
    flusher,       \* the goroutine that holds flushMu
    flush,         \* where it is in FlushEvents
    pending,       \* Controller.pendingEvents
    log,           \* the resource rows of audit_logs
    audit,         \* the goroutine of runAudit
    main,          \* main.serve
    incomplete,    \* requests were cut off at shutdown, or its flush failed
    changes,       \* changes of policy and of pressure so far
    failures       \* failed transactions so far

counts == <<active, processing, users>>
events == <<rejected, observed, queue, wake>>
auditor == <<flusher, flush, pending, log, audit, failures>>
settings == <<policy, paused, changes>>
life == <<main, incomplete>>
vars == <<settings, counts, events, req, auditor, life>>

AdmissionReasons == {"request_too_large", "global_concurrency", "user_concurrency",
                     "capture_backlog", "pressure"}
Event == [request : Requests, reason : AdmissionReasons \cup {"body"}, observed : BOOLEAN]
Steps == {"new", "arrived", "send", "wake", "check", "admit", "serving",
          "release", "finish", "model_done", "done"}
\* A handler's locals: the policy it read, the event it is sending and where it
\* goes on afterwards, the capture that took its lease over, and the lease.
Request == [pc : Steps, policy : Policies, event : Event, next : Steps, noted : BOOLEAN,
            capture : {"none", "open", "saving", "finish", "saved"},
            leased : BOOLEAN, released : BOOLEAN, finished : BOOLEAN]

TypeOK ==
    /\ policy \in Policies /\ paused \in BOOLEAN
    /\ active \in Nat /\ processing \in Nat /\ users \in [Users -> Nat]
    /\ rejected \in Nat /\ observed \in Nat
    /\ req \in [Requests -> Request]
    /\ queue \in Seq(Event) /\ Len(queue) <= QueueSize
    /\ wake \in BOOLEAN
    /\ flusher \in {"none", "audit", "main"}
    /\ flush \in {"head", "fill", "write"}
    /\ pending \in Seq(Event) /\ Len(pending) <= BatchSize
    /\ log \in Seq(Event)
    /\ audit \in {"wait", "flush", "flushing", "retry", "sleep", "stopped"}
    /\ main \in {"serving", "draining", "flushing", "exited"}
    /\ incomplete \in BOOLEAN
    /\ changes \in 0..MaxChanges /\ failures \in 0..MaxFailures

New(r, p) ==
    [pc |-> "new", policy |-> p,
     event |-> [request |-> r, reason |-> "body", observed |-> FALSE], next |-> "done",
     noted |-> FALSE, capture |-> "none",
     leased |-> FALSE, released |-> FALSE, finished |-> FALSE]

Init ==
    /\ policy \in Policies /\ paused \in {FALSE, Monitored}
    /\ active = 0 /\ processing = 0 /\ users = [u \in Users |-> 0]
    /\ rejected = 0 /\ observed = 0
    /\ req = [r \in Requests |-> New(r, policy)]
    /\ queue = <<>> /\ wake = FALSE
    /\ flusher = "none" /\ flush = "head" /\ pending = <<>> /\ log = <<>>
    /\ audit = "wait" /\ main = "serving" /\ incomplete = FALSE
    /\ changes = 0 /\ failures = 0

-----------------------------------------------------------------------------
(* Admission.                                                              *)

ReasonOffByOne(p, u) ==
    IF p.global > 0 /\ active > p.global THEN "global_concurrency"
    ELSE IF p.perUser > 0 /\ users[u] > p.perUser THEN "user_concurrency"
    ELSE IF p.global > 0 /\ processing > p.global + Backlog THEN "capture_backlog"
    ELSE IF paused THEN "pressure"
    ELSE ""

\* A limit that is 0 is disabled; the order is that of the code.
Reason(p, u) ==
    IF p.global > 0 /\ active >= p.global THEN "global_concurrency"
    ELSE IF p.perUser > 0 /\ users[u] >= p.perUser THEN "user_concurrency"
    ELSE IF p.global > 0 /\ processing >= p.global + Backlog THEN "capture_backlog"
    ELSE IF paused THEN "pressure"
    ELSE ""

\* Count an event and unlock; the handler goes on at "next" once it is sent.
Record(r, reason, p, next) ==
    /\ IF p.enforce THEN rejected' = rejected + 1 /\ UNCHANGED observed
                    ELSE observed' = observed + 1 /\ UNCHANGED rejected
    /\ req' = [req EXCEPT ![r] = [@ EXCEPT !.pc = "send", !.next = next,
                 !.event = [request |-> r, reason |-> reason, observed |-> ~p.enforce],
                 !.policy = IF req[r].leased THEN req[r].policy ELSE p,
                 !.noted = (req[r].noted \/ reason = "body")]]
    /\ UNCHANGED <<queue, wake>>

Lease(r, p) ==
    /\ active' = active + 1
    /\ processing' = processing + 1
    /\ users' = [users EXCEPT ![Owner[r]] = @ + 1]
    /\ req' = [req EXCEPT ![r] = [@ EXCEPT !.pc = "serving", !.policy = p, !.leased = TRUE]]
    /\ UNCHANGED events

Check(r, p) ==
    LET reason == Reason(p, Owner[r]) IN
    \/ reason = "" /\ Lease(r, p)
    \/ reason # "" /\ Record(r, reason, p, IF p.enforce THEN "done" ELSE "admit")
                   /\ UNCHANGED counts

Arrive(r) ==
    /\ req[r].pc = "new" /\ main = "serving"
    /\ req' = [req EXCEPT ![r] = [@ EXCEPT !.pc = "arrived"]]
    /\ UNCHANGED <<settings, counts, events, auditor, life>>

AcquireRequest(r) ==
    /\ req[r].pc = "arrived"
    /\ \/ /\ policy.limited /\ r \in Large
          /\ Record(r, "request_too_large", policy, IF policy.enforce THEN "done" ELSE "check")
          /\ UNCHANGED counts
       \/ ~(policy.limited /\ r \in Large) /\ Check(r, policy)
    /\ UNCHANGED <<settings, auditor, life>>

\* Locked again after a send, with the policy read before it.
Recheck(r) ==
    /\ req[r].pc = "check" /\ Check(r, req[r].policy)
    /\ UNCHANGED <<settings, auditor, life>>

AdmitObserved(r) ==
    /\ req[r].pc = "admit" /\ Lease(r, req[r].policy)
    /\ UNCHANGED <<settings, auditor, life>>

\* c.events <- e, outside the mutex: blocks while the channel is full.
Send(r) ==
    /\ req[r].pc = "send" /\ Len(queue) < QueueSize
    /\ queue' = Append(queue, req[r].event)
    /\ req' = [req EXCEPT ![r] = [@ EXCEPT !.pc = "wake"]]
    /\ UNCHANGED <<settings, counts, rejected, observed, wake, auditor, life>>

WakeWithoutToken(r) ==
    /\ req[r].pc = "wake"
    /\ req' = [req EXCEPT ![r] = [@ EXCEPT !.pc = req[r].next]]
    /\ UNCHANGED <<settings, counts, events, auditor, life>>

Wake(r) ==
    /\ req[r].pc = "wake"
    /\ wake' = TRUE
    /\ req' = [req EXCEPT ![r] = [@ EXCEPT !.pc = req[r].next]]
    /\ UNCHANGED <<settings, counts, rejected, observed, queue, auditor, life>>

-----------------------------------------------------------------------------
(* The lease while the handler and the saving of its capture run.          *)

\* The capture takes the lease over; a body refused on the way in never gets here.
StartCapture(r) ==
    /\ req[r].pc = "serving" /\ req[r].capture = "none"
    /\ ~(req[r].policy.enforce /\ req[r].noted)
    /\ req' = [req EXCEPT ![r] = [@ EXCEPT !.capture = "open"]]
    /\ UNCHANGED <<settings, counts, events, auditor, life>>

RecordBodyUnderCurrentPolicy(r) ==
    /\ req[r].pc = "serving" /\ req[r].policy.limited /\ ~req[r].noted
    /\ Record(r, "body", policy, "serving")
    /\ UNCHANGED <<settings, counts, auditor, life>>

\* A body or a websocket message over the limit, labelled by the lease's policy.
RecordBody(r) ==
    /\ req[r].pc = "serving" /\ req[r].policy.limited /\ ~req[r].noted
    /\ req[r].policy.enforce => req[r].capture = "none"
    /\ ~req[r].policy.enforce => r \notin Large
    /\ Record(r, "body", req[r].policy, "serving")
    /\ UNCHANGED <<settings, counts, auditor, life>>

ReturnIgnoringTransfer(r) ==
    /\ req[r].pc = "serving"
    /\ req' = [req EXCEPT ![r] = [@ EXCEPT !.pc = "release",
                 !.capture = IF req[r].capture = "open" THEN "saving" ELSE "none"]]
    /\ UNCHANGED <<settings, counts, events, auditor, life>>

\* The deferred calls: Finish unless a capture took the lease, then ModelDone.
Return(r) ==
    /\ req[r].pc = "serving"
    /\ IF req[r].capture = "open"
       THEN req' = [req EXCEPT ![r] = [@ EXCEPT !.capture = "saving", !.pc = "model_done"]]
       ELSE req' = [req EXCEPT ![r] = [@ EXCEPT !.pc = "release"]]
    /\ UNCHANGED <<settings, counts, events, auditor, life>>

ModelDoneTwice(r) ==
    active' = active - 1 /\ users' = [users EXCEPT ![Owner[r]] = @ - 1]
ModelDoneKeepsUser(r) ==
    active' = (IF req[r].released THEN active ELSE active - 1) /\ UNCHANGED users

\* onceModel: the first call alone gives the slot back.
ModelDone(r) ==
    IF req[r].released THEN UNCHANGED <<active, users>>
    ELSE /\ active' = active - 1
         /\ users' = [users EXCEPT ![Owner[r]] = @ - 1]
Processed(r) == processing' = IF req[r].finished THEN processing ELSE processing - 1

Release(r) ==
    /\ req[r].pc = "release"
    /\ ModelDone(r)
    /\ req' = [req EXCEPT ![r] = [@ EXCEPT !.pc = "finish", !.released = TRUE]]
    /\ UNCHANGED <<settings, processing, events, auditor, life>>

Finish(r) ==
    /\ req[r].pc = "finish"
    /\ Processed(r)
    /\ req' = [req EXCEPT ![r] = [@ EXCEPT !.pc = "model_done", !.finished = TRUE]]
    /\ UNCHANGED <<settings, active, users, events, auditor, life>>

LastModelDone(r) ==
    /\ req[r].pc = "model_done"
    /\ ModelDone(r)
    /\ req' = [req EXCEPT ![r] = [@ EXCEPT !.pc = "done", !.released = TRUE]]
    /\ UNCHANGED <<settings, processing, events, auditor, life>>

\* The goroutine that saves the capture ends with the same Finish.
SavedRelease(r) ==
    /\ req[r].capture = "saving"
    /\ ModelDone(r)
    /\ req' = [req EXCEPT ![r] = [@ EXCEPT !.capture = "finish", !.released = TRUE]]
    /\ UNCHANGED <<settings, processing, events, auditor, life>>

SavedFinish(r) ==
    /\ req[r].capture = "finish"
    /\ Processed(r)
    /\ req' = [req EXCEPT ![r] = [@ EXCEPT !.capture = "saved", !.finished = TRUE]]
    /\ UNCHANGED <<settings, active, users, events, auditor, life>>

-----------------------------------------------------------------------------
(* The settings and the monitor.                                           *)

\* It ends a pause; metrics too old or over the new limit may still refuse.
SetPolicy ==
    /\ changes < MaxChanges
    /\ \E p \in Policies \ {policy} : policy' = p
    /\ paused' \in {FALSE, Monitored}
    /\ changes' = changes + 1
    /\ UNCHANGED <<counts, events, req, auditor, life>>

\* UpdateMetrics, and the age of its last sample.
Monitor ==
    /\ Monitored /\ changes < MaxChanges
    /\ paused' = ~paused
    /\ changes' = changes + 1
    /\ UNCHANGED <<policy, counts, events, req, auditor, life>>

-----------------------------------------------------------------------------
(* FlushEvents, by the holder of flushMu.                                  *)

Cancelled == flusher = "audit" /\ main # "serving"

FlushStart == flusher' \in {"audit", "main"} /\ flusher = "none" /\ flush' = "head"

FlushReturn ==
    /\ flusher' = "none" /\ flush' = "head"
    /\ audit' = IF flusher = "audit" THEN "retry" ELSE audit
    /\ main' = IF flusher = "main" THEN "exited" ELSE main

FlushHead ==
    /\ flusher # "none" /\ flush = "head"
    /\ \/ /\ Cancelled /\ FlushReturn
       \/ /\ ~Cancelled
          /\ flush' = IF pending = <<>> THEN "fill" ELSE "write"
          /\ UNCHANGED <<flusher, audit, main>>
    /\ UNCHANGED <<settings, counts, events, req, pending, log, failures, incomplete>>

Fill ==
    /\ flush = "fill" /\ Len(pending) < BatchSize /\ queue # <<>>
    /\ pending' = Append(pending, Head(queue))
    /\ queue' = Tail(queue)
    /\ UNCHANGED <<settings, counts, rejected, observed, wake, req, flusher, flush, log,
                   audit, failures, life>>

Drained ==
    /\ flush = "fill" /\ (Len(pending) = BatchSize \/ queue = <<>>)
    /\ IF pending = <<>> THEN FlushReturn
       ELSE flush' = "write" /\ UNCHANGED <<flusher, audit, main>>
    /\ UNCHANGED <<settings, counts, events, req, pending, log, failures, incomplete>>

WriteOKKeepsBatch ==
    /\ flush = "write" /\ Len(log) < 9
    /\ log' = log \o pending
    /\ flush' = "head"
    /\ UNCHANGED <<settings, counts, events, req, pending, flusher, audit, failures, life>>

WriteOKReturns ==
    /\ flush = "write"
    /\ log' = log \o pending
    /\ pending' = <<>>
    /\ FlushReturn
    /\ UNCHANGED <<settings, counts, events, req, failures, incomplete>>

\* One transaction: the whole batch or nothing.
WriteOK ==
    /\ flush = "write"
    /\ log' = log \o pending
    /\ pending' = <<>>
    /\ flush' = "head"
    /\ UNCHANGED <<settings, counts, events, req, flusher, audit, failures, life>>

WriteFailsDropsBatch ==
    /\ flush = "write" /\ failures < MaxFailures
    /\ failures' = failures + 1
    /\ pending' = <<>>
    /\ incomplete' = (incomplete \/ flusher = "main")
    /\ FlushReturn
    /\ UNCHANGED <<settings, counts, events, req, log>>

WriteFails ==
    /\ flush = "write"
    /\ Cancelled \/ failures < MaxFailures
    /\ failures' = IF Cancelled THEN failures ELSE failures + 1
    /\ incomplete' = (incomplete \/ flusher = "main")
    /\ FlushReturn
    /\ UNCHANGED <<settings, counts, events, req, pending, log>>

-----------------------------------------------------------------------------
(* runAudit, and the end of main.serve.                                    *)

AuditWake ==
    /\ audit = "wait" /\ wake
    /\ wake' = FALSE
    /\ audit' = "flush"
    /\ UNCHANGED <<settings, counts, rejected, observed, queue, req, flusher, flush, pending,
                   log, failures, life>>

AuditFlush ==
    /\ audit = "flush" /\ FlushStart /\ flusher' = "audit"
    /\ audit' = "flushing"
    /\ UNCHANGED <<settings, counts, events, req, pending, log, failures, life>>

AuditRetryIgnoringPending ==
    /\ audit = "retry" /\ flusher = "none"
    /\ audit' = "wait"
    /\ UNCHANGED <<settings, counts, events, req, flusher, flush, pending, log, failures, life>>

AuditRetry ==
    /\ audit = "retry" /\ flusher = "none"
    /\ audit' = IF pending = <<>> THEN "wait" ELSE "sleep"
    /\ UNCHANGED <<settings, counts, events, req, flusher, flush, pending, log, failures, life>>

AuditTimer ==
    /\ audit = "sleep"
    /\ audit' = "flush"
    /\ UNCHANGED <<settings, counts, events, req, flusher, flush, pending, log, failures, life>>

AuditStops ==
    /\ audit \in {"wait", "sleep"} /\ main # "serving"
    /\ audit' = "stopped"
    /\ UNCHANGED <<settings, counts, events, req, flusher, flush, pending, log, failures, life>>

Stop ==
    /\ MayStop /\ main = "serving"
    /\ main' = "draining"
    /\ UNCHANGED <<settings, counts, events, req, auditor, incomplete>>

Quiet(r) == req[r].pc \in {"new", "done"} /\ req[r].capture \in {"none", "saved"}

\* Shutdown and WaitCaptures end, or their deadline, or a failed listener, or a
\* hijacked websocket nobody waits for, cuts requests off; then the last flush.
FinalFlush ==
    /\ main = "draining" /\ FlushStart /\ flusher' = "main"
    /\ main' = "flushing"
    /\ incomplete' = (\E r \in Requests : ~Quiet(r))
    /\ UNCHANGED <<settings, counts, events, req, pending, log, audit, failures>>

\* The process has exited, or there is no more request to serve.
Rest ==
    /\ \/ main = "exited"
       \/ main = "serving" /\ audit = "wait" /\ ~wake /\ \A r \in Requests : Quiet(r)
    /\ UNCHANGED vars

Handler(r) ==
    \/ AcquireRequest(r) \/ Recheck(r) \/ AdmitObserved(r) \/ Send(r) \/ Wake(r)
    \/ Return(r) \/ Release(r) \/ Finish(r) \/ LastModelDone(r)
Saver(r) == SavedRelease(r) \/ SavedFinish(r)
Flush == FlushHead \/ Fill \/ Drained \/ WriteOK \/ WriteFails
Auditor == AuditWake \/ AuditFlush \/ AuditRetry \/ AuditTimer \/ AuditStops

Running ==
    \/ \E r \in Requests : Arrive(r) \/ Handler(r) \/ StartCapture(r) \/ RecordBody(r) \/ Saver(r)
    \/ SetPolicy \/ Monitor
    \/ Flush \/ Auditor
    \/ Stop \/ FinalFlush

Next == (main # "exited" /\ Running) \/ Rest

Spec == Init /\ [][Next]_vars

\* Goroutines run, the timer fires, and a handler ends (its client leaves or CPA answers).
FairSpec ==
    /\ Spec
    /\ \A r \in Requests : WF_vars(Handler(r)) /\ WF_vars(Saver(r))
    /\ WF_vars(Flush) /\ WF_vars(Auditor)

-----------------------------------------------------------------------------
(* Properties.                                                             *)

Live == {r \in Requests : req[r].leased /\ ~req[r].released}
LiveOf(u) == {r \in Live : Owner[r] = u}
Unfinished == {r \in Requests : req[r].leased /\ ~req[r].finished}

\* The counters are the leases that are out: whatever ends first, the handler
\* or the saving of its capture, a slot is given back once and never twice.
LeasesCounted ==
    /\ active = Cardinality(Live)
    /\ processing = Cardinality(Unfinished)
    /\ \A u \in Users : users[u] = Cardinality(LiveOf(u))

\* A lease lasts as long as its work: it counts as active while the handler runs
\* and as processing until the capture is saved, and not a moment once both ended.
LeasesLastAsLongAsWork ==
    \A r \in Requests :
        /\ req[r].pc = "serving" => r \in Live
        /\ req[r].capture \in {"open", "saving"} => r \in Unfinished
        /\ Quiet(r) => r \notin Live /\ r \notin Unfinished

\* While protection is enforced, under whichever of the policies, no admission
\* goes past the limits although the mutex is released to record an event.
WithinLimits ==
    (\A p \in Policies : p.enforce /\ p.global > 0 /\ p.perUser > 0) =>
        /\ \E p \in Policies : active <= p.global
        /\ \E p \in Policies : processing <= p.global + Backlog
        /\ \A u \in Users : \E p \in Policies : users[u] <= p.perUser

Sending == {r \in Requests : req[r].pc = "send"}
\* Every counted event is in exactly as many places: still with its handler, in
\* the channel, in the batch being written or in the log.
EventsCounted ==
    rejected + observed = Cardinality(Sending) + Len(queue) + Len(pending) + Len(log)

Elements(s) == {s[i] : i \in DOMAIN s}
Recorded == {req[r].event : r \in Sending} \cup Elements(queue) \cup Elements(pending)
                                          \cup Elements(log)
\* The distinct events found there are as many as were counted, rejected and
\* observed apart: a batch that fails is kept, and no event is relabelled.
NoEventLost ==
    /\ rejected = Cardinality({e \in Recorded : ~e.observed})
    /\ observed = Cardinality({e \in Recorded : e.observed})

\* The log tells what happened: a rejected admission was never served, and what
\* a lease records keeps the mode it was admitted under, whatever is set later.
LogTellsOutcome ==
    \A e \in Recorded : LET r == req[e.request] IN
        /\ e.reason = "body" => r.leased /\ e.observed = ~r.policy.enforce
        /\ e.reason # "body" /\ ~e.observed => ~r.leased
        /\ e.reason # "body" /\ e.observed => r.leased \/ r.pc # "done"

\* The audit goroutine never sleeps on its wake channel over work to do: a batch
\* that failed keeps it awake, and an event in the channel has a token or a
\* sender that is about to leave one.
NoLostWakeup ==
    main = "serving" /\ audit = "wait" /\ ~wake =>
        /\ pending = <<>>
        /\ queue # <<>> => \E r \in Requests : req[r].pc = "wake"

\* A shutdown that had the time to wait for its handlers and whose last flush
\* succeeded leaves nothing behind.
NothingLostAtExit ==
    main = "exited" /\ ~incomplete => Len(log) = rejected + observed

\* Full channel, failing transactions, lost races for the token: no handler is
\* blocked for ever with an event that was counted, and each is written.  (Of
\* finitely many requests, so that the log catches up.)
EventWritten == []<>(Len(log) = rejected + observed)

\* Every request that arrived gives back all it took.
LeasesEnd == []<>(\A r \in Requests : req[r].pc # "new" => Quiet(r))

-----------------------------------------------------------------------------
(* The inductive invariant of the proofs.                                  *)

\* Where a handler is tells what it holds; only a request that is merely observed
\* goes on after an event was recorded for it.
Pending(q) == q.pc \in {"send", "wake"}
FitsLease(q) ==
    /\ q.released => q.leased
    /\ q.finished => q.released
    /\ ~q.leased => q.capture = "none"
    /\ q.pc \in {"new", "arrived", "check", "admit"} => ~q.leased
    /\ Pending(q) => /\ q.next \in {"done", "check", "admit", "serving"}
                     /\ (q.leased <=> q.next = "serving")
                     /\ q.leased => ~q.released
                     /\ q.next \in {"check", "admit"} => ~q.policy.enforce
    /\ q.pc \in {"check", "admit"} => ~q.policy.enforce
    /\ q.pc \in {"serving", "release", "finish", "model_done"} => q.leased
    /\ q.pc \in {"send", "wake", "serving"} => q.capture \in {"none", "open"}
    /\ q.pc = "serving" => ~q.released
    /\ q.pc = "release" => q.capture = "none" /\ ~q.released
    /\ q.pc = "finish" => q.capture = "none" /\ q.released /\ ~q.finished
    /\ q.pc \in {"model_done", "done"} => q.capture # "open"
    /\ q.pc \in {"model_done", "done"} /\ q.leased /\ q.capture = "none" => q.finished
    /\ q.pc = "done" /\ q.leased => q.released
    /\ q.capture \in {"saving", "finish", "saved"} => q.pc \in {"model_done", "done"}
    /\ q.capture \in {"open", "saving"} => ~q.finished
    /\ q.capture = "finish" => q.released /\ ~q.finished
    /\ q.capture = "saved" => q.finished
LeaseControl == \A r \in Requests : FitsLease(req[r])

FlushControl ==
    /\ flusher = "audit" <=> audit = "flushing"
    /\ flusher = "main" <=> main = "flushing"
    /\ flusher = "none" => flush = "head"
    /\ flush = "write" => pending # <<>>
    /\ audit = "wait" /\ main = "serving" => pending = <<>>

\* An event in the channel has a token, a sender about to leave one, or an
\* auditor that will look at the channel again before it waits.
EventIsSeen ==
    main = "serving" /\ queue # <<>> =>
        \/ wake \/ \E r \in Requests : req[r].pc = "wake"
        \/ audit \in {"flush", "flushing", "sleep"}
        \/ audit = "retry" /\ pending # <<>>

ExitControl ==
    /\ main \in {"flushing", "exited"} /\ ~incomplete => \A r \in Requests : Quiet(r)
    /\ main = "exited" /\ ~incomplete => queue = <<>> /\ pending = <<>>

IInv ==
    /\ TypeOK
    /\ LeaseControl
    /\ LeasesCounted
    /\ WithinLimits
    /\ EventsCounted
    /\ FlushControl
    /\ EventIsSeen
    /\ ExitControl

\* What the events say of their requests: one that was refused ends, one that was
\* observed goes on, and a body is noted once, under the policy of its lease.
GoesTo(q, label) == q.pc = label \/ (Pending(q) /\ q.next = label)
FitsEvent(e, q) ==
    /\ q.pc \notin {"new", "arrived"}
    /\ GoesTo(q, "check") => e.reason = "request_too_large"
    /\ e.reason = "body" => q.noted /\ q.leased /\ e.observed = ~q.policy.enforce
    /\ e.reason # "body" /\ ~e.observed => GoesTo(q, "done") /\ ~q.leased
    /\ e.reason # "body" /\ e.observed =>
           q.leased \/ GoesTo(q, "check") \/ GoesTo(q, "admit")
EventsFit == \A e \in Recorded : FitsEvent(e, req[e.request])

EventInv ==
    /\ IInv
    /\ Recorded \subseteq Event /\ IsFiniteSet(Recorded)
    /\ EventsFit
    /\ NoEventLost

=============================================================================
