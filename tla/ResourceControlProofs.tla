----------------------- MODULE ResourceControlProofs -----------------------
(* Proofs about ResourceControl, for every value of its constants.         *)
EXTENDS ResourceControl, FiniteSetTheorems, TLAPS

\* The bounds are numbers.
LEMMA Sizes ==
    /\ QueueSize \in Nat \ {0} /\ BatchSize \in Nat \ {0} /\ Backlog \in Nat
    /\ MaxChanges \in Nat /\ MaxFailures \in Nat /\ Monitored \in BOOLEAN
BY ConstantsAssumption

\* The initial state has its types.
LEMMA InitTypeOK == ASSUME Init PROVE TypeOK
<1>1. ASSUME NEW r \in Requests PROVE New(r, policy) \in Request
  BY DEF Init, New, Request, Event, Steps
<1>2. req \in [Requests -> Request] BY <1>1 DEF Init
<1>3. /\ <<>> \in Seq(Event) /\ Len(<<>>) = 0 OBVIOUS
<1>4. 0 \in 0..MaxChanges /\ 0 \in 0..MaxFailures /\ 0 <= QueueSize /\ 0 <= BatchSize
  BY Sizes
<1> QED BY <1>2, <1>3, <1>4, Sizes DEF Init, TypeOK

(* One lemma for each way a handler's record changes: the new record has    *)
(* its type and fits where the handler now is.                             *)

\* A handler that starts holds nothing yet.
LEMMA ShapeArrive ==
    ASSUME NEW q \in Request, FitsLease(q), q.pc = "new"
    PROVE  LET n == [q EXCEPT !.pc = "arrived"] IN n \in Request /\ FitsLease(n)
BY DEF Request, FitsLease, Pending, Steps

\* An event is recorded, before a lease or for one.
LEMMA ShapeRecord ==
    ASSUME NEW q \in Request, FitsLease(q), q.pc \in {"arrived", "check", "serving"},
           NEW next \in {"done", "check", "admit", "serving"},
           q.leased = (next = "serving"),
           NEW e \in Event, NEW p \in Policies, NEW b \in BOOLEAN,
           next \in {"check", "admit"} => ~p.enforce
    PROVE  LET n == [q EXCEPT !.pc = "send", !.next = next, !.event = e, !.policy = p,
                              !.noted = b]
           IN  n \in Request /\ FitsLease(n)
BY ZenonT(60) DEF Request, FitsLease, Pending, Steps

\* A lease is taken.
LEMMA ShapeLease ==
    ASSUME NEW q \in Request, FitsLease(q), q.pc \in {"arrived", "check", "admit"},
           NEW p \in Policies
    PROVE  LET n == [q EXCEPT !.pc = "serving", !.policy = p, !.leased = TRUE]
           IN  n \in Request /\ FitsLease(n)
BY DEF Request, FitsLease, Pending, Steps

\* The event is in the channel.
LEMMA ShapeSend ==
    ASSUME NEW q \in Request, FitsLease(q), q.pc = "send"
    PROVE  LET n == [q EXCEPT !.pc = "wake"] IN n \in Request /\ FitsLease(n)
BY DEF Request, FitsLease, Pending, Steps

\* The token is left, and the handler goes on where it meant to.
LEMMA ShapeWake ==
    ASSUME NEW q \in Request, FitsLease(q), q.pc = "wake"
    PROVE  LET n == [q EXCEPT !.pc = q.next] IN n \in Request /\ FitsLease(n)
BY DEF Request, FitsLease, Pending, Steps

\* A capture takes the lease over.
LEMMA ShapeCapture ==
    ASSUME NEW q \in Request, FitsLease(q), q.pc = "serving", q.capture = "none"
    PROVE  LET n == [q EXCEPT !.capture = "open"] IN n \in Request /\ FitsLease(n)
BY DEF Request, FitsLease, Pending, Steps

\* The handler returns and leaves the lease to the saving of its capture.
LEMMA ShapeReturnSaving ==
    ASSUME NEW q \in Request, FitsLease(q), q.pc = "serving", q.capture = "open"
    PROVE  LET n == [q EXCEPT !.capture = "saving", !.pc = "model_done"]
           IN  n \in Request /\ FitsLease(n)
BY DEF Request, FitsLease, Pending, Steps

\* The handler returns with the lease still its own.
LEMMA ShapeReturn ==
    ASSUME NEW q \in Request, FitsLease(q), q.pc = "serving", q.capture # "open"
    PROVE  LET n == [q EXCEPT !.pc = "release"] IN n \in Request /\ FitsLease(n)
BY DEF Request, FitsLease, Pending, Steps

\* The deferred Finish gives the active slot back first.
LEMMA ShapeRelease ==
    ASSUME NEW q \in Request, FitsLease(q), q.pc = "release"
    PROVE  LET n == [q EXCEPT !.pc = "finish", !.released = TRUE]
           IN  n \in Request /\ FitsLease(n)
BY DEF Request, FitsLease, Pending, Steps

\* Then it ends the processing.
LEMMA ShapeFinish ==
    ASSUME NEW q \in Request, FitsLease(q), q.pc = "finish"
    PROVE  LET n == [q EXCEPT !.pc = "model_done", !.finished = TRUE]
           IN  n \in Request /\ FitsLease(n)
BY DEF Request, FitsLease, Pending, Steps

\* The deferred ModelDone comes last.
LEMMA ShapeLast ==
    ASSUME NEW q \in Request, FitsLease(q), q.pc = "model_done"
    PROVE  LET n == [q EXCEPT !.pc = "done", !.released = TRUE]
           IN  n \in Request /\ FitsLease(n)
BY DEF Request, FitsLease, Pending, Steps

\* The saver does what the deferred Finish does: first the active slot.
LEMMA ShapeSavedRelease ==
    ASSUME NEW q \in Request, FitsLease(q), q.capture = "saving"
    PROVE  LET n == [q EXCEPT !.capture = "finish", !.released = TRUE]
           IN  n \in Request /\ FitsLease(n)
BY DEF Request, FitsLease, Pending, Steps

\* Then the end of the processing.
LEMMA ShapeSavedFinish ==
    ASSUME NEW q \in Request, FitsLease(q), q.capture = "finish"
    PROVE  LET n == [q EXCEPT !.capture = "saved", !.finished = TRUE]
           IN  n \in Request /\ FitsLease(n)
BY DEF Request, FitsLease, Pending, Steps

-----------------------------------------------------------------------------
(* The counters.                                                           *)

\* The sets of leases are finite, before and after a step.
LEMMA LeaseSetsFinite ==
    /\ IsFiniteSet(Live) /\ IsFiniteSet(Unfinished)
    /\ IsFiniteSet(Live') /\ IsFiniteSet(Unfinished')
    /\ \A u \in Users : IsFiniteSet(LiveOf(u)) /\ IsFiniteSet(LiveOf(u)')
<1>1. IsFiniteSet(Requests) BY ConstantsAssumption
<1>2. /\ Live \subseteq Requests /\ Unfinished \subseteq Requests
      /\ Live' \subseteq Requests /\ Unfinished' \subseteq Requests
      /\ \A u \in Users : LiveOf(u) \subseteq Requests /\ LiveOf(u)' \subseteq Requests
  BY DEF Live, Unfinished, LiveOf
<1> QED BY <1>1, <1>2, FS_Subset

\* Counters that count sets of leases are naturals: none is ever decremented below 0.
LEMMA CountsAreTyped ==
    ASSUME LeasesCounted', users' \in [Users -> Int]
    PROVE  active' \in Nat /\ processing' \in Nat /\ users' \in [Users -> Nat]
<1>1. /\ Cardinality(Live') \in Nat /\ Cardinality(Unfinished') \in Nat
      /\ \A u \in Users : Cardinality(LiveOf(u)') \in Nat
  BY LeaseSetsFinite, FS_CardinalityType
<1> QED BY <1>1 DEF LeasesCounted

\* A step that touches no lease.
LEMMA CountSame ==
    ASSUME TypeOK, LeasesCounted, NEW r \in Requests, NEW n \in Request,
           req' = [req EXCEPT ![r] = n], UNCHANGED counts,
           n.leased = req[r].leased, n.released = req[r].released, n.finished = req[r].finished
    PROVE  LeasesCounted'
<1>1. \A q \in Requests : /\ req'[q].leased = req[q].leased
                          /\ req'[q].released = req[q].released
                          /\ req'[q].finished = req[q].finished
  BY DEF TypeOK
<1>2. Live' = Live /\ Unfinished' = Unfinished /\ \A u \in Users : LiveOf(u)' = LiveOf(u)
  BY <1>1 DEF Live, Unfinished, LiveOf
<1> QED BY <1>2 DEF LeasesCounted, counts

\* Taking a lease adds one to the three counters it is counted in.
LEMMA CountLease ==
    ASSUME TypeOK, LeasesCounted, NEW r \in Requests, NEW n \in Request,
           req' = [req EXCEPT ![r] = n],
           ~req[r].leased, n.leased, ~n.released, ~n.finished,
           active' = active + 1, processing' = processing + 1,
           users' = [users EXCEPT ![Owner[r]] = @ + 1]
    PROVE  LeasesCounted' /\ users' \in [Users -> Int]
<1>1. \A q \in Requests : q # r => req'[q] = req[q]
  BY DEF TypeOK
<1>2. req'[r] = n BY DEF TypeOK
<1>3. r \notin Live /\ r \notin Unfinished /\ r \notin LiveOf(Owner[r])
  BY DEF Live, Unfinished, LiveOf
<1>4. Live' = Live \cup {r} /\ Unfinished' = Unfinished \cup {r}
  BY <1>1, <1>2 DEF Live, Unfinished
<1>5. LiveOf(Owner[r])' = LiveOf(Owner[r]) \cup {r}
  BY <1>4 DEF LiveOf
<1>6. \A u \in Users : u # Owner[r] => LiveOf(u)' = LiveOf(u)
  BY <1>4 DEF LiveOf
<1>7. Owner[r] \in Users BY ConstantsAssumption
<1>8. /\ Cardinality(Live') = Cardinality(Live) + 1
      /\ Cardinality(Unfinished') = Cardinality(Unfinished) + 1
      /\ Cardinality(LiveOf(Owner[r])') = Cardinality(LiveOf(Owner[r])) + 1
  BY <1>3, <1>4, <1>5, <1>7, LeaseSetsFinite, FS_AddElement
<1>9. ASSUME NEW u \in Users PROVE users'[u] = Cardinality(LiveOf(u)')
  <2>1. CASE u = Owner[r] BY <1>7, <1>8, <2>1 DEF LeasesCounted, TypeOK
  <2>2. CASE u # Owner[r] BY <1>6, <2>2 DEF LeasesCounted, TypeOK
  <2> QED BY <2>1, <2>2
<1>10. users' \in [Users -> Int] BY <1>7 DEF TypeOK
<1> QED BY <1>8, <1>9, <1>10 DEF LeasesCounted

\* ModelDone takes the lease out of the live ones once, whoever calls it first.
LEMMA CountRelease ==
    ASSUME TypeOK, LeasesCounted, NEW r \in Requests, NEW n \in Request,
           req' = [req EXCEPT ![r] = n], req[r].leased,
           n.leased, n.released, n.finished = req[r].finished,
           ModelDone(r), processing' = processing
    PROVE  LeasesCounted' /\ users' \in [Users -> Int]
<1>1. \A q \in Requests : q # r => req'[q] = req[q]
  BY DEF TypeOK
<1>2. req'[r] = n BY DEF TypeOK
<1>3. Unfinished' = Unfinished BY <1>1, <1>2 DEF Unfinished
<1>4. Live' = Live \ {r} BY <1>1, <1>2 DEF Live
<1>5. LiveOf(Owner[r])' = LiveOf(Owner[r]) \ {r}
  BY <1>4 DEF LiveOf
<1>6. \A u \in Users : u # Owner[r] => LiveOf(u)' = LiveOf(u)
  BY <1>4 DEF LiveOf
<1>7. Owner[r] \in Users BY ConstantsAssumption
<1>8. CASE req[r].released
  <2>1. r \notin Live /\ r \notin LiveOf(Owner[r]) BY <1>8 DEF Live, LiveOf
  <2>2. Live' = Live /\ LiveOf(Owner[r])' = LiveOf(Owner[r]) BY <2>1, <1>4, <1>5
  <2>3. active' = active /\ users' = users BY <1>8 DEF ModelDone
  <2>4. \A u \in Users : LiveOf(u)' = LiveOf(u) BY <2>2, <1>6
  <2>5. users \in [Users -> Int] BY DEF TypeOK
  <2> QED BY <1>3, <2>2, <2>3, <2>4, <2>5 DEF LeasesCounted
<1>9. CASE ~req[r].released
  <2>1. r \in Live /\ r \in LiveOf(Owner[r]) BY <1>9 DEF Live, LiveOf
  <2>2. /\ Cardinality(Live') = Cardinality(Live) - 1
        /\ Cardinality(LiveOf(Owner[r])') = Cardinality(LiveOf(Owner[r])) - 1
    BY <2>1, <1>4, <1>5, <1>7, LeaseSetsFinite, FS_RemoveElement
  <2>3. active' = active - 1 /\ users' = [users EXCEPT ![Owner[r]] = @ - 1]
    BY <1>9 DEF ModelDone
  <2>4. ASSUME NEW u \in Users PROVE users'[u] = Cardinality(LiveOf(u)')
    <3>1. CASE u = Owner[r] BY <1>7, <2>2, <2>3, <3>1 DEF LeasesCounted, TypeOK
    <3>2. CASE u # Owner[r] BY <1>6, <2>3, <3>2 DEF LeasesCounted, TypeOK
    <3> QED BY <3>1, <3>2
  <2>5. users' \in [Users -> Int] BY <1>7, <2>3 DEF TypeOK
  <2> QED BY <1>3, <2>2, <2>3, <2>4, <2>5 DEF LeasesCounted
<1> QED BY <1>8, <1>9

\* Finish takes the lease out of the unfinished ones.
LEMMA CountFinish ==
    ASSUME TypeOK, LeasesCounted, NEW r \in Requests, NEW n \in Request,
           req' = [req EXCEPT ![r] = n], req[r].leased, ~req[r].finished,
           n.leased, n.released = req[r].released, n.finished,
           Processed(r), UNCHANGED <<active, users>>
    PROVE  LeasesCounted'
<1>1. \A q \in Requests : q # r => req'[q] = req[q]
  BY DEF TypeOK
<1>2. req'[r] = n BY DEF TypeOK
<1>3. Live' = Live BY <1>1, <1>2 DEF Live
<1>4. \A u \in Users : LiveOf(u)' = LiveOf(u) BY <1>3 DEF LiveOf
<1>5. Unfinished' = Unfinished \ {r} /\ r \in Unfinished
  BY <1>1, <1>2 DEF Unfinished
<1>6. Cardinality(Unfinished') = Cardinality(Unfinished) - 1
  BY <1>5, LeaseSetsFinite, FS_RemoveElement
<1>7. processing' = processing - 1 BY DEF Processed
<1> QED BY <1>3, <1>4, <1>6, <1>7 DEF LeasesCounted

-----------------------------------------------------------------------------
(* The limits.                                                             *)

\* What the code validates of a policy.
LEMMA PolicyType ==
    ASSUME NEW p \in Policies
    PROVE  p.enforce \in BOOLEAN /\ p.global \in Nat /\ p.perUser \in Nat
BY ConstantsAssumption

\* One more than a number under the limit is within the limit.
LEMMA Below ==
    ASSUME NEW a \in Nat, NEW g \in Nat, ~(a >= g)
    PROVE  a + 1 <= g
OBVIOUS

\* Counters that only fall stay within the limits.
LEMMA LimitsFall ==
    ASSUME TypeOK, WithinLimits,
           active' \in Int, processing' \in Int, users' \in [Users -> Int],
           active' <= active, processing' <= processing,
           \A u \in Users : users'[u] <= users[u]
    PROVE  WithinLimits'
<1> SUFFICES ASSUME \A p \in Policies : p.enforce /\ p.global > 0 /\ p.perUser > 0
             PROVE  /\ \E p \in Policies : active' <= p.global
                    /\ \E p \in Policies : processing' <= p.global + Backlog
                    /\ \A u \in Users : \E p \in Policies : users'[u] <= p.perUser
  BY DEF WithinLimits
<1> USE PolicyType
<1>1. \E p \in Policies : active' <= p.global
  <2>1. PICK p \in Policies : active <= p.global BY DEF WithinLimits
  <2>2. p.global \in Nat OBVIOUS
  <2> QED BY <2>1, <2>2 DEF TypeOK
<1>2. \E p \in Policies : processing' <= p.global + Backlog
  <2>1. PICK p \in Policies : processing <= p.global + Backlog BY DEF WithinLimits
  <2>2. p.global \in Nat /\ Backlog \in Nat BY PolicyType, Sizes
  <2> QED BY <2>1, <2>2 DEF TypeOK
<1>3. ASSUME NEW u \in Users PROVE \E p \in Policies : users'[u] <= p.perUser
  <2>1. PICK p \in Policies : users[u] <= p.perUser BY DEF WithinLimits
  <2>2. users[u] \in Nat /\ users'[u] \in Int BY DEF TypeOK
  <2>3. p.perUser \in Nat OBVIOUS
  <2> QED BY <2>1, <2>2, <2>3
<1> QED BY <1>1, <1>2, <1>3

\* The policy that admits is one of the policies, and its limits were read in
\* the step that counts the lease.
LEMMA LimitsLease ==
    ASSUME TypeOK, WithinLimits, NEW r \in Requests, NEW p \in Policies,
           p.enforce => Reason(p, Owner[r]) = "",
           active' = active + 1, processing' = processing + 1,
           users' = [users EXCEPT ![Owner[r]] = @ + 1]
    PROVE  WithinLimits'
<1> SUFFICES ASSUME \A q \in Policies : q.enforce /\ q.global > 0 /\ q.perUser > 0
             PROVE  /\ \E q \in Policies : active' <= q.global
                    /\ \E q \in Policies : processing' <= q.global + Backlog
                    /\ \A u \in Users : \E q \in Policies : users'[u] <= q.perUser
  BY DEF WithinLimits
<1>1. Owner[r] \in Users BY ConstantsAssumption
<1>2. p.enforce /\ p.global > 0 /\ p.perUser > 0 OBVIOUS
<1>3. /\ ~(active >= p.global) /\ ~(users[Owner[r]] >= p.perUser)
      /\ ~(processing >= p.global + Backlog)
  BY <1>2 DEF Reason
<1>4. p.global \in Nat /\ p.perUser \in Nat /\ Backlog \in Nat
  BY PolicyType, Sizes
<1>5. active' <= p.global /\ processing' <= p.global + Backlog
  <2>1. active \in Nat /\ processing \in Nat BY DEF TypeOK
  <2>2. p.global + Backlog \in Nat BY ONLY <1>4
  <2> QED BY ONLY <2>1, <2>2, <1>3, <1>4, Below, active' = active + 1, processing' = processing + 1
<1>6. ASSUME NEW u \in Users PROVE \E q \in Policies : users'[u] <= q.perUser
  <2>1. CASE u = Owner[r]
    <3>1. users'[u] = users[u] + 1 /\ users[u] \in Nat BY <1>1, <2>1 DEF TypeOK
    <3>2. users'[u] <= p.perUser BY ONLY <3>1, <1>3, <1>4, <2>1, Below
    <3> QED BY <3>2
  <2>2. CASE u # Owner[r]
    <3>1. users'[u] = users[u] BY <2>2 DEF TypeOK
    <3> QED BY <3>1 DEF WithinLimits
  <2> QED BY <2>1, <2>2
<1> QED BY <1>5, <1>6

-----------------------------------------------------------------------------
(* The events.                                                             *)
\* Few handlers send at a time.
LEMMA SendingFinite ==
    IsFiniteSet(Sending) /\ Cardinality(Sending) \in Nat
BY ConstantsAssumption, FS_Subset, FS_CardinalityType DEF Sending

\* A new event is counted, and its handler holds it.
LEMMA EventsNew ==
    ASSUME TypeOK, EventsCounted,
           rejected' + observed' = rejected + observed + 1,
           Cardinality(Sending') = Cardinality(Sending) + 1,
           Len(queue') = Len(queue), Len(pending') = Len(pending), Len(log') = Len(log)
    PROVE  EventsCounted'
<1> DEFINE s == Cardinality(Sending)
           q == Len(queue)
           p == Len(pending)
           l == Len(log)
           n == rejected + observed
<1>1. s \in Int /\ q \in Int /\ p \in Int /\ l \in Int /\ n \in Int
  BY SendingFinite DEF TypeOK
<1>2. n = s + q + p + l BY DEF EventsCounted
<1>3. rejected' + observed' = (n + 1) OBVIOUS
<1>4. Cardinality(Sending') + Len(queue') + Len(pending') + Len(log')
        = (s + 1) + q + p + l
  OBVIOUS
<1>5. (s + 1) + q + p + l = (n + 1)
  <2> HIDE DEF s, q, p, l, n
  <2> QED BY <1>1, <1>2
<1> QED BY <1>3, <1>4, <1>5 DEF EventsCounted

\* From its handler to the channel.
LEMMA EventsSent ==
    ASSUME TypeOK, EventsCounted,
           rejected' + observed' = rejected + observed,
           Cardinality(Sending') = Cardinality(Sending) - 1,
           Len(queue') = Len(queue) + 1, Len(pending') = Len(pending), Len(log') = Len(log)
    PROVE  EventsCounted'
<1> DEFINE s == Cardinality(Sending)
           q == Len(queue)
           p == Len(pending)
           l == Len(log)
           n == rejected + observed
<1>1. s \in Int /\ q \in Int /\ p \in Int /\ l \in Int /\ n \in Int
  BY SendingFinite DEF TypeOK
<1>2. n = s + q + p + l BY DEF EventsCounted
<1>3. rejected' + observed' = n OBVIOUS
<1>4. Cardinality(Sending') + Len(queue') + Len(pending') + Len(log')
        = (s - 1) + (q + 1) + p + l
  OBVIOUS
<1>5. (s - 1) + (q + 1) + p + l = n
  <2> HIDE DEF s, q, p, l, n
  <2> QED BY <1>1, <1>2
<1> QED BY <1>3, <1>4, <1>5 DEF EventsCounted

\* From the channel to the batch.
LEMMA EventsTaken ==
    ASSUME TypeOK, EventsCounted,
           rejected' + observed' = rejected + observed,
           Cardinality(Sending') = Cardinality(Sending),
           Len(queue') = Len(queue) - 1, Len(pending') = Len(pending) + 1, Len(log') = Len(log)
    PROVE  EventsCounted'
<1> DEFINE s == Cardinality(Sending)
           q == Len(queue)
           p == Len(pending)
           l == Len(log)
           n == rejected + observed
<1>1. s \in Int /\ q \in Int /\ p \in Int /\ l \in Int /\ n \in Int
  BY SendingFinite DEF TypeOK
<1>2. n = s + q + p + l BY DEF EventsCounted
<1>3. rejected' + observed' = n OBVIOUS
<1>4. Cardinality(Sending') + Len(queue') + Len(pending') + Len(log')
        = s + (q - 1) + (p + 1) + l
  OBVIOUS
<1>5. s + (q - 1) + (p + 1) + l = n
  <2> HIDE DEF s, q, p, l, n
  <2> QED BY <1>1, <1>2
<1> QED BY <1>3, <1>4, <1>5 DEF EventsCounted

\* From the batch to the log.
LEMMA EventsLogged ==
    ASSUME TypeOK, EventsCounted,
           rejected' + observed' = rejected + observed,
           Cardinality(Sending') = Cardinality(Sending),
           Len(queue') = Len(queue), Len(pending') = 0, Len(log') = Len(log) + Len(pending)
    PROVE  EventsCounted'
<1> DEFINE s == Cardinality(Sending)
           q == Len(queue)
           p == Len(pending)
           l == Len(log)
           n == rejected + observed
<1>1. s \in Int /\ q \in Int /\ p \in Int /\ l \in Int /\ n \in Int
  BY SendingFinite DEF TypeOK
<1>2. n = s + q + p + l BY DEF EventsCounted
<1>3. rejected' + observed' = n OBVIOUS
<1>4. Cardinality(Sending') + Len(queue') + Len(pending') + Len(log')
        = s + q + 0 + (l + p)
  OBVIOUS
<1>5. s + q + 0 + (l + p) = n
  <2> HIDE DEF s, q, p, l, n
  <2> QED BY <1>1, <1>2
<1> QED BY <1>3, <1>4, <1>5 DEF EventsCounted

\* A step that neither starts nor ends a send keeps the set of senders.
LEMMA SendingSame ==
    ASSUME TypeOK, NEW r \in Requests, NEW n \in Request, req' = [req EXCEPT ![r] = n],
           req[r].pc # "send", n.pc # "send"
    PROVE  Sending' = Sending
BY DEF TypeOK, Sending

\* Recording an event adds its handler to the senders.
LEMMA SendingMore ==
    ASSUME TypeOK, NEW r \in Requests, NEW n \in Request, req' = [req EXCEPT ![r] = n],
           req[r].pc # "send", n.pc = "send"
    PROVE  Cardinality(Sending') = Cardinality(Sending) + 1
<1>1. Sending' = Sending \cup {r} /\ r \notin Sending BY DEF TypeOK, Sending
<1> QED BY <1>1, SendingFinite, FS_AddElement

\* A send that ends takes it away.
LEMMA SendingLess ==
    ASSUME TypeOK, NEW r \in Requests, NEW n \in Request, req' = [req EXCEPT ![r] = n],
           req[r].pc = "send", n.pc # "send"
    PROVE  Cardinality(Sending') = Cardinality(Sending) - 1
<1>1. Sending' = Sending \ {r} /\ r \in Sending BY DEF TypeOK, Sending
<1> QED BY <1>1, SendingFinite, FS_RemoveElement

-----------------------------------------------------------------------------
(* Steps of a request.                                                     *)

\* A request that moves to a legal record leaves all records legal.
LEMMA Becomes ==
    ASSUME TypeOK, LeaseControl, NEW r \in Requests, NEW n \in Request, FitsLease(n),
           req' = [req EXCEPT ![r] = n]
    PROVE  req' \in [Requests -> Request] /\ LeaseControl'
BY DEF TypeOK, LeaseControl

\* A step of a request that neither sends nor wakes keeps everything that is
\* not about its lease.
LEMMA LeaseStep ==
    ASSUME IInv, NEW r \in Requests, NEW n \in Request, FitsLease(n),
           req' = [req EXCEPT ![r] = n],
           UNCHANGED <<settings, events, auditor, life>>,
           main # "exited", main = "serving" \/ ~Quiet(r),
           req[r].pc \notin {"send", "wake"}, n.pc # "send",
           LeasesCounted', WithinLimits', users' \in [Users -> Int]
    PROVE  IInv'
<1> USE DEF IInv
<1>1. req' \in [Requests -> Request] /\ LeaseControl' BY Becomes
<1>2. TypeOK' BY <1>1, CountsAreTyped DEF TypeOK, settings, events, auditor, life
<1>3. EventsCounted'
  BY SendingSame DEF EventsCounted, events, auditor
<1>4. FlushControl' BY DEF FlushControl, auditor, life
<1>5. EventIsSeen'
  <2>1. ASSUME NEW q \in Requests, req[q].pc = "wake" PROVE req'[q].pc = "wake"
    BY <2>1 DEF TypeOK
  <2> QED BY <2>1 DEF EventIsSeen, events, auditor, life
<1>6. ExitControl'
  <2>1. ~(main \in {"flushing", "exited"} /\ ~incomplete) BY DEF ExitControl
  <2> QED BY <2>1 DEF ExitControl, life
<1> QED BY <1>1, <1>2, <1>3, <1>4, <1>5, <1>6

\* Recording an event, for a request with or without a lease.
LEMMA RecordStep ==
    ASSUME IInv, NEW r \in Requests, NEW p \in Policies,
           NEW reason \in AdmissionReasons \cup {"body"},
           NEW next \in {"done", "check", "admit", "serving"},
           Record(r, reason, p, next), UNCHANGED <<settings, counts, auditor, life>>,
           req[r].pc \in {"arrived", "check", "serving"}, main # "exited",
           req[r].leased <=> next = "serving", next \in {"check", "admit"} => ~p.enforce
    PROVE  IInv'
<1> USE DEF IInv
<1> DEFINE e == [request |-> r, reason |-> reason, observed |-> ~p.enforce]
           q == IF req[r].leased THEN req[r].policy ELSE p
           b == (req[r].noted \/ reason = "body")
           n == [req[r] EXCEPT !.pc = "send", !.next = next, !.event = e, !.policy = q,
                               !.noted = b]
<1>1. req[r] \in Request /\ FitsLease(req[r]) BY DEF TypeOK, LeaseControl
<1>2. e \in Event BY PolicyType DEF Event
<1>3. q \in Policies /\ b \in BOOLEAN BY <1>1 DEF Request
<1>4. next \in {"check", "admit"} => ~q.enforce
  <2>1. next \in {"check", "admit"} => ~req[r].leased OBVIOUS
  <2> QED BY <2>1
<1>5. n \in Request /\ FitsLease(n)
  <2>1. req[r].leased = (next = "serving") BY <1>1 DEF Request
  <2> HIDE DEF e, q, b
  <2> QED BY ZenonT(60), <1>1, <1>2, <1>3, <1>4, <2>1, ShapeRecord
<1>6. req' = [req EXCEPT ![r] = n] BY DEF Record
<1>7. n.pc = "send" /\ n.leased = req[r].leased /\ n.released = req[r].released
      /\ n.finished = req[r].finished
  <2> HIDE DEF e, q, b
  <2> QED BY <1>1 DEF Request
<1> HIDE DEF n
<1>8. req' \in [Requests -> Request] /\ LeaseControl' BY <1>5, <1>6, Becomes
<1>9. rejected' \in Nat /\ observed' \in Nat
      /\ rejected' + observed' = rejected + observed + 1
  BY SMTT(20) DEF Record, TypeOK
<1>10. TypeOK'
  BY <1>8, <1>9 DEF TypeOK, settings, counts, auditor, life, Record
<1>11. LeasesCounted' BY <1>5, <1>6, <1>7, CountSame
<1>12. WithinLimits' BY DEF WithinLimits, counts
<1>13. EventsCounted'
  <2>1. Cardinality(Sending') = Cardinality(Sending) + 1
    BY <1>5, <1>6, <1>7, SendingMore
  <2>2. queue' = queue /\ pending' = pending /\ log' = log BY DEF Record, auditor
  <2> QED BY <1>9, <2>1, <2>2, EventsNew
<1>14. FlushControl' BY DEF FlushControl, auditor, life
<1>15. EventIsSeen'
  <2>1. ASSUME NEW o \in Requests, req[o].pc = "wake" PROVE req'[o].pc = "wake"
    BY <2>1, <1>6 DEF TypeOK
  <2> QED BY <2>1 DEF EventIsSeen, auditor, life, Record
<1>16. ExitControl'
  <2>1. ~Quiet(r) BY DEF Quiet
  <2>2. ~(main \in {"flushing", "exited"} /\ ~incomplete) BY <2>1 DEF ExitControl
  <2> QED BY <2>2 DEF ExitControl, life
<1> QED BY <1>8, <1>10, <1>11, <1>12, <1>13, <1>14, <1>15, <1>16

\* The three places where a lease is given.
LEMMA LeaseGiven ==
    ASSUME IInv, NEW r \in Requests, NEW p \in Policies, Lease(r, p),
           UNCHANGED <<settings, auditor, life>>, main # "exited",
           req[r].pc \in {"arrived", "check", "admit"},
           p.enforce => Reason(p, Owner[r]) = ""
    PROVE  IInv'
<1> DEFINE n == [req[r] EXCEPT !.pc = "serving", !.policy = p, !.leased = TRUE]
<1>1. req[r] \in Request /\ FitsLease(req[r]) BY DEF IInv, TypeOK, LeaseControl
<1>2. n \in Request /\ FitsLease(n) BY <1>1, ShapeLease
<1>3. req' = [req EXCEPT ![r] = n] BY DEF Lease
<1>4. /\ n.pc = "serving" /\ n.leased /\ n.released = req[r].released
      /\ n.finished = req[r].finished
  BY <1>1 DEF Request
<1>5. ~req[r].leased /\ ~req[r].released /\ ~req[r].finished BY <1>1 DEF FitsLease
<1> HIDE DEF n
<1>6. /\ active' = active + 1 /\ processing' = processing + 1
      /\ users' = [users EXCEPT ![Owner[r]] = @ + 1]
  BY DEF Lease
<1>7. LeasesCounted' /\ users' \in [Users -> Int]
  BY <1>2, <1>3, <1>4, <1>5, <1>6, CountLease DEF IInv
<1>8. WithinLimits' BY <1>6, LimitsLease DEF IInv
<1>9. ~Quiet(r) BY DEF Quiet
<1>10. UNCHANGED events BY DEF Lease
<1> QED BY <1>2, <1>3, <1>4, <1>7, <1>8, <1>9, <1>10, LeaseStep

\* The check of the limits: it grants the lease or records the reason.
LEMMA CheckStep ==
    ASSUME IInv, NEW r \in Requests, NEW p \in Policies, Check(r, p),
           UNCHANGED <<settings, auditor, life>>, main # "exited",
           req[r].pc \in {"arrived", "check"}
    PROVE  IInv'
<1>1. req[r] \in Request /\ FitsLease(req[r]) BY DEF IInv, TypeOK, LeaseControl
<1>2. ~req[r].leased BY <1>1 DEF FitsLease
<1>3. CASE Reason(p, Owner[r]) = "" /\ Lease(r, p)
  BY <1>3, LeaseGiven
<1>4. CASE /\ Reason(p, Owner[r]) # ""
           /\ Record(r, Reason(p, Owner[r]), p, IF p.enforce THEN "done" ELSE "admit")
           /\ UNCHANGED counts
  <2>1. Reason(p, Owner[r]) \in AdmissionReasons BY <1>4 DEF Reason, AdmissionReasons
  <2>2. CASE p.enforce
    <3>1. Record(r, Reason(p, Owner[r]), p, "done") BY <1>4, <2>2
    <3> QED BY <1>2, <1>4, <2>1, <2>2, <3>1, RecordStep
  <2>3. CASE ~p.enforce
    <3>1. Record(r, Reason(p, Owner[r]), p, "admit") BY <1>4, <2>3
    <3> QED BY <1>2, <1>4, <2>1, <2>3, <3>1, RecordStep
  <2> QED BY <2>2, <2>3
<1> QED BY <1>3, <1>4 DEF Check

\* Arrive preserves the invariant.
LEMMA ArriveStep ==
    ASSUME IInv, NEW r \in Requests, Arrive(r)
    PROVE  IInv'
<1> DEFINE n == [req[r] EXCEPT !.pc = "arrived"]
<1>1. req[r] \in Request /\ FitsLease(req[r]) BY DEF IInv, TypeOK, LeaseControl
<1>2. n \in Request /\ FitsLease(n) BY <1>1, ShapeArrive DEF Arrive
<1>3. req' = [req EXCEPT ![r] = n] BY DEF Arrive
<1>4. /\ n.pc = "arrived" /\ n.leased = req[r].leased /\ n.released = req[r].released
      /\ n.finished = req[r].finished
  BY <1>1 DEF Request
<1> HIDE DEF n
<1>5. LeasesCounted' BY <1>2, <1>3, <1>4, CountSame DEF Arrive, IInv
<1>6. WithinLimits' BY DEF Arrive, WithinLimits, counts, IInv
<1>7. users' \in [Users -> Int] BY DEF Arrive, counts, IInv, TypeOK
<1> QED BY <1>2, <1>3, <1>4, <1>5, <1>6, <1>7, LeaseStep DEF Arrive

\* AcquireRequest preserves the invariant.
LEMMA AcquireStep ==
    ASSUME IInv, NEW r \in Requests, AcquireRequest(r), main # "exited"
    PROVE  IInv'
<1>1. req[r] \in Request /\ FitsLease(req[r]) /\ policy \in Policies
  BY DEF IInv, TypeOK, LeaseControl
<1>2. ~req[r].leased /\ req[r].pc = "arrived" BY <1>1 DEF FitsLease, AcquireRequest
<1>3. UNCHANGED <<settings, auditor, life>> BY DEF AcquireRequest
<1>4. CASE /\ Record(r, "request_too_large", policy, IF policy.enforce THEN "done" ELSE "check")
           /\ UNCHANGED counts
  <2>1. "request_too_large" \in AdmissionReasons BY DEF AdmissionReasons
  <2>2. CASE policy.enforce
    <3>1. Record(r, "request_too_large", policy, "done") BY <1>4, <2>2
    <3> QED BY <1>1, <1>2, <1>3, <1>4, <2>1, <3>1, RecordStep
  <2>3. CASE ~policy.enforce
    <3>1. Record(r, "request_too_large", policy, "check") BY <1>4, <2>3
    <3> QED BY <1>1, <1>2, <1>3, <1>4, <2>1, <2>3, <3>1, RecordStep
  <2> QED BY <2>2, <2>3
<1>5. CASE Check(r, policy) BY <1>1, <1>2, <1>3, <1>5, CheckStep
<1> QED BY <1>4, <1>5 DEF AcquireRequest

\* Recheck preserves the invariant.
LEMMA RecheckStep ==
    ASSUME IInv, NEW r \in Requests, Recheck(r), main # "exited"
    PROVE  IInv'
<1>1. req[r].policy \in Policies BY DEF IInv, TypeOK, Request
<1> QED BY <1>1, CheckStep DEF Recheck

\* AdmitObserved preserves the invariant.
LEMMA AdmitStep ==
    ASSUME IInv, NEW r \in Requests, AdmitObserved(r), main # "exited"
    PROVE  IInv'
<1>1. req[r].policy \in Policies /\ ~req[r].policy.enforce
  BY DEF IInv, TypeOK, Request, LeaseControl, FitsLease, AdmitObserved
<1> QED BY <1>1, LeaseGiven DEF AdmitObserved

\* RecordBody preserves the invariant.
LEMMA RecordBodyStep ==
    ASSUME IInv, NEW r \in Requests, RecordBody(r), main # "exited"
    PROVE  IInv'
<1>1. req[r].policy \in Policies /\ req[r].leased
  BY DEF IInv, TypeOK, Request, LeaseControl, FitsLease, RecordBody
<1> QED BY <1>1, RecordStep DEF RecordBody

\* Send preserves the invariant.
LEMMA SendStep ==
    ASSUME IInv, NEW r \in Requests, Send(r), main # "exited"
    PROVE  IInv'
<1> USE DEF IInv
<1> DEFINE n == [req[r] EXCEPT !.pc = "wake"]
<1>1. req[r] \in Request /\ FitsLease(req[r]) BY DEF TypeOK, LeaseControl
<1>2. n \in Request /\ FitsLease(n) BY <1>1, ShapeSend DEF Send
<1>3. req' = [req EXCEPT ![r] = n] BY DEF Send
<1>4. /\ n.pc = "wake" /\ n.leased = req[r].leased /\ n.released = req[r].released
      /\ n.finished = req[r].finished
  BY <1>1 DEF Request
<1>5. req[r].event \in Event BY <1>1 DEF Request
<1> HIDE DEF n
<1>6. req' \in [Requests -> Request] /\ LeaseControl' BY <1>2, <1>3, Becomes
<1>7. queue' \in Seq(Event) /\ Len(queue') = Len(queue) + 1 /\ Len(queue') <= QueueSize
  BY <1>5, Sizes DEF Send, TypeOK
<1>8. UNCHANGED <<settings, counts, rejected, observed, wake, auditor, life>> BY DEF Send
<1>9. TypeOK' BY <1>6, <1>7, <1>8 DEF TypeOK, settings, counts, auditor, life
<1>10. LeasesCounted' BY <1>2, <1>3, <1>4, <1>8, CountSame
<1>11. WithinLimits' BY <1>8 DEF WithinLimits, counts
<1>12. EventsCounted'
  <2>1. Cardinality(Sending') = Cardinality(Sending) - 1
    BY <1>2, <1>3, <1>4, SendingLess DEF Send
  <2> QED BY <1>7, <1>8, <2>1, EventsSent DEF auditor
<1>13. FlushControl' BY <1>8 DEF FlushControl, auditor, life
<1>14. EventIsSeen'
  <2>1. req'[r].pc = "wake" BY <1>3, <1>4 DEF TypeOK
  <2> QED BY <2>1 DEF EventIsSeen
<1>15. ExitControl'
  <2>1. ~Quiet(r) BY DEF Quiet, Send
  <2>2. ~(main \in {"flushing", "exited"} /\ ~incomplete) BY <2>1 DEF ExitControl
  <2> QED BY <1>8, <2>2 DEF ExitControl, life
<1> QED BY <1>6, <1>9, <1>10, <1>11, <1>12, <1>13, <1>14, <1>15

\* Wake preserves the invariant.
LEMMA WakeStep ==
    ASSUME IInv, NEW r \in Requests, Wake(r), main # "exited"
    PROVE  IInv'
<1> USE DEF IInv
<1> DEFINE n == [req[r] EXCEPT !.pc = req[r].next]
<1>1. req[r] \in Request /\ FitsLease(req[r]) BY DEF TypeOK, LeaseControl
<1>2. n \in Request /\ FitsLease(n) BY <1>1, ShapeWake DEF Wake
<1>3. req' = [req EXCEPT ![r] = n] BY DEF Wake
<1>4. /\ n.leased = req[r].leased /\ n.released = req[r].released
      /\ n.finished = req[r].finished /\ n.pc # "send"
  BY <1>1 DEF Request, FitsLease, Pending, Wake
<1> HIDE DEF n
<1>5. req' \in [Requests -> Request] /\ LeaseControl' BY <1>2, <1>3, Becomes
<1>6. wake' /\ UNCHANGED <<settings, counts, rejected, observed, queue, auditor, life>>
  BY DEF Wake
<1>7. TypeOK' BY <1>5, <1>6 DEF TypeOK, settings, counts, auditor, life, Wake
<1>8. LeasesCounted' BY <1>2, <1>3, <1>4, <1>6, CountSame
<1>9. WithinLimits' BY <1>6 DEF WithinLimits, counts
<1>10. EventsCounted'
  <2>1. Sending' = Sending BY <1>2, <1>3, <1>4, SendingSame DEF Wake
  <2> QED BY <1>6, <2>1 DEF EventsCounted, auditor
<1>11. FlushControl' BY <1>6 DEF FlushControl, auditor, life
<1>12. EventIsSeen' BY <1>6 DEF EventIsSeen
<1>13. ExitControl'
  <2>1. ~Quiet(r) BY DEF Quiet, Wake
  <2>2. ~(main \in {"flushing", "exited"} /\ ~incomplete) BY <2>1 DEF ExitControl
  <2> QED BY <1>6, <2>2 DEF ExitControl, life
<1> QED BY <1>5, <1>7, <1>8, <1>9, <1>10, <1>11, <1>12, <1>13

\* Giving a slot back never breaks a limit.
LEMMA ReleaseLimits ==
    ASSUME TypeOK, WithinLimits, NEW r \in Requests, ModelDone(r), processing' = processing
    PROVE  WithinLimits'
<1>1. Owner[r] \in Users BY ConstantsAssumption
<1>2. /\ active \in Nat /\ processing \in Nat /\ users \in [Users -> Nat]
  BY DEF TypeOK
<1>3. CASE req[r].released
  <2>1. active' = active /\ users' = users BY <1>3 DEF ModelDone
  <2> QED BY <2>1 DEF WithinLimits
<1>4. CASE ~req[r].released
  <2>1. active' = active - 1 /\ users' = [users EXCEPT ![Owner[r]] = @ - 1]
    BY <1>4 DEF ModelDone
  <2>2. active' \in Int /\ active' <= active BY <2>1, <1>2
  <2>3. users' \in [Users -> Int] /\ \A u \in Users : users'[u] <= users[u]
    BY <2>1, <1>1, <1>2
  <2> QED BY <1>2, <2>2, <2>3, LimitsFall
<1> QED BY <1>3, <1>4

\* Nor does the end of a lease's processing.
LEMMA FinishLimits ==
    ASSUME TypeOK, WithinLimits, NEW r \in Requests, Processed(r), UNCHANGED <<active, users>>
    PROVE  WithinLimits'
<1>1. active \in Nat /\ processing \in Nat /\ users \in [Users -> Nat] BY DEF TypeOK
<1>2. processing' = processing \/ processing' = processing - 1 BY DEF Processed
<1>3. processing' \in Int /\ processing' <= processing BY <1>1, <1>2
<1>4. \A u \in Users : users'[u] <= users[u] BY <1>1
<1> QED BY <1>1, <1>3, <1>4, LimitsFall

\* StartCapture preserves the invariant.
LEMMA CaptureStep ==
    ASSUME IInv, NEW r \in Requests, StartCapture(r), main # "exited"
    PROVE  IInv'
<1> DEFINE n == [req[r] EXCEPT !.capture = "open"]
<1>1. req[r] \in Request /\ FitsLease(req[r]) BY DEF IInv, TypeOK, LeaseControl
<1>2. n \in Request /\ FitsLease(n) BY <1>1, ShapeCapture DEF StartCapture
<1>3. req' = [req EXCEPT ![r] = n] BY DEF StartCapture
<1>4. /\ n.pc # "send" /\ n.leased = req[r].leased
      /\ n.released = req[r].released /\ n.finished = req[r].finished
  BY <1>1 DEF Request, FitsLease, Pending, StartCapture
<1> HIDE DEF n
<1>5. LeasesCounted' /\ users' \in [Users -> Int]
  <2>1. UNCHANGED counts /\ TypeOK /\ LeasesCounted BY DEF StartCapture, IInv
  <2>2. LeasesCounted' BY <1>2, <1>3, <1>4, <2>1, CountSame
  <2>3. users' = users /\ users \in [Users -> Nat] BY <2>1 DEF counts, TypeOK
  <2> QED BY <2>2, <2>3
<1>6. WithinLimits' BY DEF StartCapture, WithinLimits, counts, IInv
<1>7. ~Quiet(r) /\ req[r].pc \notin {"send", "wake"}
  BY <1>1 DEF Quiet, FitsLease, StartCapture
<1>8. UNCHANGED <<settings, events, auditor, life>> BY DEF StartCapture
<1> QED BY <1>2, <1>3, <1>4, <1>5, <1>6, <1>7, <1>8, LeaseStep

\* Release preserves the invariant.
LEMMA ReleaseStep ==
    ASSUME IInv, NEW r \in Requests, Release(r), main # "exited"
    PROVE  IInv'
<1> DEFINE n == [req[r] EXCEPT !.pc = "finish", !.released = TRUE]
<1>1. req[r] \in Request /\ FitsLease(req[r]) BY DEF IInv, TypeOK, LeaseControl
<1>2. n \in Request /\ FitsLease(n) BY <1>1, ShapeRelease DEF Release
<1>3. req' = [req EXCEPT ![r] = n] BY DEF Release
<1>4. /\ n.pc # "send" /\ req[r].leased /\ n.leased /\ n.released
      /\ n.finished = req[r].finished
  BY <1>1 DEF Request, FitsLease, Pending, Release
<1> HIDE DEF n
<1>5. LeasesCounted' /\ users' \in [Users -> Int]
  BY <1>2, <1>3, <1>4, CountRelease DEF Release, IInv
<1>6. WithinLimits' BY ReleaseLimits DEF Release, IInv
<1>7. ~Quiet(r) /\ req[r].pc \notin {"send", "wake"}
  BY <1>1 DEF Quiet, FitsLease, Release
<1>8. UNCHANGED <<settings, events, auditor, life>> BY DEF Release
<1> QED BY <1>2, <1>3, <1>4, <1>5, <1>6, <1>7, <1>8, LeaseStep

\* Finish preserves the invariant.
LEMMA FinishStep ==
    ASSUME IInv, NEW r \in Requests, Finish(r), main # "exited"
    PROVE  IInv'
<1> DEFINE n == [req[r] EXCEPT !.pc = "model_done", !.finished = TRUE]
<1>1. req[r] \in Request /\ FitsLease(req[r]) BY DEF IInv, TypeOK, LeaseControl
<1>2. n \in Request /\ FitsLease(n) BY <1>1, ShapeFinish DEF Finish
<1>3. req' = [req EXCEPT ![r] = n] BY DEF Finish
<1>4. /\ n.pc # "send" /\ req[r].leased /\ ~req[r].finished
      /\ n.leased /\ n.released = req[r].released /\ n.finished
  BY <1>1 DEF Request, FitsLease, Pending, Finish
<1> HIDE DEF n
<1>5. LeasesCounted' /\ users' \in [Users -> Int]
  <2>1. /\ UNCHANGED <<active, users>> /\ Processed(r)
        /\ TypeOK /\ LeasesCounted
    BY DEF Finish, IInv
  <2>2. LeasesCounted' BY <1>2, <1>3, <1>4, <2>1, CountFinish
  <2>3. users' = users /\ users \in [Users -> Nat] BY <2>1 DEF TypeOK
  <2> QED BY <2>2, <2>3
<1>6. WithinLimits' BY FinishLimits DEF Finish, IInv
<1>7. ~Quiet(r) /\ req[r].pc \notin {"send", "wake"}
  BY <1>1 DEF Quiet, FitsLease, Finish
<1>8. UNCHANGED <<settings, events, auditor, life>> BY DEF Finish
<1> QED BY <1>2, <1>3, <1>4, <1>5, <1>6, <1>7, <1>8, LeaseStep

\* LastModelDone preserves the invariant.
LEMMA LastModelDoneStep ==
    ASSUME IInv, NEW r \in Requests, LastModelDone(r), main # "exited"
    PROVE  IInv'
<1> DEFINE n == [req[r] EXCEPT !.pc = "done", !.released = TRUE]
<1>1. req[r] \in Request /\ FitsLease(req[r]) BY DEF IInv, TypeOK, LeaseControl
<1>2. n \in Request /\ FitsLease(n) BY <1>1, ShapeLast DEF LastModelDone
<1>3. req' = [req EXCEPT ![r] = n] BY DEF LastModelDone
<1>4. /\ n.pc # "send" /\ req[r].leased /\ n.leased /\ n.released
      /\ n.finished = req[r].finished
  BY <1>1 DEF Request, FitsLease, Pending, LastModelDone
<1> HIDE DEF n
<1>5. LeasesCounted' /\ users' \in [Users -> Int]
  BY <1>2, <1>3, <1>4, CountRelease DEF LastModelDone, IInv
<1>6. WithinLimits' BY ReleaseLimits DEF LastModelDone, IInv
<1>7. ~Quiet(r) /\ req[r].pc \notin {"send", "wake"}
  BY <1>1 DEF Quiet, FitsLease, LastModelDone
<1>8. UNCHANGED <<settings, events, auditor, life>> BY DEF LastModelDone
<1> QED BY <1>2, <1>3, <1>4, <1>5, <1>6, <1>7, <1>8, LeaseStep

\* SavedRelease preserves the invariant.
LEMMA SavedReleaseStep ==
    ASSUME IInv, NEW r \in Requests, SavedRelease(r), main # "exited"
    PROVE  IInv'
<1> DEFINE n == [req[r] EXCEPT !.capture = "finish", !.released = TRUE]
<1>1. req[r] \in Request /\ FitsLease(req[r]) BY DEF IInv, TypeOK, LeaseControl
<1>2. n \in Request /\ FitsLease(n) BY <1>1, ShapeSavedRelease DEF SavedRelease
<1>3. req' = [req EXCEPT ![r] = n] BY DEF SavedRelease
<1>4. /\ n.pc # "send" /\ req[r].leased /\ n.leased /\ n.released
      /\ n.finished = req[r].finished
  BY <1>1 DEF Request, FitsLease, Pending, SavedRelease
<1> HIDE DEF n
<1>5. LeasesCounted' /\ users' \in [Users -> Int]
  BY <1>2, <1>3, <1>4, CountRelease DEF SavedRelease, IInv
<1>6. WithinLimits' BY ReleaseLimits DEF SavedRelease, IInv
<1>7. ~Quiet(r) /\ req[r].pc \notin {"send", "wake"}
  BY <1>1 DEF Quiet, FitsLease, SavedRelease
<1>8. UNCHANGED <<settings, events, auditor, life>> BY DEF SavedRelease
<1> QED BY <1>2, <1>3, <1>4, <1>5, <1>6, <1>7, <1>8, LeaseStep

\* SavedFinish preserves the invariant.
LEMMA SavedFinishStep ==
    ASSUME IInv, NEW r \in Requests, SavedFinish(r), main # "exited"
    PROVE  IInv'
<1> DEFINE n == [req[r] EXCEPT !.capture = "saved", !.finished = TRUE]
<1>1. req[r] \in Request /\ FitsLease(req[r]) BY DEF IInv, TypeOK, LeaseControl
<1>2. n \in Request /\ FitsLease(n) BY <1>1, ShapeSavedFinish DEF SavedFinish
<1>3. req' = [req EXCEPT ![r] = n] BY DEF SavedFinish
<1>4. /\ n.pc # "send" /\ req[r].leased /\ ~req[r].finished
      /\ n.leased /\ n.released = req[r].released /\ n.finished
  BY <1>1 DEF Request, FitsLease, Pending, SavedFinish
<1> HIDE DEF n
<1>5. LeasesCounted' /\ users' \in [Users -> Int]
  <2>1. /\ UNCHANGED <<active, users>> /\ Processed(r)
        /\ TypeOK /\ LeasesCounted
    BY DEF SavedFinish, IInv
  <2>2. LeasesCounted' BY <1>2, <1>3, <1>4, <2>1, CountFinish
  <2>3. users' = users /\ users \in [Users -> Nat] BY <2>1 DEF TypeOK
  <2> QED BY <2>2, <2>3
<1>6. WithinLimits' BY FinishLimits DEF SavedFinish, IInv
<1>7. ~Quiet(r) /\ req[r].pc \notin {"send", "wake"}
  BY <1>1 DEF Quiet, FitsLease, SavedFinish
<1>8. UNCHANGED <<settings, events, auditor, life>> BY DEF SavedFinish
<1> QED BY <1>2, <1>3, <1>4, <1>5, <1>6, <1>7, <1>8, LeaseStep

\* Return, when a capture holds the lease, preserves the invariant.
LEMMA ReturnSavingStep ==
    ASSUME IInv, NEW r \in Requests, Return(r), main # "exited", req[r].capture = "open"
    PROVE  IInv'
<1> DEFINE n == [req[r] EXCEPT !.capture = "saving", !.pc = "model_done"]
<1>1. req[r] \in Request /\ FitsLease(req[r]) BY DEF IInv, TypeOK, LeaseControl
<1>2. n \in Request /\ FitsLease(n) BY <1>1, ShapeReturnSaving DEF Return
<1>3. req' = [req EXCEPT ![r] = n] BY DEF Return
<1>4. /\ n.pc # "send" /\ n.leased = req[r].leased
      /\ n.released = req[r].released /\ n.finished = req[r].finished
  BY <1>1 DEF Request
<1> HIDE DEF n
<1>5. LeasesCounted' /\ users' \in [Users -> Int]
  <2>1. UNCHANGED counts /\ TypeOK /\ LeasesCounted BY DEF Return, IInv
  <2>2. LeasesCounted' BY <1>2, <1>3, <1>4, <2>1, CountSame
  <2>3. users' = users /\ users \in [Users -> Nat] BY <2>1 DEF counts, TypeOK
  <2> QED BY <2>2, <2>3
<1>6. WithinLimits' BY DEF Return, WithinLimits, counts, IInv
<1>7. ~Quiet(r) /\ req[r].pc \notin {"send", "wake"}
  BY DEF Quiet, Return
<1>8. UNCHANGED <<settings, events, auditor, life>> BY DEF Return
<1> QED BY <1>2, <1>3, <1>4, <1>5, <1>6, <1>7, <1>8, LeaseStep

\* Return, when the handler holds it, preserves the invariant.
LEMMA ReturnStep ==
    ASSUME IInv, NEW r \in Requests, Return(r), main # "exited", req[r].capture # "open"
    PROVE  IInv'
<1> DEFINE n == [req[r] EXCEPT !.pc = "release"]
<1>1. req[r] \in Request /\ FitsLease(req[r]) BY DEF IInv, TypeOK, LeaseControl
<1>2. n \in Request /\ FitsLease(n) BY <1>1, ShapeReturn DEF Return
<1>3. req' = [req EXCEPT ![r] = n] BY DEF Return
<1>4. /\ n.pc # "send" /\ n.leased = req[r].leased
      /\ n.released = req[r].released /\ n.finished = req[r].finished
  BY <1>1 DEF Request
<1> HIDE DEF n
<1>5. LeasesCounted' /\ users' \in [Users -> Int]
  <2>1. UNCHANGED counts /\ TypeOK /\ LeasesCounted BY DEF Return, IInv
  <2>2. LeasesCounted' BY <1>2, <1>3, <1>4, <2>1, CountSame
  <2>3. users' = users /\ users \in [Users -> Nat] BY <2>1 DEF counts, TypeOK
  <2> QED BY <2>2, <2>3
<1>6. WithinLimits' BY DEF Return, WithinLimits, counts, IInv
<1>7. ~Quiet(r) /\ req[r].pc \notin {"send", "wake"}
  BY DEF Quiet, Return
<1>8. UNCHANGED <<settings, events, auditor, life>> BY DEF Return
<1> QED BY <1>2, <1>3, <1>4, <1>5, <1>6, <1>7, <1>8, LeaseStep

-----------------------------------------------------------------------------
(* Steps that touch no request.                                            *)
LEMMA SettingsStep ==
    ASSUME IInv, SetPolicy \/ Monitor
    PROVE  IInv'
<1> USE DEF IInv
<1>1. UNCHANGED <<counts, events, req, auditor, life>> BY DEF SetPolicy, Monitor
<1>2. policy' \in Policies /\ paused' \in BOOLEAN /\ changes' \in 0..MaxChanges
  <2>1. MaxChanges \in Nat /\ Monitored \in BOOLEAN BY Sizes
  <2>2. changes < MaxChanges /\ changes' = changes + 1 BY DEF SetPolicy, Monitor
  <2>3. changes' \in 0..MaxChanges BY <2>1, <2>2 DEF TypeOK
  <2>4. CASE SetPolicy BY <2>1, <2>3, <2>4 DEF SetPolicy
  <2>5. CASE Monitor BY <2>3, <2>5 DEF Monitor, TypeOK
  <2> QED BY <2>4, <2>5
<1>3. TypeOK' BY <1>1, <1>2 DEF TypeOK, counts, events, auditor, life
<1>4. LeaseControl' BY <1>1 DEF LeaseControl
<1>5. LeasesCounted'
  BY <1>1 DEF LeasesCounted, Live, Unfinished, LiveOf, counts
<1>6. WithinLimits' BY <1>1 DEF WithinLimits, counts
<1>7. EventsCounted' BY <1>1 DEF EventsCounted, Sending, events, auditor
<1>8. FlushControl' /\ EventIsSeen' /\ ExitControl'
  BY <1>1 DEF FlushControl, EventIsSeen, ExitControl, Quiet, events, auditor, life
<1> QED BY <1>3, <1>4, <1>5, <1>6, <1>7, <1>8

\* What the audit goroutine, the flush and main leave alone.
LEMMA RequestsStay ==
    ASSUME IInv, UNCHANGED <<settings, counts, req, rejected, observed>>
    PROVE  LeaseControl' /\ LeasesCounted' /\ WithinLimits' /\ Sending' = Sending
<1>1. LeaseControl' BY DEF IInv, LeaseControl
<1>2. LeasesCounted'
  BY DEF IInv, LeasesCounted, Live, Unfinished, LiveOf, counts
<1>3. WithinLimits' BY DEF IInv, WithinLimits, counts
<1>4. Sending' = Sending BY DEF Sending
<1> QED BY <1>1, <1>2, <1>3, <1>4

\* FlushHead preserves the invariant.
LEMMA FlushHeadStep ==
    ASSUME IInv, FlushHead, main # "exited"
    PROVE  IInv'
<1> USE DEF IInv
<1>1. UNCHANGED <<settings, counts, events, req, pending, log, failures, incomplete>>
  BY DEF FlushHead
<1>2. LeaseControl' /\ LeasesCounted' /\ WithinLimits' /\ Sending' = Sending
  BY <1>1, RequestsStay DEF events
<1>3. EventsCounted' BY <1>1, <1>2 DEF EventsCounted, events
<1>4. CASE Cancelled /\ FlushReturn
  <2>1. flusher = "audit" /\ main # "serving" /\ main # "flushing"
    BY <1>4 DEF Cancelled, FlushControl
  <2>2. flusher' = "none" /\ flush' = "head" /\ audit' = "retry" /\ main' = main
    BY <1>4, <2>1 DEF FlushReturn
  <2>3. TypeOK' BY <1>1, <2>2 DEF TypeOK, settings, counts, events
  <2>4. FlushControl' BY <1>1, <2>1, <2>2 DEF FlushControl
  <2>5. EventIsSeen' BY <2>1, <2>2 DEF EventIsSeen
  <2>6. ExitControl' BY <1>1, <2>2 DEF ExitControl, Quiet, events
  <2> QED BY <1>2, <1>3, <2>3, <2>4, <2>5, <2>6
<1>5. CASE /\ flush' = IF pending = <<>> THEN "fill" ELSE "write"
           /\ UNCHANGED <<flusher, audit, main>>
  <2>1. TypeOK' BY <1>1, <1>5 DEF TypeOK, settings, counts, events
  <2>2. FlushControl' BY <1>1, <1>5 DEF FlushControl, FlushHead
  <2>3. EventIsSeen' BY <1>1, <1>5 DEF EventIsSeen, events
  <2>4. ExitControl' BY <1>1, <1>5 DEF ExitControl, Quiet, events
  <2> QED BY <1>2, <1>3, <2>1, <2>2, <2>3, <2>4
<1> QED BY <1>4, <1>5 DEF FlushHead

\* Fill preserves the invariant.
LEMMA FillStep ==
    ASSUME IInv, Fill, main # "exited"
    PROVE  IInv'
<1> USE DEF IInv
<1>1. UNCHANGED <<settings, counts, rejected, observed, wake, req, flusher, flush, log,
                  audit, failures, life>>
  BY DEF Fill
<1>2. LeaseControl' /\ LeasesCounted' /\ WithinLimits' /\ Sending' = Sending
  BY <1>1, RequestsStay
<1>3. /\ queue' \in Seq(Event) /\ Len(queue') = Len(queue) - 1 /\ Len(queue') <= QueueSize
  <2>1. queue \in Seq(Event) /\ queue # <<>> /\ queue' = Tail(queue) BY DEF Fill, TypeOK
  <2>2. Len(queue) \in Nat /\ Len(queue) <= QueueSize BY <2>1 DEF TypeOK
  <2>3. queue' \in Seq(Event) /\ Len(queue') = Len(queue) - 1 BY <2>1
  <2> QED BY <2>2, <2>3, Sizes
<1>4. Head(queue) \in Event BY DEF Fill, TypeOK
<1>5. /\ pending' \in Seq(Event) /\ Len(pending') = Len(pending) + 1 /\ pending' # <<>>
      /\ Len(pending') <= BatchSize
  <2>1. pending \in Seq(Event) /\ pending' = Append(pending, Head(queue))
    BY DEF Fill, TypeOK
  <2>2. Len(pending) < BatchSize BY DEF Fill
  <2>3. pending' \in Seq(Event) /\ Len(pending') = Len(pending) + 1 BY <1>4, <2>1
  <2>4. Len(pending) \in Nat BY <2>1
  <2>5. pending' # <<>> BY <2>3, <2>4
  <2> QED BY <2>2, <2>3, <2>4, <2>5, Sizes
<1>6. TypeOK' BY <1>1, <1>3, <1>5 DEF TypeOK, settings, counts, life
<1>7. EventsCounted' BY <1>1, <1>2, <1>3, <1>5, EventsTaken
<1>8. flusher # "none" BY DEF Fill, FlushControl
<1>9. audit = "flushing" \/ main = "flushing"
  BY <1>8 DEF FlushControl, TypeOK
<1>10. FlushControl' BY <1>1, <1>5, <1>8, <1>9 DEF FlushControl, life
<1>11. EventIsSeen' BY <1>1, <1>9 DEF EventIsSeen, life
<1>12. ExitControl' BY <1>1 DEF ExitControl, Quiet, life
<1> QED BY <1>2, <1>6, <1>7, <1>10, <1>11, <1>12

\* Drained preserves the invariant.
LEMMA DrainedStep ==
    ASSUME IInv, Drained, main # "exited"
    PROVE  IInv'
<1> USE DEF IInv
<1>1. UNCHANGED <<settings, counts, events, req, pending, log, failures, incomplete>>
  BY DEF Drained
<1>2. LeaseControl' /\ LeasesCounted' /\ WithinLimits' /\ Sending' = Sending
  BY <1>1, RequestsStay DEF events
<1>3. EventsCounted' BY <1>1, <1>2 DEF EventsCounted, events
<1>4. CASE pending = <<>> /\ FlushReturn
  <2>1. queue = <<>> BY <1>4, Sizes DEF Drained
  <2>2. flusher \in {"audit", "main"} BY DEF Drained, FlushControl, TypeOK
  <2>3. flusher' = "none" /\ flush' = "head" /\ queue' = <<>> /\ pending' = <<>>
    BY <1>1, <1>4, <2>1 DEF FlushReturn, events
  <2>4. TypeOK'
    BY <1>1, <1>4 DEF TypeOK, settings, counts, events, FlushReturn
  <2>5. FlushControl' BY <1>4, <2>2, <2>3 DEF FlushControl, FlushReturn
  <2>6. EventIsSeen' BY <2>3 DEF EventIsSeen
  <2>7. ExitControl'
    BY <1>1, <1>4, <2>2, <2>3 DEF ExitControl, Quiet, FlushReturn, FlushControl
  <2> QED BY <1>2, <1>3, <2>4, <2>5, <2>6, <2>7
<1>5. CASE pending # <<>> /\ flush' = "write" /\ UNCHANGED <<flusher, audit, main>>
  <2>1. TypeOK' BY <1>1, <1>5 DEF TypeOK, settings, counts, events
  <2>2. FlushControl' BY <1>1, <1>5 DEF FlushControl, Drained
  <2>3. EventIsSeen' BY <1>1, <1>5 DEF EventIsSeen, events
  <2>4. ExitControl' BY <1>1, <1>5 DEF ExitControl, Quiet, events
  <2> QED BY <1>2, <1>3, <2>1, <2>2, <2>3, <2>4
<1> QED BY <1>4, <1>5 DEF Drained

\* WriteOK preserves the invariant.
LEMMA WriteOKStep ==
    ASSUME IInv, WriteOK, main # "exited"
    PROVE  IInv'
<1> USE DEF IInv
<1>1. UNCHANGED <<settings, counts, events, req, flusher, audit, failures, life>>
  BY DEF WriteOK
<1>2. LeaseControl' /\ LeasesCounted' /\ WithinLimits' /\ Sending' = Sending
  BY <1>1, RequestsStay DEF events
<1>3. /\ log' \in Seq(Event) /\ Len(log') = Len(log) + Len(pending)
      /\ pending' = <<>> /\ Len(pending') = 0 /\ flush' = "head"
  BY DEF WriteOK, TypeOK
<1>4. TypeOK'
  BY <1>1, <1>3, Sizes DEF TypeOK, settings, counts, events, life
<1>5. EventsCounted' BY <1>1, <1>2, <1>3, EventsLogged DEF events
<1>6. flusher \in {"audit", "main"} BY DEF WriteOK, FlushControl, TypeOK
<1>7. FlushControl' BY <1>1, <1>3 DEF FlushControl, life
<1>8. EventIsSeen' BY <1>1, <1>6 DEF EventIsSeen, FlushControl, events, life
<1>9. ExitControl' BY <1>1, <1>3 DEF ExitControl, Quiet, events, life
<1> QED BY <1>2, <1>4, <1>5, <1>7, <1>8, <1>9

\* WriteFails preserves the invariant.
LEMMA WriteFailsStep ==
    ASSUME IInv, WriteFails, main # "exited"
    PROVE  IInv'
<1> USE DEF IInv
<1>1. UNCHANGED <<settings, counts, events, req, pending, log>> /\ FlushReturn
  BY DEF WriteFails
<1>2. LeaseControl' /\ LeasesCounted' /\ WithinLimits' /\ Sending' = Sending
  BY <1>1, RequestsStay DEF events
<1>3. EventsCounted' BY <1>1, <1>2 DEF EventsCounted, events
<1>4. flusher \in {"audit", "main"} /\ pending # <<>>
  BY DEF WriteFails, FlushControl, TypeOK
<1>5. incomplete' = (incomplete \/ flusher = "main") BY DEF WriteFails
<1>6. failures' \in 0..MaxFailures /\ incomplete' \in BOOLEAN
  BY Sizes, <1>5 DEF WriteFails, TypeOK
<1>7. TypeOK' BY <1>1, <1>6 DEF TypeOK, settings, counts, events, FlushReturn
<1>8. FlushControl' BY <1>1, <1>4 DEF FlushControl, FlushReturn
<1>9. EventIsSeen' BY <1>1, <1>4 DEF EventIsSeen, FlushReturn, FlushControl, events
<1>10. ExitControl'
  BY <1>1, <1>4, <1>5 DEF ExitControl, Quiet, FlushReturn, FlushControl
<1> QED BY <1>2, <1>3, <1>7, <1>8, <1>9, <1>10

\* AuditWake preserves the invariant.
LEMMA AuditWakeStep ==
    ASSUME IInv, AuditWake, main # "exited"
    PROVE  IInv'
<1> USE DEF IInv
<1>1. UNCHANGED <<settings, counts, rejected, observed, queue, req, flusher, flush, pending,
                  log, failures, life>>
  BY DEF AuditWake
<1>2. LeaseControl' /\ LeasesCounted' /\ WithinLimits' /\ Sending' = Sending
  BY <1>1, RequestsStay
<1>3. audit = "wait" /\ audit' = "flush" /\ wake' = FALSE BY DEF AuditWake
<1>4. TypeOK' BY <1>1, <1>3 DEF TypeOK, settings, counts, life
<1>5. EventsCounted' BY <1>1, <1>2 DEF EventsCounted
<1>6. FlushControl' /\ EventIsSeen' BY <1>1, <1>3 DEF FlushControl, EventIsSeen, life
<1>7. ExitControl' BY <1>1 DEF ExitControl, Quiet, life
<1> QED BY <1>2, <1>4, <1>5, <1>6, <1>7

\* The other moves of the audit goroutine, and the first of main.
LEMMA AuditorStep ==
    ASSUME IInv, AuditFlush \/ AuditRetry \/ AuditTimer \/ AuditStops, main # "exited"
    PROVE  IInv'
<1> USE DEF IInv
<1>1. UNCHANGED <<settings, counts, events, req, pending, log, failures, life>>
  BY DEF AuditFlush, AuditRetry, AuditTimer, AuditStops
<1>2. LeaseControl' /\ LeasesCounted' /\ WithinLimits' /\ Sending' = Sending
  BY <1>1, RequestsStay DEF events
<1>3. EventsCounted' BY <1>1, <1>2 DEF EventsCounted, events
<1>4. ExitControl' BY <1>1 DEF ExitControl, Quiet, events, life
<1>5. CASE AuditFlush
  <2>1. /\ audit = "flush" /\ audit' = "flushing" /\ flusher = "none" /\ flusher' = "audit"
        /\ flush' = "head"
    BY <1>5 DEF AuditFlush, FlushStart
  <2>2. TypeOK' BY <1>1, <2>1 DEF TypeOK, settings, counts, events, life
  <2>3. FlushControl' /\ EventIsSeen'
    BY <1>1, <2>1 DEF FlushControl, EventIsSeen, events, life
  <2> QED BY <1>2, <1>3, <1>4, <2>2, <2>3
<1>6. CASE AuditRetry
  <2>1. TypeOK' BY <1>1, <1>6 DEF TypeOK, settings, counts, events, life, AuditRetry
  <2>2. FlushControl' /\ EventIsSeen'
    BY <1>1, <1>6 DEF FlushControl, EventIsSeen, events, life, AuditRetry
  <2> QED BY <1>2, <1>3, <1>4, <2>1, <2>2
<1>7. CASE AuditTimer \/ AuditStops
  <2>1. TypeOK'
    BY <1>1, <1>7 DEF TypeOK, settings, counts, events, life, AuditTimer, AuditStops
  <2>2. FlushControl' /\ EventIsSeen'
    BY <1>1, <1>7 DEF FlushControl, EventIsSeen, events, life, AuditTimer, AuditStops
  <2> QED BY <1>2, <1>3, <1>4, <2>1, <2>2
<1> QED BY <1>5, <1>6, <1>7

\* Stop preserves the invariant.
LEMMA StopStep ==
    ASSUME IInv, Stop
    PROVE  IInv'
<1> USE DEF IInv
<1>1. UNCHANGED <<settings, counts, events, req, auditor, incomplete>> BY DEF Stop
<1>2. main = "serving" /\ main' = "draining" BY DEF Stop
<1>3. LeaseControl' /\ LeasesCounted' /\ WithinLimits' /\ Sending' = Sending
  BY <1>1, RequestsStay DEF events
<1>4. EventsCounted' BY <1>1, <1>3 DEF EventsCounted, events, auditor
<1>5. TypeOK' BY <1>1, <1>2 DEF TypeOK, settings, counts, events, auditor
<1>6. FlushControl' BY <1>1, <1>2 DEF FlushControl, auditor
<1>7. EventIsSeen' /\ ExitControl' BY <1>2 DEF EventIsSeen, ExitControl
<1> QED BY <1>3, <1>4, <1>5, <1>6, <1>7

\* FinalFlush preserves the invariant.
LEMMA FinalFlushStep ==
    ASSUME IInv, FinalFlush
    PROVE  IInv'
<1> USE DEF IInv
<1>1. UNCHANGED <<settings, counts, events, req, pending, log, audit, failures>>
  BY DEF FinalFlush
<1>2. /\ main = "draining" /\ main' = "flushing" /\ flusher = "none" /\ flusher' = "main"
      /\ flush' = "head" /\ incomplete' = (\E r \in Requests : ~Quiet(r))
  BY DEF FinalFlush, FlushStart
<1>3. LeaseControl' /\ LeasesCounted' /\ WithinLimits' /\ Sending' = Sending
  BY <1>1, RequestsStay DEF events
<1>4. EventsCounted' BY <1>1, <1>3 DEF EventsCounted, events
<1>5. TypeOK' BY <1>1, <1>2 DEF TypeOK, settings, counts, events
<1>6. FlushControl' BY <1>1, <1>2 DEF FlushControl
<1>7. EventIsSeen' BY <1>2 DEF EventIsSeen
<1>8. ExitControl' BY <1>1, <1>2 DEF ExitControl, Quiet
<1> QED BY <1>3, <1>4, <1>5, <1>6, <1>7, <1>8

\* A step that changes nothing.
LEMMA StutterStep ==
    ASSUME IInv, UNCHANGED vars
    PROVE  IInv'
<1> USE DEF IInv
<1>1. UNCHANGED <<settings, counts, events, req>> BY DEF vars
<1>2. UNCHANGED <<auditor, life>> BY DEF vars
<1>3. UNCHANGED <<flusher, flush, pending, log, audit, failures, main, incomplete>>
  BY <1>2 DEF auditor, life
<1>4. UNCHANGED <<rejected, observed, queue, wake>> BY <1>1 DEF events
<1>5. LeaseControl' /\ LeasesCounted' /\ WithinLimits' /\ Sending' = Sending
  BY <1>1, <1>4, RequestsStay
<1>6. EventsCounted' BY <1>3, <1>4, <1>5 DEF EventsCounted
<1>7. TypeOK'
  <2>1. UNCHANGED <<policy, paused, changes, active, processing, users>>
    BY <1>1 DEF settings, counts
  <2> QED BY <1>1, <1>3, <1>4, <2>1 DEF TypeOK
<1>8. FlushControl' BY <1>3 DEF FlushControl
<1>9. EventIsSeen' BY <1>1, <1>3, <1>4 DEF EventIsSeen
<1>10. ExitControl' BY <1>1, <1>3, <1>4 DEF ExitControl, Quiet
<1> QED BY <1>5, <1>6, <1>7, <1>8, <1>9, <1>10

-----------------------------------------------------------------------------
\* The initial states satisfy the invariant.
LEMMA InitIInv == ASSUME Init PROVE IInv
<1>1. TypeOK BY InitTypeOK
<1>2. \A r \in Requests : /\ req[r].pc = "new" /\ ~req[r].leased /\ ~req[r].released
                          /\ ~req[r].finished /\ req[r].capture = "none"
  BY DEF Init, New
<1>3. LeaseControl BY <1>2 DEF LeaseControl, FitsLease, Pending
<1>4. LeasesCounted
  <2>1. Live = {} /\ Unfinished = {} /\ \A u \in Users : LiveOf(u) = {}
    BY <1>2 DEF Live, Unfinished, LiveOf
  <2> QED BY <2>1, FS_EmptySet DEF LeasesCounted, Init
<1>5. WithinLimits
  <2>1. PICK p \in Policies : TRUE BY ConstantsAssumption
  <2>2. p.global \in Nat /\ p.perUser \in Nat /\ p.global + Backlog \in Nat
    BY PolicyType, Sizes
  <2>3. active <= p.global /\ processing <= p.global + Backlog
        /\ \A u \in Users : users[u] <= p.perUser
    BY <2>2 DEF Init
  <2> QED BY <2>3 DEF WithinLimits
<1>6. EventsCounted
  <2>1. Sending = {} BY <1>2 DEF Sending
  <2>2. Len(queue) = 0 /\ Len(pending) = 0 /\ Len(log) = 0 /\ rejected = 0 /\ observed = 0
    BY DEF Init
  <2> QED BY <2>1, <2>2, FS_EmptySet DEF EventsCounted
<1>7. FlushControl /\ EventIsSeen /\ ExitControl
  BY DEF Init, FlushControl, EventIsSeen, ExitControl
<1> QED BY <1>1, <1>3, <1>4, <1>5, <1>6, <1>7 DEF IInv

\* Every step of the controller keeps the inductive invariant.
LEMMA NextIInv == ASSUME IInv, [Next]_vars PROVE IInv'
<1>1. CASE UNCHANGED vars BY <1>1, StutterStep
<1>2. ASSUME NEW r \in Requests, main # "exited",
             Arrive(r) \/ Handler(r) \/ StartCapture(r) \/ RecordBody(r) \/ Saver(r)
      PROVE  IInv'
  <2>1. CASE Arrive(r) BY <2>1, ArriveStep
  <2>2. CASE Handler(r)
    <3>1. CASE AcquireRequest(r) BY <1>2, <3>1, AcquireStep
    <3>2. CASE Recheck(r) BY <1>2, <3>2, RecheckStep
    <3>3. CASE AdmitObserved(r) BY <1>2, <3>3, AdmitStep
    <3>4. CASE Send(r) BY <1>2, <3>4, SendStep
    <3>5. CASE Wake(r) BY <1>2, <3>5, WakeStep
    <3>6. CASE Return(r) BY <1>2, <3>6, ReturnSavingStep, ReturnStep
    <3>7. CASE Release(r) BY <1>2, <3>7, ReleaseStep
    <3>8. CASE Finish(r) BY <1>2, <3>8, FinishStep
    <3>9. CASE LastModelDone(r) BY <1>2, <3>9, LastModelDoneStep
    <3> QED BY <2>2, <3>1, <3>2, <3>3, <3>4, <3>5, <3>6, <3>7, <3>8, <3>9 DEF Handler
  <2>3. CASE StartCapture(r) BY <1>2, <2>3, CaptureStep
  <2>4. CASE RecordBody(r) BY <1>2, <2>4, RecordBodyStep
  <2>5. CASE Saver(r) BY <1>2, <2>5, SavedReleaseStep, SavedFinishStep DEF Saver
  <2> QED BY <1>2, <2>1, <2>2, <2>3, <2>4, <2>5
<1>3. CASE SetPolicy \/ Monitor BY <1>3, SettingsStep
<1>4. CASE main # "exited" /\ Flush
  BY <1>4, FlushHeadStep, FillStep, DrainedStep, WriteOKStep, WriteFailsStep DEF Flush
<1>5. CASE main # "exited" /\ Auditor
  BY <1>5, AuditWakeStep, AuditorStep DEF Auditor
<1>6. CASE Stop \/ FinalFlush BY <1>6, StopStep, FinalFlushStep
<1>7. CASE Rest BY <1>7, StutterStep DEF Rest
<1> QED BY <1>1, <1>2, <1>3, <1>4, <1>5, <1>6, <1>7 DEF Next, Running

\* The inductive invariant holds in every behaviour of the controller.
THEOREM Inductive == Spec => []IInv
<1>1. Init => IInv BY InitIInv
<1>2. IInv /\ [Next]_vars => IInv' BY NextIInv
<1> QED BY <1>1, <1>2, PTL DEF Spec

\* Every variable of the controller has its type: counters never go below zero and
\* the channel and a batch never exceed their size.
THEOREM TypeCorrect == Spec => []TypeOK
<1>1. IInv => TypeOK BY DEF IInv
<1> QED BY <1>1, Inductive, PTL

\* The counters are the leases that are out (Lease.ModelDone, Lease.Finish).
THEOREM LeasesAreCounted == Spec => []LeasesCounted
<1>1. IInv => LeasesCounted BY DEF IInv
<1> QED BY <1>1, Inductive, PTL

\* A lease lasts exactly as long as the handler and the saving of its capture.
THEOREM LeasesLast == Spec => []LeasesLastAsLongAsWork
<1>1. IInv => LeasesLastAsLongAsWork
  BY DEF IInv, LeaseControl, FitsLease, LeasesLastAsLongAsWork, Live, Unfinished, Quiet
<1> QED BY <1>1, Inductive, PTL

\* Enforced limits are never exceeded, whatever the sequence of policies.
THEOREM LimitsHold == Spec => []WithinLimits
<1>1. IInv => WithinLimits BY DEF IInv
<1> QED BY <1>1, Inductive, PTL

\* Every event that was counted is in exactly one place.
THEOREM EventsAreCounted == Spec => []EventsCounted
<1>1. IInv => EventsCounted BY DEF IInv
<1> QED BY <1>1, Inductive, PTL

\* The audit goroutine never waits on its channel while there is work to do.
THEOREM AuditorIsWoken == Spec => []NoLostWakeup
<1>1. IInv => NoLostWakeup
  BY DEF IInv, FlushControl, EventIsSeen, NoLostWakeup
<1> QED BY <1>1, Inductive, PTL

\* A shutdown that had the time and whose flush succeeded has written every event.
THEOREM ExitLosesNothing == Spec => []NothingLostAtExit
<1>1. ASSUME IInv, main = "exited", ~incomplete PROVE Len(log) = rejected + observed
  <2>1. Sending = {} BY <1>1 DEF IInv, ExitControl, Quiet, Sending
  <2>2. Len(queue) = 0 /\ Len(pending) = 0 BY <1>1 DEF IInv, ExitControl
  <2>3. Len(log) \in Nat /\ rejected \in Nat /\ observed \in Nat BY <1>1 DEF IInv, TypeOK
  <2>4. rejected + observed = Cardinality(Sending) + Len(queue) + Len(pending) + Len(log)
    BY <1>1 DEF IInv, EventsCounted
  <2> QED BY <2>1, <2>2, <2>3, <2>4, FS_EmptySet
<1>2. IInv => NothingLostAtExit BY <1>1 DEF NothingLostAtExit
<1> QED BY <1>2, Inductive, PTL

-----------------------------------------------------------------------------
(* The events as records: where they are and what they say.                *)

\* The elements of a sequence that grows.
LEMMA ElementsAppend ==
    ASSUME NEW S, NEW s \in Seq(S), NEW x \in S
    PROVE  Elements(Append(s, x)) = Elements(s) \cup {x}
<1>1. DOMAIN Append(s, x) = DOMAIN s \cup {Len(s) + 1} OBVIOUS
<1>2. \A i \in DOMAIN s : Append(s, x)[i] = s[i] OBVIOUS
<1>3. Append(s, x)[Len(s) + 1] = x OBVIOUS
<1> QED BY <1>1, <1>2, <1>3 DEF Elements

\* The elements of a sequence that joins another.
LEMMA ElementsConcat ==
    ASSUME NEW S, NEW s \in Seq(S), NEW t \in Seq(S)
    PROVE  Elements(s \o t) = Elements(s) \cup Elements(t)
<1>1. /\ DOMAIN s = 1..Len(s) /\ DOMAIN t = 1..Len(t) /\ Len(s) \in Nat /\ Len(t) \in Nat
      /\ DOMAIN (s \o t) = 1..(Len(s) + Len(t))
      /\ \A i \in 1..(Len(s) + Len(t)) :
             (s \o t)[i] = IF i <= Len(s) THEN s[i] ELSE t[i - Len(s)]
  OBVIOUS
<1>2. ASSUME NEW i \in DOMAIN s PROVE i \in DOMAIN (s \o t) /\ (s \o t)[i] = s[i]
  BY <1>1
<1>3. ASSUME NEW i \in DOMAIN t
      PROVE  i + Len(s) \in DOMAIN (s \o t) /\ (s \o t)[i + Len(s)] = t[i]
  BY <1>1
<1>4. ASSUME NEW i \in DOMAIN (s \o t)
      PROVE  \/ i \in DOMAIN s /\ (s \o t)[i] = s[i]
             \/ i - Len(s) \in DOMAIN t /\ (s \o t)[i] = t[i - Len(s)]
  BY <1>1
<1>5. Elements(s) \subseteq Elements(s \o t) BY <1>2 DEF Elements
<1>6. Elements(t) \subseteq Elements(s \o t) BY <1>3 DEF Elements
<1>7. Elements(s \o t) \subseteq Elements(s) \cup Elements(t) BY <1>4 DEF Elements
<1> QED BY <1>5, <1>6, <1>7

\* The elements of a sequence whose head is taken.
LEMMA ElementsHead ==
    ASSUME NEW S, NEW s \in Seq(S), s # <<>>
    PROVE  Elements(s) = {Head(s)} \cup Elements(Tail(s))
<1>1. Len(s) \in Nat /\ Len(s) # 0 /\ DOMAIN s = 1..Len(s) /\ s[1] = Head(s) OBVIOUS
<1>2. Tail(s) \in Seq(S) /\ Len(Tail(s)) = Len(s) - 1 OBVIOUS
<1>3. DOMAIN Tail(s) = 1..(Len(s) - 1) BY <1>2
<1>4. ASSUME NEW i \in 1..(Len(s) - 1) PROVE Tail(s)[i] = s[i + 1]
  <2>1. i \in Int /\ 1 <= i /\ i <= Len(s) - 1 BY <1>1
  <2> QED BY <2>1, <1>1, <1>2
<1>5. 1 \in DOMAIN s BY <1>1
<1>6. ASSUME NEW i \in DOMAIN Tail(s) PROVE i + 1 \in DOMAIN s /\ Tail(s)[i] = s[i + 1]
  BY <1>1, <1>3, <1>4
<1>7. ASSUME NEW i \in DOMAIN s, i # 1
      PROVE  i - 1 \in DOMAIN Tail(s) /\ Tail(s)[i - 1] = s[i]
  <2>1. i \in Int /\ i - 1 \in 1..(Len(s) - 1) /\ (i - 1) + 1 = i BY <1>1, <1>7
  <2> QED BY <2>1, <1>3, <1>4
<1>8. Head(s) \in Elements(s) BY <1>1, <1>5 DEF Elements
<1>9. Elements(Tail(s)) \subseteq Elements(s) BY <1>6 DEF Elements
<1>10. Elements(s) \subseteq {Head(s)} \cup Elements(Tail(s)) BY <1>1, <1>7 DEF Elements
<1> QED BY <1>8, <1>9, <1>10

\* A step of a handler that neither starts nor ends a send.
LEMMA RecordedSame ==
    ASSUME TypeOK, NEW r \in Requests, NEW n \in Request, req' = [req EXCEPT ![r] = n],
           req[r].pc # "send", n.pc # "send", UNCHANGED <<queue, pending, log>>
    PROVE  Recorded' = Recorded
<1>1. Sending' = Sending /\ r \notin Sending BY SendingSame DEF Sending
<1>2. \A q \in Sending : req'[q] = req[q] BY <1>1 DEF TypeOK, Sending
<1>3. {req[q].event : q \in Sending}' = {req[q].event : q \in Sending} BY <1>1, <1>2
<1>4. /\ Elements(queue)' = Elements(queue) /\ Elements(pending)' = Elements(pending)
      /\ Elements(log)' = Elements(log)
  OBVIOUS
<1> QED BY <1>3, <1>4 DEF Recorded

\* No handler moves.
LEMMA RecordedStays ==
    ASSUME UNCHANGED req, UNCHANGED <<queue, pending, log>>
    PROVE  Recorded' = Recorded
BY DEF Recorded, Sending, Elements

\* A send: the event is in the channel instead of with its handler.
LEMMA RecordedSent ==
    ASSUME TypeOK, NEW r \in Requests, Send(r)
    PROVE  Recorded' = Recorded
<1> DEFINE Held == {req[q].event : q \in Sending}
           x == req[r].event
           n == [req[r] EXCEPT !.pc = "wake"]
<1>1. req[r] \in Request BY DEF TypeOK
<1>2. req' = [req EXCEPT ![r] = n] /\ n.pc # "send" BY <1>1 DEF Send, Request
<1>3. Sending' = Sending \ {r} /\ r \in Sending
  BY <1>2 DEF TypeOK, Sending, Send
<1>4. \A q \in Requests \ {r} : req'[q] = req[q] BY <1>2 DEF TypeOK
<1>5. Held' = {req[q].event : q \in Sending \ {r}} BY <1>3, <1>4 DEF Sending
<1>6. Held = Held' \cup {x} BY <1>3, <1>5
<1>7. Elements(queue)' = Elements(queue) \cup {x}
  <2>1. queue \in Seq(Event) /\ x \in Event BY <1>1 DEF TypeOK, Request
  <2>2. queue' = Append(queue, x) BY DEF Send
  <2> QED BY <2>1, <2>2, ElementsAppend
<1>8. Elements(pending)' = Elements(pending) /\ Elements(log)' = Elements(log)
  BY DEF Send, auditor
<1> HIDE DEF Held, x
<1>9. Recorded = Held \cup Elements(queue) \cup Elements(pending) \cup Elements(log)
  BY DEF Recorded, Held
<1>10. Recorded' = Held' \cup Elements(queue)' \cup Elements(pending)' \cup Elements(log)'
  BY DEF Recorded, Held
<1> QED BY <1>6, <1>7, <1>8, <1>9, <1>10

\* The auditor takes an event from the channel into its batch.
LEMMA RecordedTaken ==
    ASSUME TypeOK, Fill
    PROVE  Recorded' = Recorded
<1>1. queue \in Seq(Event) /\ pending \in Seq(Event) /\ queue # <<>>
  BY DEF TypeOK, Fill
<1>2. Head(queue) \in Event BY <1>1
<1>3. Elements(queue) = {Head(queue)} \cup Elements(queue)'
  BY <1>1, ElementsHead DEF Fill
<1>4. Elements(pending)' = Elements(pending) \cup {Head(queue)}
  BY <1>1, <1>2, ElementsAppend DEF Fill
<1>5. Elements(log)' = Elements(log)
      /\ {req[q].event : q \in Sending}' = {req[q].event : q \in Sending}
  BY DEF Fill, Sending
<1> QED BY <1>3, <1>4, <1>5 DEF Recorded

\* The batch is in the log.
LEMMA RecordedWritten ==
    ASSUME TypeOK, WriteOK
    PROVE  Recorded' = Recorded
<1>1. pending \in Seq(Event) /\ log \in Seq(Event) BY DEF TypeOK
<1>2. Elements(log)' = Elements(log) \cup Elements(pending)
  BY <1>1, ElementsConcat DEF WriteOK
<1>3. Elements(pending)' = {} BY DEF WriteOK, Elements
<1>4. Elements(queue)' = Elements(queue)
      /\ {req[q].event : q \in Sending}' = {req[q].event : q \in Sending}
  BY DEF WriteOK, Sending, events
<1> QED BY <1>2, <1>3, <1>4 DEF Recorded

\* A step that keeps the events keeps what they say, if it keeps it of its request.
LEMMA EventsSettled ==
    ASSUME EventInv, IInv', Recorded' = Recorded, UNCHANGED <<rejected, observed>>,
           \A e \in Recorded : FitsEvent(e, req'[e.request])
    PROVE  EventInv'
<1>1. EventsFit' BY DEF EventsFit
<1>2. NoEventLost' BY DEF EventInv, NoEventLost
<1> QED BY <1>1, <1>2 DEF EventInv

\* The same for a step of one request, in terms of its record.
LEMMA EventStep ==
    ASSUME EventInv, IInv', Recorded' = Recorded, UNCHANGED <<rejected, observed>>,
           NEW r \in Requests, NEW n \in Request, req' = [req EXCEPT ![r] = n],
           \A e \in Event : FitsEvent(e, req[r]) => FitsEvent(e, n)
    PROVE  EventInv'
<1>1. ASSUME NEW e \in Recorded PROVE FitsEvent(e, req'[e.request])
  <2>1. e \in Event /\ e.request \in Requests BY DEF EventInv, Event
  <2>2. FitsEvent(e, req[e.request]) BY DEF EventInv, EventsFit
  <2>3. CASE e.request = r BY <2>1, <2>2, <2>3 DEF EventInv, IInv, TypeOK
  <2>4. CASE e.request # r
    <3>1. req'[e.request] = req[e.request] BY <2>1, <2>4 DEF EventInv, IInv, TypeOK
    <3> QED BY <2>2, <3>1
  <2> QED BY <2>3, <2>4
<1> QED BY <1>1, EventsSettled

\* No request moves.
LEMMA EventStutter ==
    ASSUME EventInv, IInv', Recorded' = Recorded, UNCHANGED <<rejected, observed, req>>
    PROVE  EventInv'
<1>1. \A e \in Recorded : FitsEvent(e, req'[e.request]) BY DEF EventInv, EventsFit
<1> QED BY <1>1, EventsSettled

\* An event that is recorded is a new one: none with its request and its reason is
\* there yet, so the counter it adds to counts it as well.
LEMMA RecordEvents ==
    ASSUME EventInv, IInv', NEW r \in Requests, NEW p \in Policies,
           NEW reason \in AdmissionReasons \cup {"body"},
           NEW next \in {"done", "check", "admit", "serving"},
           Record(r, reason, p, next), UNCHANGED <<pending, log>>,
           req[r].pc # "send", req[r].leased => p = req[r].policy,
           \A e \in Event : FitsEvent(e, req[r]) => e.reason # reason,
           \A e \in Event : FitsEvent(e, req[r]) => FitsEvent(e, req'[r]),
           FitsEvent([request |-> r, reason |-> reason, observed |-> ~p.enforce], req'[r])
    PROVE  EventInv'
<1> DEFINE x == [request |-> r, reason |-> reason, observed |-> ~p.enforce]
<1> USE DEF EventInv, IInv
<1>1. x \in Event BY PolicyType DEF Event
<1>2. x \notin Recorded
  <2>1. SUFFICES ASSUME x \in Recorded PROVE FALSE OBVIOUS
  <2>2. FitsEvent(x, req[x.request]) BY <2>1 DEF EventsFit
  <2>3. x.request = r /\ x.reason = reason OBVIOUS
  <2> QED BY <1>1, <2>2, <2>3
<1>3. /\ \A q \in Requests : q # r => req'[q] = req[q]
      /\ req'[r].pc = "send" /\ req'[r].event = x
  <2>1. req \in [Requests -> Request] /\ req[r] \in Request BY DEF TypeOK
  <2> QED BY <2>1 DEF Record, Request
<1>4. Sending' = Sending \cup {r} /\ r \notin Sending BY <1>3 DEF Sending
<1>5. {req[q].event : q \in Sending}' = {req[q].event : q \in Sending} \cup {x}
  BY <1>3, <1>4 DEF Sending
<1>6. /\ Elements(queue)' = Elements(queue) /\ Elements(pending)' = Elements(pending)
      /\ Elements(log)' = Elements(log)
  BY DEF Record
<1> HIDE DEF x
<1>7. Recorded' = Recorded \cup {x} BY <1>5, <1>6 DEF Recorded
<1>8. Recorded' \subseteq Event /\ IsFiniteSet(Recorded')
  BY <1>1, <1>7, FS_AddElement
<1>9. EventsFit'
  <2>1. ASSUME NEW e \in Recorded' PROVE FitsEvent(e, req'[e.request])
    <3>1. CASE e = x
      <4>1. e.request = r BY <3>1 DEF x
      <4> QED BY <3>1, <4>1 DEF x
    <3>2. CASE e \in Recorded
      <4>1. e \in Event /\ e.request \in Requests /\ FitsEvent(e, req[e.request])
        BY <3>2 DEF Event, EventsFit
      <4>2. CASE e.request = r BY <4>1, <4>2
      <4>3. CASE e.request # r
        <5>1. req'[e.request] = req[e.request] BY <1>3, <4>1, <4>3
        <5> QED BY <4>1, <5>1
      <4> QED BY <4>2, <4>3
    <3> QED BY <1>7, <3>1, <3>2
  <2> QED BY <2>1 DEF EventsFit
<1>10. NoEventLost'
  <2> DEFINE Seen(R) == {e \in R : e.observed}
             Refused(R) == {e \in R : ~e.observed}
  <2>1. IsFiniteSet(Seen(Recorded)) /\ IsFiniteSet(Refused(Recorded)) BY FS_Subset
  <2>2. x \notin Seen(Recorded) /\ x \notin Refused(Recorded) BY <1>2
  <2>3. x.observed = ~p.enforce BY DEF x
  <2>4. /\ rejected = Cardinality(Refused(Recorded))
        /\ observed = Cardinality(Seen(Recorded))
    BY DEF NoEventLost
  <2>5. CASE p.enforce
    <3>1. rejected' = rejected + 1 /\ observed' = observed BY <2>5 DEF Record
    <3>2. Seen(Recorded') = Seen(Recorded) BY <1>7, <2>3, <2>5
    <3>3. Refused(Recorded') = Refused(Recorded) \cup {x} BY <1>7, <2>3, <2>5
    <3>4. Cardinality(Refused(Recorded')) = Cardinality(Refused(Recorded)) + 1
      <4> HIDE DEF Seen, Refused
      <4> QED BY <2>1, <2>2, <3>3, FS_AddElement
    <3>5. /\ rejected' = Cardinality(Refused(Recorded'))
          /\ observed' = Cardinality(Seen(Recorded'))
      <4> HIDE DEF Seen, Refused
      <4> QED BY <2>4, <3>1, <3>2, <3>4
    <3> QED BY <3>5 DEF NoEventLost
  <2>6. CASE ~p.enforce
    <3>1. observed' = observed + 1 /\ rejected' = rejected BY <2>6 DEF Record
    <3>2. Refused(Recorded') = Refused(Recorded) BY <1>7, <2>3, <2>6
    <3>3. Seen(Recorded') = Seen(Recorded) \cup {x} BY <1>7, <2>3, <2>6
    <3>4. Cardinality(Seen(Recorded')) = Cardinality(Seen(Recorded)) + 1
      <4> HIDE DEF Seen, Refused
      <4> QED BY <2>1, <2>2, <3>3, FS_AddElement
    <3>5. /\ rejected' = Cardinality(Refused(Recorded'))
          /\ observed' = Cardinality(Seen(Recorded'))
      <4> HIDE DEF Seen, Refused
      <4> QED BY <2>4, <3>1, <3>2, <3>4
    <3> QED BY <3>5 DEF NoEventLost
  <2> QED BY <2>5, <2>6
<1> QED BY <1>8, <1>9, <1>10


(* What the events of a request say stays true along its steps.            *)

\* Until its lease is given, a request has only been observed.
LEMMA FitsLeased ==
    ASSUME NEW q \in Request, FitsLease(q), q.pc \in {"arrived", "check", "admit"},
           NEW p \in Policies, NEW e \in Event, FitsEvent(e, q)
    PROVE  FitsEvent(e, [q EXCEPT !.pc = "serving", !.policy = p, !.leased = TRUE])
BY DEF Request, FitsLease, FitsEvent, GoesTo, Pending

\* A send and its token are on the way to where the handler goes on.
LEMMA FitsSent ==
    ASSUME NEW q \in Request, q.pc = "send", NEW e \in Event, FitsEvent(e, q)
    PROVE  FitsEvent(e, [q EXCEPT !.pc = "wake"])
BY DEF Request, FitsEvent, GoesTo, Pending

\* The handler goes on where it meant to.
LEMMA FitsWoken ==
    ASSUME NEW q \in Request, FitsLease(q), q.pc = "wake", NEW e \in Event, FitsEvent(e, q)
    PROVE  FitsEvent(e, [q EXCEPT !.pc = q.next])
<1>1. q.next \in {"done", "check", "admit", "serving"} BY DEF FitsLease, Pending
<1> QED BY <1>1 DEF Request, FitsEvent, GoesTo, Pending

\* While a lease lasts, and after it.
LEMMA FitsWhileLeased ==
    ASSUME NEW q \in Request, q.leased, NEW n, n.leased, n.policy = q.policy,
           n.noted = q.noted, n.pc \in {"serving", "release", "finish", "model_done", "done"},
           NEW e \in Event, FitsEvent(e, q)
    PROVE  FitsEvent(e, n)
BY DEF FitsEvent, GoesTo, Pending

\* A request observed for its size is looked at again, and only once.
LEMMA FitsObservedAgain ==
    ASSUME NEW q \in Request, FitsLease(q), q.pc = "check", NEW n, n.pc = "send",
           n.next = "admit", NEW e \in Event, FitsEvent(e, q)
    PROVE  FitsEvent(e, n)
BY DEF FitsLease, FitsEvent, GoesTo, Pending

\* A lease notes a body.
LEMMA FitsNoted ==
    ASSUME NEW q \in Request, FitsLease(q), q.pc = "serving", NEW n, n.pc = "send",
           n.next = "serving", n.leased, n.policy = q.policy, n.noted,
           NEW e \in Event, FitsEvent(e, q)
    PROVE  FitsEvent(e, n)
BY DEF FitsLease, FitsEvent, GoesTo, Pending


-----------------------------------------------------------------------------
(* The steps keep the events and what they say.                            *)

\* A handler, or the saver of its capture, that works under its lease.
LEMMA EventsWhileLeased ==
    ASSUME EventInv, IInv', NEW r \in Requests, NEW n,
           req' = [req EXCEPT ![r] = n], UNCHANGED <<rejected, observed, queue, pending, log>>,
           req[r].leased, req[r].pc # "send", n.leased,
           n.policy = req[r].policy, n.noted = req[r].noted,
           n.pc \in {"serving", "release", "finish", "model_done", "done"}
    PROVE  EventInv'
<1>1. req[r] \in Request /\ TypeOK BY DEF EventInv, IInv, TypeOK
<1>2. n \in Request
  <2>1. req'[r] = n /\ req' \in [Requests -> Request] BY <1>1 DEF IInv, TypeOK
  <2> QED BY <2>1
<1>3. Recorded' = Recorded BY <1>1, <1>2, RecordedSame
<1>4. \A e \in Event : FitsEvent(e, req[r]) => FitsEvent(e, n) BY <1>1, FitsWhileLeased
<1> QED BY <1>2, <1>3, <1>4, EventStep

\* A request arrives: it has no event yet.
LEMMA EventsArrive ==
    ASSUME EventInv, IInv', NEW r \in Requests, Arrive(r)
    PROVE  EventInv'
<1> DEFINE n == [req[r] EXCEPT !.pc = "arrived"]
<1>1. req[r] \in Request /\ TypeOK BY DEF EventInv, IInv, TypeOK
<1>2. n \in Request /\ n.pc = "arrived" BY <1>1 DEF Request, Steps
<1>3. req' = [req EXCEPT ![r] = n] /\ req[r].pc = "new" BY DEF Arrive
<1>4. UNCHANGED <<rejected, observed, queue, pending, log>> BY DEF Arrive, events, auditor
<1>5. \A e \in Event : ~FitsEvent(e, req[r]) BY <1>3 DEF FitsEvent
<1> HIDE DEF n
<1>6. Recorded' = Recorded BY <1>1, <1>2, <1>3, <1>4, RecordedSame
<1> QED BY <1>2, <1>3, <1>4, <1>5, <1>6, EventStep

\* A lease is given.
LEMMA EventsLease ==
    ASSUME EventInv, IInv', NEW r \in Requests, NEW p \in Policies, Lease(r, p),
           UNCHANGED auditor, req[r].pc \in {"arrived", "check", "admit"}
    PROVE  EventInv'
<1> DEFINE n == [req[r] EXCEPT !.pc = "serving", !.policy = p, !.leased = TRUE]
<1>1. req[r] \in Request /\ FitsLease(req[r]) /\ TypeOK
  BY DEF EventInv, IInv, TypeOK, LeaseControl
<1>2. n \in Request /\ n.pc = "serving" BY <1>1 DEF Request, Steps
<1>3. req' = [req EXCEPT ![r] = n] BY DEF Lease
<1>4. UNCHANGED <<rejected, observed, queue, pending, log>> BY DEF Lease, events, auditor
<1>5. \A e \in Event : FitsEvent(e, req[r]) => FitsEvent(e, n) BY <1>1, FitsLeased
<1> HIDE DEF n
<1>6. Recorded' = Recorded BY <1>1, <1>2, <1>3, <1>4, RecordedSame
<1> QED BY <1>2, <1>3, <1>4, <1>5, <1>6, EventStep

\* The first event of a request that has just arrived.
LEMMA EventsFirst ==
    ASSUME EventInv, IInv', NEW r \in Requests, NEW p \in Policies,
           NEW reason \in AdmissionReasons, NEW next \in {"done", "check", "admit"},
           next = "check" => reason = "request_too_large", (next = "done") <=> p.enforce,
           Record(r, reason, p, next), UNCHANGED auditor, req[r].pc = "arrived"
    PROVE  EventInv'
<1> DEFINE x == [request |-> r, reason |-> reason, observed |-> ~p.enforce]
<1>1. req[r] \in Request /\ FitsLease(req[r]) /\ req \in [Requests -> Request]
  BY DEF EventInv, IInv, TypeOK, LeaseControl
<1>2. ~req[r].leased BY <1>1 DEF FitsLease
<1>3. \A e \in Event : ~FitsEvent(e, req[r]) BY DEF FitsEvent
<1>4. req'[r].pc = "send" /\ req'[r].next = next /\ ~req'[r].leased
  BY <1>1, <1>2 DEF Record, Request
<1>5. reason # "body" BY DEF AdmissionReasons
<1>6. p.enforce \in BOOLEAN BY PolicyType
<1>7. FitsEvent(x, req'[r]) BY <1>4, <1>5, <1>6 DEF FitsEvent, GoesTo, Pending
<1> QED BY <1>2, <1>3, <1>7, RecordEvents DEF auditor

\* A request observed for its size is observed once more, for a limit.
LEMMA EventsSecond ==
    ASSUME EventInv, IInv', NEW r \in Requests, NEW reason \in AdmissionReasons,
           reason # "request_too_large",
           Record(r, reason, req[r].policy, "admit"), UNCHANGED auditor, req[r].pc = "check"
    PROVE  EventInv'
<1> DEFINE p == req[r].policy
           x == [request |-> r, reason |-> reason, observed |-> ~p.enforce]
<1>1. req[r] \in Request /\ FitsLease(req[r]) /\ req \in [Requests -> Request]
  BY DEF EventInv, IInv, TypeOK, LeaseControl
<1>2. ~req[r].leased /\ ~p.enforce /\ p \in Policies BY <1>1 DEF FitsLease, Request
<1>3. \A e \in Event : FitsEvent(e, req[r]) => e.reason = "request_too_large"
  BY DEF FitsEvent, GoesTo
<1>4. reason # "body" BY DEF AdmissionReasons
<1>5. req'[r].pc = "send" /\ req'[r].next = "admit" BY <1>1 DEF Record, Request
<1>6. \A e \in Event : FitsEvent(e, req[r]) => FitsEvent(e, req'[r])
  BY <1>1, <1>5, FitsObservedAgain
<1>8. FitsEvent(x, req'[r]) BY <1>2, <1>4, <1>5 DEF FitsEvent, GoesTo, Pending
<1> QED BY <1>2, <1>3, <1>6, <1>8, RecordEvents DEF auditor

\* A body over the limit, noted once for a lease.
LEMMA EventsBody ==
    ASSUME EventInv, IInv', NEW r \in Requests, RecordBody(r)
    PROVE  EventInv'
<1> DEFINE p == req[r].policy
           x == [request |-> r, reason |-> "body", observed |-> ~p.enforce]
<1>1. req[r] \in Request /\ FitsLease(req[r]) /\ req \in [Requests -> Request]
  BY DEF EventInv, IInv, TypeOK, LeaseControl
<1>2. req[r].pc = "serving" /\ ~req[r].noted /\ Record(r, "body", p, "serving")
      /\ UNCHANGED auditor
  BY DEF RecordBody
<1>3. req[r].leased /\ p \in Policies BY <1>1, <1>2 DEF FitsLease, Request
<1>4. \A e \in Event : FitsEvent(e, req[r]) => e.reason # "body" BY <1>2 DEF FitsEvent
<1>5. /\ req'[r].pc = "send" /\ req'[r].next = "serving" /\ req'[r].noted
      /\ req'[r].leased /\ req'[r].policy = p
  BY <1>1, <1>2, <1>3 DEF Record, Request
<1>6. \A e \in Event : FitsEvent(e, req[r]) => FitsEvent(e, req'[r])
  BY <1>1, <1>2, <1>5, FitsNoted
<1>8. FitsEvent(x, req'[r]) BY <1>3, <1>5 DEF FitsEvent, GoesTo, Pending
<1> QED BY <1>2, <1>3, <1>4, <1>6, <1>8, RecordEvents DEF auditor

\* The check of the limits grants the lease or records why it would not.
LEMMA EventsCheck ==
    ASSUME EventInv, IInv', NEW r \in Requests, NEW p \in Policies, Check(r, p),
           UNCHANGED auditor,
           req[r].pc = "arrived" \/ (req[r].pc = "check" /\ p = req[r].policy)
    PROVE  EventInv'
<1>1. CASE Lease(r, p) BY <1>1, EventsLease
<1>2. CASE /\ Reason(p, Owner[r]) # ""
           /\ Record(r, Reason(p, Owner[r]), p, IF p.enforce THEN "done" ELSE "admit")
  <2> DEFINE next == IF p.enforce THEN "done" ELSE "admit"
  <2>1. Reason(p, Owner[r]) \in AdmissionReasons \ {"request_too_large"}
    BY <1>2 DEF Reason, AdmissionReasons
  <2>2. next \in {"done", "check", "admit"} /\ next # "check" /\ ((next = "done") <=> p.enforce)
    OBVIOUS
  <2>3. CASE req[r].pc = "arrived"
    <3> HIDE DEF next
    <3>1. Record(r, Reason(p, Owner[r]), p, next) BY <1>2 DEF next
    <3> QED BY <2>1, <2>2, <2>3, <3>1, EventsFirst
  <2>4. CASE req[r].pc = "check" /\ p = req[r].policy
    <3>1. ~p.enforce BY <2>4 DEF EventInv, IInv, LeaseControl, FitsLease
    <3>2. Record(r, Reason(p, Owner[r]), req[r].policy, "admit") BY <1>2, <2>4, <3>1
    <3> QED BY <2>1, <2>4, <3>2, EventsSecond
  <2> QED BY <2>3, <2>4
<1> QED BY <1>1, <1>2 DEF Check

\* A request is refused or observed for its size, or its limits are checked.
LEMMA EventsAcquire ==
    ASSUME EventInv, IInv', NEW r \in Requests, AcquireRequest(r)
    PROVE  EventInv'
<1>1. policy \in Policies /\ req[r].pc = "arrived" /\ UNCHANGED auditor
  BY DEF EventInv, IInv, TypeOK, AcquireRequest
<1>2. CASE Record(r, "request_too_large", policy, IF policy.enforce THEN "done" ELSE "check")
  <2>1. "request_too_large" \in AdmissionReasons BY DEF AdmissionReasons
  <2>2. CASE policy.enforce
    <3>1. Record(r, "request_too_large", policy, "done") BY <1>2, <2>2
    <3> QED BY <1>1, <2>1, <2>2, <3>1, EventsFirst
  <2>3. CASE ~policy.enforce
    <3>1. Record(r, "request_too_large", policy, "check") BY <1>2, <2>3
    <3> QED BY <1>1, <2>1, <2>3, <3>1, EventsFirst
  <2> QED BY <2>2, <2>3
<1>3. CASE Check(r, policy) BY <1>1, <1>3, EventsCheck
<1> QED BY <1>2, <1>3 DEF AcquireRequest

\* A handler sends its event.
LEMMA EventsSend ==
    ASSUME EventInv, IInv', NEW r \in Requests, Send(r)
    PROVE  EventInv'
<1> DEFINE n == [req[r] EXCEPT !.pc = "wake"]
<1>1. req[r] \in Request /\ TypeOK /\ req[r].pc = "send" BY DEF EventInv, IInv, TypeOK, Send
<1>2. n \in Request BY <1>1 DEF Request, Steps
<1>3. req' = [req EXCEPT ![r] = n] /\ UNCHANGED <<rejected, observed>> BY DEF Send
<1>4. \A e \in Event : FitsEvent(e, req[r]) => FitsEvent(e, n) BY <1>1, FitsSent
<1> HIDE DEF n
<1>5. Recorded' = Recorded BY <1>1, RecordedSent
<1> QED BY <1>2, <1>3, <1>4, <1>5, EventStep

\* The handler leaves the token and goes on.
LEMMA EventsWake ==
    ASSUME EventInv, IInv', NEW r \in Requests, Wake(r)
    PROVE  EventInv'
<1> DEFINE n == [req[r] EXCEPT !.pc = req[r].next]
<1>1. req[r] \in Request /\ FitsLease(req[r]) /\ TypeOK /\ req[r].pc = "wake"
  BY DEF EventInv, IInv, TypeOK, LeaseControl, Wake
<1>2. n \in Request /\ n.pc # "send" BY <1>1 DEF Request, FitsLease, Pending
<1>3. req' = [req EXCEPT ![r] = n] /\ UNCHANGED <<rejected, observed, queue, pending, log>>
  BY DEF Wake, auditor
<1>4. \A e \in Event : FitsEvent(e, req[r]) => FitsEvent(e, n) BY <1>1, FitsWoken
<1> HIDE DEF n
<1>5. Recorded' = Recorded BY <1>1, <1>2, <1>3, RecordedSame
<1> QED BY <1>2, <1>3, <1>4, <1>5, EventStep

\* The end of a lease, by the handler or by the saver, records nothing.
LEMMA EventsLeaseEnds ==
    ASSUME EventInv, IInv', NEW r \in Requests,
           \/ StartCapture(r) \/ Return(r) \/ Release(r) \/ Finish(r) \/ LastModelDone(r)
           \/ SavedRelease(r) \/ SavedFinish(r)
    PROVE  EventInv'
<1>1. req[r] \in Request /\ FitsLease(req[r]) BY DEF EventInv, IInv, TypeOK, LeaseControl
<1>2. UNCHANGED <<rejected, observed, queue, pending, log>>
  BY DEF StartCapture, Return, Release, Finish, LastModelDone, SavedRelease, SavedFinish,
         events, auditor
<1>3. CASE StartCapture(r)
  <2> DEFINE n == [req[r] EXCEPT !.capture = "open"]
  <2>1. req[r].leased /\ req[r].pc = "serving" /\ req' = [req EXCEPT ![r] = n]
    BY <1>1, <1>3 DEF StartCapture, FitsLease
  <2>2. n.leased /\ n.pc = "serving" /\ n.policy = req[r].policy /\ n.noted = req[r].noted
    BY <1>1, <2>1 DEF Request
  <2> HIDE DEF n
  <2> QED BY <1>2, <2>1, <2>2, EventsWhileLeased
<1>4. CASE Return(r) /\ req[r].capture = "open"
  <2> DEFINE n == [req[r] EXCEPT !.capture = "saving", !.pc = "model_done"]
  <2>1. req[r].leased /\ req[r].pc = "serving" /\ req' = [req EXCEPT ![r] = n]
    BY <1>1, <1>4 DEF Return, FitsLease
  <2>2. n.leased /\ n.pc = "model_done" /\ n.policy = req[r].policy /\ n.noted = req[r].noted
    BY <1>1, <2>1 DEF Request
  <2> HIDE DEF n
  <2> QED BY <1>2, <2>1, <2>2, EventsWhileLeased
<1>5. CASE Return(r) /\ req[r].capture # "open"
  <2> DEFINE n == [req[r] EXCEPT !.pc = "release"]
  <2>1. req[r].leased /\ req[r].pc = "serving" /\ req' = [req EXCEPT ![r] = n]
    BY <1>1, <1>5 DEF Return, FitsLease
  <2>2. n.leased /\ n.pc = "release" /\ n.policy = req[r].policy /\ n.noted = req[r].noted
    BY <1>1, <2>1 DEF Request
  <2> HIDE DEF n
  <2> QED BY <1>2, <2>1, <2>2, EventsWhileLeased
<1>6. CASE Release(r)
  <2> DEFINE n == [req[r] EXCEPT !.pc = "finish", !.released = TRUE]
  <2>1. req[r].leased /\ req[r].pc = "release" /\ req' = [req EXCEPT ![r] = n]
    BY <1>1, <1>6 DEF Release, FitsLease
  <2>2. n.leased /\ n.pc = "finish" /\ n.policy = req[r].policy /\ n.noted = req[r].noted
    BY <1>1, <2>1 DEF Request
  <2> HIDE DEF n
  <2> QED BY <1>2, <2>1, <2>2, EventsWhileLeased
<1>7. CASE Finish(r)
  <2> DEFINE n == [req[r] EXCEPT !.pc = "model_done", !.finished = TRUE]
  <2>1. req[r].leased /\ req[r].pc = "finish" /\ req' = [req EXCEPT ![r] = n]
    BY <1>1, <1>7 DEF Finish, FitsLease
  <2>2. n.leased /\ n.pc = "model_done" /\ n.policy = req[r].policy /\ n.noted = req[r].noted
    BY <1>1, <2>1 DEF Request
  <2> HIDE DEF n
  <2> QED BY <1>2, <2>1, <2>2, EventsWhileLeased
<1>8. CASE LastModelDone(r)
  <2> DEFINE n == [req[r] EXCEPT !.pc = "done", !.released = TRUE]
  <2>1. req[r].leased /\ req[r].pc = "model_done" /\ req' = [req EXCEPT ![r] = n]
    BY <1>1, <1>8 DEF LastModelDone, FitsLease
  <2>2. n.leased /\ n.pc = "done" /\ n.policy = req[r].policy /\ n.noted = req[r].noted
    BY <1>1, <2>1 DEF Request
  <2> HIDE DEF n
  <2> QED BY <1>2, <2>1, <2>2, EventsWhileLeased
<1>9. CASE SavedRelease(r)
  <2> DEFINE n == [req[r] EXCEPT !.capture = "finish", !.released = TRUE]
  <2>1. req[r].leased /\ req[r].pc \in {"model_done", "done"} /\ req' = [req EXCEPT ![r] = n]
    BY <1>1, <1>9 DEF SavedRelease, FitsLease, Request
  <2>2. n.leased /\ n.pc = req[r].pc /\ n.policy = req[r].policy /\ n.noted = req[r].noted
    BY <1>1, <2>1 DEF Request
  <2> HIDE DEF n
  <2> QED BY <1>2, <2>1, <2>2, EventsWhileLeased
<1>10. CASE SavedFinish(r)
  <2> DEFINE n == [req[r] EXCEPT !.capture = "saved", !.finished = TRUE]
  <2>1. req[r].leased /\ req[r].pc \in {"model_done", "done"} /\ req' = [req EXCEPT ![r] = n]
    BY <1>1, <1>10 DEF SavedFinish, FitsLease, Request
  <2>2. n.leased /\ n.pc = req[r].pc /\ n.policy = req[r].policy /\ n.noted = req[r].noted
    BY <1>1, <2>1 DEF Request
  <2> HIDE DEF n
  <2> QED BY <1>2, <2>1, <2>2, EventsWhileLeased
<1> QED BY <1>3, <1>4, <1>5, <1>6, <1>7, <1>8, <1>9, <1>10

\* The initial states have no events.
LEMMA InitEventInv == ASSUME Init PROVE EventInv
<1>1. Recorded = {}
  <2>1. Sending = {} BY DEF Init, New, Sending
  <2>2. Elements(queue) = {} /\ Elements(pending) = {} /\ Elements(log) = {}
    BY DEF Init, Elements
  <2> QED BY <2>1, <2>2 DEF Recorded
<1>2. NoEventLost
  <2>1. {e \in Recorded : ~e.observed} = {} /\ {e \in Recorded : e.observed} = {} BY <1>1
  <2> QED BY <2>1, FS_EmptySet DEF NoEventLost, Init
<1> QED BY <1>1, <1>2, InitIInv, FS_EmptySet DEF EventInv, EventsFit

\* Every step keeps the events, where they are counted and what they say.
LEMMA NextEventInv == ASSUME EventInv, [Next]_vars PROVE EventInv'
<1>1. IInv' BY NextIInv DEF EventInv
<1>2. TypeOK BY DEF EventInv, IInv
<1>3. CASE UNCHANGED vars
  <2>1. UNCHANGED <<events, auditor, req>> BY <1>3 DEF vars
  <2>2. UNCHANGED <<rejected, observed, queue, pending, log, req>>
    BY <2>1 DEF events, auditor
  <2> QED BY <1>1, <2>2, RecordedStays, EventStutter
<1>4. ASSUME NEW r \in Requests,
             Arrive(r) \/ Handler(r) \/ StartCapture(r) \/ RecordBody(r) \/ Saver(r)
      PROVE  EventInv'
  <2>1. CASE Arrive(r) BY <1>1, <2>1, EventsArrive
  <2>2. CASE AcquireRequest(r) BY <1>1, <2>2, EventsAcquire
  <2>3. CASE Recheck(r)
    <3>1. req[r].policy \in Policies BY <1>2 DEF TypeOK, Request
    <3> QED BY <1>1, <2>3, <3>1, EventsCheck DEF Recheck
  <2>4. CASE AdmitObserved(r)
    <3>1. req[r].policy \in Policies BY <1>2 DEF TypeOK, Request
    <3> QED BY <1>1, <2>4, <3>1, EventsLease DEF AdmitObserved
  <2>5. CASE Send(r) BY <1>1, <2>5, EventsSend
  <2>6. CASE Wake(r) BY <1>1, <2>6, EventsWake
  <2>7. CASE RecordBody(r) BY <1>1, <2>7, EventsBody
  <2>8. CASE \/ StartCapture(r) \/ Return(r) \/ Release(r) \/ Finish(r) \/ LastModelDone(r)
             \/ Saver(r)
    BY <1>1, <2>8, EventsLeaseEnds DEF Saver
  <2> QED BY <1>4, <2>1, <2>2, <2>3, <2>4, <2>5, <2>6, <2>7, <2>8 DEF Handler
<1>5. CASE SetPolicy \/ Monitor \/ Stop \/ FinalFlush
  <2>1. UNCHANGED <<rejected, observed, queue, pending, log, req>>
    BY <1>5 DEF SetPolicy, Monitor, Stop, FinalFlush, events, auditor
  <2> QED BY <1>1, <2>1, RecordedStays, EventStutter
<1>6. CASE FlushHead \/ Drained \/ WriteFails \/ Auditor
  <2>1. UNCHANGED <<rejected, observed, queue, pending, log, req>>
    BY <1>6 DEF FlushHead, Drained, WriteFails, Auditor, AuditWake, AuditFlush, AuditRetry,
                AuditTimer, AuditStops, events
  <2> QED BY <1>1, <2>1, RecordedStays, EventStutter
<1>7. CASE Fill
  <2>1. UNCHANGED <<rejected, observed, req>> BY <1>7 DEF Fill
  <2> QED BY <1>1, <1>2, <1>7, <2>1, RecordedTaken, EventStutter
<1>8. CASE WriteOK
  <2>1. UNCHANGED <<rejected, observed, req>> BY <1>8 DEF WriteOK, events
  <2> QED BY <1>1, <1>2, <1>8, <2>1, RecordedWritten, EventStutter
<1>9. CASE Rest BY <1>3, <1>9 DEF Rest
<1> QED BY <1>3, <1>4, <1>5, <1>6, <1>7, <1>8, <1>9 DEF Next, Running, Flush

\* The events stay in the places that are counted, and say what happened.
THEOREM EventsInductive == Spec => []EventInv
<1>1. Init => EventInv BY InitEventInv
<1>2. EventInv /\ [Next]_vars => EventInv' BY NextEventInv
<1> QED BY <1>1, <1>2, PTL DEF Spec

\* Every event that was counted is found, once, as what it was counted for: no
\* failed batch, no shutdown and no full channel loses, doubles or relabels one.
THEOREM EventsAreKept == Spec => []NoEventLost
<1>1. EventInv => NoEventLost BY DEF EventInv
<1> QED BY <1>1, EventsInductive, PTL

\* The log tells the outcome: what was rejected was never served, and what a lease
\* records keeps the mode it was admitted under.
THEOREM LogIsTrue == Spec => []LogTellsOutcome
<1>1. ASSUME EventInv PROVE LogTellsOutcome
  <2>1. ASSUME NEW e \in Recorded, e.reason # "body", e.observed
        PROVE  req[e.request].leased \/ req[e.request].pc # "done"
    <3>1. FitsEvent(e, req[e.request]) BY <1>1, <2>1 DEF EventInv, EventsFit
    <3> QED BY <2>1, <3>1 DEF FitsEvent, GoesTo, Pending
  <2> QED BY <1>1, <2>1 DEF EventInv, EventsFit, FitsEvent, LogTellsOutcome
<1>2. EventInv => LogTellsOutcome BY <1>1
<1> QED BY <1>2, EventsInductive, PTL

=============================================================================
