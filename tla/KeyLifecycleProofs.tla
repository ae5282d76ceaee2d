------------------------- MODULE KeyLifecycleProofs -------------------------
(***************************************************************************)
(* What holds of KeyLifecycle for any number of users, keys, handlers and  *)
(* faults, under every interleaving: IInv is inductive.                    *)
(***************************************************************************)
EXTENDS KeyLifecycle, FiniteSetTheorems, TLAPS

-----------------------------------------------------------------------------
(* A step of a goroutine replaces its own record.  These lemmas say when    *)
(* the new record is legal, for each way of moving on.                      *)

ThOK == th \in [Threads -> Thread] /\ ControlOK

\* What a goroutine may remember: reads of the CPA list and of the tables.
StoresOK == cpa \subseteq Keys \cup Manual /\ alias \subseteq Keys /\ jobs \subseteq Jobs

\* A goroutine without an operation has a legal record.
LEMMA IdleTyping == Idle \in Thread /\ Fits(Idle)
BY DEF Thread, Idle, NoJob, Jobs, Labels, AllOperations, Fits, Revokers

\* Replacing the record of one goroutine by a legal one keeps the records legal.
LEMMA BecomeTyping ==
    ASSUME ThOK, NEW t \in Threads, NEW r \in Thread, Fits(r), Become(t, r)
    PROVE  ThOK' /\ th'[t] = r /\ \A v \in Threads \ {t} : th'[v] = th[v]
BY DEF ThOK, ControlOK, Become

\* Ending an operation keeps the records legal.
LEMMA FinishTyping ==
    ASSUME ThOK, NEW t \in Threads, Finish(t)
    PROVE  ThOK'
BY IdleTyping, BecomeTyping DEF Finish

\* So does moving on to an access that the operation may reach.
LEMMA MoveTyping ==
    ASSUME ThOK, StoresOK, NEW t \in Threads, NEW label \in Labels,
           Goto(t, label) \/ ReadList(t, label) \/ Forget(t, label),
           Fits([th[t] EXCEPT !.pc = label])
    PROVE  ThOK'
<1> DEFINE r == [th[t] EXCEPT !.pc = label]
<1>1. /\ r \in Thread
      /\ [r EXCEPT !.list = cpa] \in Thread
      /\ [r EXCEPT !.list = {}, !.names = {}] \in Thread
  BY DEF ThOK, StoresOK, Thread
<1>2. /\ Fits([r EXCEPT !.list = cpa])
      /\ Fits([r EXCEPT !.list = {}, !.names = {}])
  <2>1. th[t] \in Thread
    BY DEF ThOK
  <2> QED
    BY <2>1 DEF Fits, Thread
<1>3. /\ [th[t] EXCEPT !.pc = label, !.list = cpa] = [r EXCEPT !.list = cpa]
      /\ [th[t] EXCEPT !.pc = label, !.list = {}, !.names = {}]
            = [r EXCEPT !.list = {}, !.names = {}]
  OBVIOUS
<1> QED
  BY <1>1, <1>2, <1>3, BecomeTyping DEF Goto, ReadList, Forget

\* So does moving on with a key that was picked.
LEMMA TakeTyping ==
    ASSUME ThOK, NEW t \in Threads, NEW label \in Labels, NEW k \in Keys \cup {NoKey},
           Take(t, label, k), Fits([th[t] EXCEPT !.pc = label, !.key = k])
    PROVE  ThOK'
<1>1. [th[t] EXCEPT !.pc = label, !.key = k] \in Thread
  BY DEF ThOK, Thread
<1> QED
  BY <1>1, BecomeTyping DEF Take

\* So does starting an operation.
LEMMA StartTyping ==
    ASSUME ThOK, NEW t \in Threads, NEW u \in Users \cup {NoUser}, NEW label \in Labels,
           NEW operation, Start(t, operation, u, label),
           Fits([Idle EXCEPT !.op = operation, !.pc = label, !.user = u])
    PROVE  ThOK'
<1>1. [Idle EXCEPT !.op = operation, !.pc = label, !.user = u] \in Thread
  BY ConstantsAssumption DEF Start, Thread, Idle, NoJob
<1> QED
  BY <1>1, BecomeTyping DEF Start

\* So does ProcessJobs going on to its next job.
LEMMA JobsTyping ==
    ASSUME ThOK, NEW t \in Threads, NEW due \in SUBSET Jobs,
           Become(t, [Idle EXCEPT !.op = "jobs", !.pc = "jobs.next", !.due = due])
    PROVE  ThOK'
<1> DEFINE r == [Idle EXCEPT !.op = "jobs", !.pc = "jobs.next", !.due = due]
<1>1. r \in Thread
  BY DEF Thread, Idle, NoJob, Labels, AllOperations
<1>2. Fits(r)
  BY DEF Fits, Idle, Revokers
<1> QED
  BY <1>1, <1>2, BecomeTyping

\* So does Keys.Revoke returning to any of its three callers.
LEMMA RevokeReturnsTyping ==
    ASSUME ThOK, StoresOK, NEW t \in Threads, NEW done \in BOOLEAN,
           th[t].op \in Revokers, th[t].user \in Users, RevokeReturns(t, done)
    PROVE  ThOK'
<1>1. th[t] \in Thread
  BY DEF ThOK
<1>2. /\ Fits([th[t] EXCEPT !.pc = "settle"])
      /\ th[t].op # "jobs" => Fits([th[t] EXCEPT !.pc = "queue.active"])
  BY <1>1 DEF Fits, Revokers, Thread
<1>3. th[t].due \in SUBSET Jobs /\ {"settle", "queue.active"} \subseteq Labels
  BY <1>1 DEF Thread, Labels
<1> QED
  BY <1>2, <1>3, FinishTyping, MoveTyping, JobsTyping DEF RevokeReturns, NextJob

\* So does cpamp.RemoveAPIKey returning to Revoke or to the rollback of Issue.
LEMMA RemoveReturnsTyping ==
    ASSUME ThOK, StoresOK, NEW t \in Threads, NEW done \in BOOLEAN,
           th[t].op \in Revokers \cup {"claim"}, th[t].user \in Users, th[t].key \in Keys,
           RemoveReturns(t, done)
    PROVE  ThOK'
<1>1. th[t] \in Thread
  BY DEF ThOK
<1>2. /\ th[t].op = "claim" => Fits([th[t] EXCEPT !.pc = "undo.alias"])
      /\ th[t].op # "claim" => Fits([th[t] EXCEPT !.pc = "revoke.alias"])
  BY <1>1 DEF Fits, Revokers, Thread
<1>3. {"undo.alias", "revoke.alias"} \subseteq Labels
  BY DEF Labels
<1> QED
  BY <1>2, <1>3, FinishTyping, MoveTyping, RevokeReturnsTyping DEF RemoveReturns

\* Every step of a running goroutine keeps the records legal.
LEMMA ContinueThOK ==
    ASSUME ThOK, StoresOK, NEW t \in Threads, Continue(t)
    PROVE  ThOK'
<1>0. th[t] \in Thread /\ Fits(th[t])
  BY DEF ThOK, ControlOK
<1>1. CASE IssueActive(t)
  <2>1. ASSUME NEW k \in Keys
        PROVE  Fits([th[t] EXCEPT !.pc = "add.list", !.key = k])
    BY <1>0, <1>1 DEF Thread, Fits, Revokers, At, IssueActive
  <2>2. {"add.list"} \subseteq Labels
    BY DEF Labels
  <2> QED
    BY <1>1, <2>1, <2>2, FinishTyping, TakeTyping DEF IssueActive, Fresh
<1>2. CASE AddList(t)
  <2>1. Fits([th[t] EXCEPT !.pc = "add.put"])
    BY <1>0, <1>2 DEF Thread, Fits, Revokers, At, AddList
  <2>2. {"add.put"} \subseteq Labels
    BY DEF Labels
  <2> QED
    BY <1>2, <2>1, <2>2, FinishTyping, MoveTyping DEF AddList
<1>3. CASE AddPut(t)
  <2>1. Fits([th[t] EXCEPT !.pc = "add.confirm"])
    BY <1>0, <1>3 DEF Thread, Fits, Revokers, At, AddPut
  <2>2. {"add.confirm"} \subseteq Labels
    BY DEF Labels
  <2> QED
    BY <1>3, <2>1, <2>2, FinishTyping, MoveTyping DEF AddPut
<1>4. CASE AddConfirm(t)
  <2>1. Fits([th[t] EXCEPT !.pc = "alias.list"])
    BY <1>0, <1>4 DEF Thread, Fits, Revokers, At, AddConfirm
  <2>2. {"alias.list"} \subseteq Labels
    BY DEF Labels
  <2> QED
    BY <1>4, <2>1, <2>2, FinishTyping, MoveTyping DEF AddConfirm
<1>5. CASE AliasList(t)
  <2>1. LET r == [th[t] EXCEPT !.pc = "alias.keys", !.names = alias]
            IN  r \in Thread /\ Fits(r)
    BY <1>0, <1>5, StoresOK DEF StoresOK, Labels, Thread, Fits, Revokers, At, AliasList
  <2>2. Fits([th[t] EXCEPT !.pc = "rm.list"])
    BY <1>0, <1>5 DEF Thread, Fits, Revokers, At, AliasList
  <2>3. {"alias.keys", "rm.list"} \subseteq Labels
    BY DEF Labels
  <2> QED
    BY <1>5, <2>1, <2>2, <2>3, MoveTyping, BecomeTyping DEF AliasList
<1>6. CASE AliasKeys(t)
  <2>1. Fits([th[t] EXCEPT !.pc = "alias.put"])
    BY <1>0, <1>6 DEF Thread, Fits, Revokers, At, AliasKeys
  <2>2. Fits([th[t] EXCEPT !.pc = "rm.list"])
    BY <1>0, <1>6 DEF Thread, Fits, Revokers, At, AliasKeys
  <2>3. {"alias.put", "rm.list"} \subseteq Labels
    BY DEF Labels
  <2> QED
    BY <1>6, <2>1, <2>2, <2>3, MoveTyping DEF AliasKeys
<1>7. CASE AliasPut(t)
  <2>1. Fits([th[t] EXCEPT !.pc = "swap"])
    BY <1>0, <1>7 DEF Thread, Fits, Revokers, At, AliasPut
  <2>2. Fits([th[t] EXCEPT !.pc = "rm.list"])
    BY <1>0, <1>7 DEF Thread, Fits, Revokers, At, AliasPut
  <2>3. {"swap", "rm.list"} \subseteq Labels
    BY DEF Labels
  <2> QED
    BY <1>7, <2>1, <2>2, <2>3, MoveTyping DEF AliasPut
<1>8. CASE Swap(t)
  <2>1. LET r == [th[t] EXCEPT !.pc = "rm.list", !.undo = TRUE]
            IN  r \in Thread /\ Fits(r)
    BY <1>0, <1>8, StoresOK DEF StoresOK, Labels, Thread, Fits, Revokers, At, Swap
  <2> QED
    BY <1>8, <2>1, FinishTyping, BecomeTyping DEF Swap
<1>9. CASE UndoAlias(t)
  BY <1>9, FinishTyping DEF UndoAlias
<1>10. CASE RemoveList(t)
  <2>1. Fits([th[t] EXCEPT !.pc = "rm.put"])
    BY <1>0, <1>10 DEF Thread, Fits, Revokers, At, RemoveList
  <2>2. {"rm.put"} \subseteq Labels
    BY DEF Labels
  <2>3. th[t].op \in Revokers \cup {"claim"} /\ th[t].user \in Users /\ th[t].key \in Keys
    BY <1>0, <1>10 DEF Thread, Fits, Revokers, At, RemoveList
  <2> QED
    BY <1>10, <2>1, <2>2, <2>3, MoveTyping, RemoveReturnsTyping DEF RemoveList
<1>11. CASE RemovePut(t)
  <2>1. Fits([th[t] EXCEPT !.pc = "rm.confirm"])
    BY <1>0, <1>11 DEF Thread, Fits, Revokers, At, RemovePut
  <2>2. {"rm.confirm"} \subseteq Labels
    BY DEF Labels
  <2>3. th[t].op \in Revokers \cup {"claim"} /\ th[t].user \in Users /\ th[t].key \in Keys
    BY <1>0, <1>11 DEF Thread, Fits, Revokers, At, RemovePut
  <2> QED
    BY <1>11, <2>1, <2>2, <2>3, MoveTyping, RemoveReturnsTyping DEF RemovePut
<1>12. CASE RemoveConfirm(t)
  <2>1. th[t].op \in Revokers \cup {"claim"} /\ th[t].user \in Users /\ th[t].key \in Keys
    BY <1>0, <1>12 DEF Thread, Fits, Revokers, At, RemoveConfirm
  <2> QED
    BY <1>12, <2>1, RemoveReturnsTyping DEF RemoveConfirm
<1>13. CASE RevokeActive(t)
  <2>1. ASSUME NEW k \in Keys
        PROVE  Fits([th[t] EXCEPT !.pc = "revoke.list", !.key = k])
    BY <1>0, <1>13 DEF Thread, Fits, Revokers, At, RevokeActive
  <2>2. {"revoke.list"} \subseteq Labels /\ ActiveKeysOf(th[t].user) \subseteq Keys
    BY DEF Labels, ActiveKeysOf
  <2>3. th[t].op # "test" => th[t].op \in Revokers /\ th[t].user \in Users
    BY <1>0, <1>13 DEF Thread, Fits, Revokers, At, RevokeActive
  <2> QED
    BY <1>13, <2>1, <2>2, <2>3, FinishTyping, TakeTyping, RevokeReturnsTyping DEF RevokeActive
<1>14. CASE RevokeList(t)
  <2>1. Fits([th[t] EXCEPT !.pc = "missing.status"])
    BY <1>0, <1>14 DEF Thread, Fits, Revokers, At, RevokeList
  <2>2. th[t].op # "test" => Fits([th[t] EXCEPT !.pc = "rm.list"])
    BY <1>0, <1>14 DEF Thread, Fits, Revokers, At, RevokeList
  <2>3. {"missing.status", "rm.list"} \subseteq Labels
    BY DEF Labels
  <2>4. th[t].op # "test" => th[t].op \in Revokers /\ th[t].user \in Users
    BY <1>0, <1>14 DEF Thread, Fits, Revokers, At, RevokeList
  <2> QED
    BY <1>14, <2>1, <2>2, <2>3, <2>4, FinishTyping, MoveTyping, RevokeReturnsTyping DEF RevokeList
<1>15. CASE MissingStatus(t)
  <2>1. Fits([th[t] EXCEPT !.pc = "missing.alias"])
    BY <1>0, <1>15 DEF Thread, Fits, Revokers, At, MissingStatus
  <2>2. {"missing.alias"} \subseteq Labels
    BY DEF Labels
  <2> QED
    BY <1>15, <2>1, <2>2, MoveTyping DEF MissingStatus
<1>16. CASE MissingAlias(t)
  <2>1. th[t].op = "reconcile" => Fits([th[t] EXCEPT !.pc = "reconcile.next"])
    BY <1>0, <1>16 DEF Thread, Fits, Revokers, At, MissingAlias
  <2>2. {"reconcile.next"} \subseteq Labels
    BY DEF Labels
  <2>3. th[t].op \notin {"test", "reconcile"} => th[t].op \in Revokers /\ th[t].user \in Users
    BY <1>0, <1>16 DEF Thread, Fits, Revokers, At, MissingAlias
  <2> QED
    BY <1>16, <2>1, <2>2, <2>3, FinishTyping, MoveTyping, RevokeReturnsTyping DEF MissingAlias
<1>17. CASE RevokeAlias(t)
  <2>1. Fits([th[t] EXCEPT !.pc = "revoke.status"])
    BY <1>0, <1>17 DEF Thread, Fits, Revokers, At, RevokeAlias
  <2>2. {"revoke.status"} \subseteq Labels
    BY DEF Labels
  <2>3. th[t].op \in Revokers /\ th[t].user \in Users
    BY <1>0, <1>17 DEF Thread, Fits, Revokers, At, RevokeAlias
  <2> QED
    BY <1>17, <2>1, <2>2, <2>3, MoveTyping, RevokeReturnsTyping DEF RevokeAlias
<1>18. CASE RevokeStatus(t)
  <2>1. th[t].op \in Revokers /\ th[t].user \in Users
    BY <1>0, <1>18 DEF Thread, Fits, Revokers, At, RevokeStatus
  <2> QED
    BY <1>18, <2>1, RevokeReturnsTyping DEF RevokeStatus
<1>19. CASE QueueActive(t)
  <2>1. ASSUME NEW k \in Keys \cup {NoKey}
        PROVE  /\ Fits([th[t] EXCEPT !.pc = "queue.job", !.key = k])
               /\ Fits([th[t] EXCEPT !.pc = "queue.status", !.key = k])
    BY <1>0, <1>19 DEF Thread, Fits, Revokers, At, QueueActive
  <2>2. {"queue.job", "queue.status"} \subseteq Labels /\ ActiveKeysOf(th[t].user) \subseteq Keys
    BY DEF Labels, ActiveKeysOf
  <2> QED
    BY <1>19, <2>1, <2>2, TakeTyping, FinishTyping DEF QueueActive
<1>20. CASE QueueStatus(t)
  <2>1. Fits([th[t] EXCEPT !.pc = "queue.job"])
    BY <1>0, <1>20 DEF Thread, Fits, Revokers, At, QueueStatus
  <2>2. {"queue.job"} \subseteq Labels
    BY DEF Labels
  <2> QED
    BY <1>20, <2>1, <2>2, MoveTyping DEF QueueStatus
<1>21. CASE QueueJob(t)
  BY <1>21, FinishTyping DEF QueueJob
<1>22. CASE Settle(t)
  <2>1. th[t].op = "jobs" => Fits([th[t] EXCEPT !.pc = "jobs.delete"])
    BY <1>0, <1>22 DEF Thread, Fits, Revokers, At, Settle
  <2>2. {"jobs.delete"} \subseteq Labels
    BY DEF Labels
  <2> QED
    BY <1>22, <2>1, <2>2, FinishTyping, MoveTyping DEF Settle
<1>23. CASE JobsNext(t)
  <2>1. ASSUME NEW job \in th[t].due
        PROVE  LET r == [th[t] EXCEPT !.pc = "revoke.active", !.user = job.user,
                             !.job = job, !.due = @ \ {job}]
               IN  r \in Thread /\ Fits(r)
    BY <1>0, <1>23 DEF Thread, Fits, Revokers, Jobs, Labels, At, JobsNext
  <2> QED
    BY <1>23, <2>1, BecomeTyping, FinishTyping DEF JobsNext
<1>24. CASE JobsDelete(t)
  <2>1. th[t].due \in SUBSET Jobs
    BY <1>0 DEF Thread
  <2> QED
    BY <1>24, <2>1, JobsTyping DEF JobsDelete, NextJob
<1>25. CASE ReconcileList(t)
  <2>1. Fits([th[t] EXCEPT !.pc = "reconcile.rows"])
    BY <1>0, <1>25 DEF Thread, Fits, Revokers, At, ReconcileList
  <2>2. {"reconcile.rows"} \subseteq Labels
    BY DEF Labels
  <2> QED
    BY <1>25, <2>1, <2>2, FinishTyping, MoveTyping DEF ReconcileList
<1>26. CASE ReconcileRows(t)
  <2>1. LET r == [th[t] EXCEPT !.pc = "reconcile.next", !.list = {},
               !.gone = {k \in Keys : row[k] = "active"} \ th[t].list]
            IN  r \in Thread /\ Fits(r)
    BY <1>0, <1>26, StoresOK DEF StoresOK, Labels, Thread, Fits, Revokers, At, ReconcileRows
  <2> QED
    BY <1>26, <2>1, BecomeTyping DEF ReconcileRows
<1>27. CASE ReconcileNext(t)
  <2>1. ASSUME NEW k \in th[t].gone
        PROVE  LET r == [th[t] EXCEPT !.pc = "missing.status", !.key = k, !.gone = @ \ {k}]
               IN  r \in Thread /\ Fits(r)
    BY <1>0, <1>27 DEF Thread, Fits, Revokers, Labels, At, ReconcileNext
  <2> QED
    BY <1>27, <2>1, BecomeTyping, FinishTyping DEF ReconcileNext
<1> QED
  BY <1>1, <1>2, <1>3, <1>4, <1>5, <1>6, <1>7, <1>8, <1>9, <1>10, <1>11, <1>12, <1>13, <1>14,
     <1>15, <1>16, <1>17, <1>18, <1>19, <1>20, <1>21, <1>22, <1>23, <1>24, <1>25, <1>26, <1>27 DEF
     Continue


\* So does every step that begins an operation.
LEMMA BeginThOK ==
    ASSUME ThOK, StoresOK, NEW t \in Threads, Begin(t)
    PROVE  ThOK'
<1>0. {"issue.active", "revoke.active", "reconcile.list"} \subseteq Labels
  BY DEF Labels
<1>1. ASSUME NEW u \in Users, StartClaim(t, u)
      PROVE  ThOK'
  <2>1. Fits([Idle EXCEPT !.op = "claim", !.pc = "issue.active", !.user = u])
    BY DEF Fits, Idle, Revokers
  <2> QED
    BY <1>0, <1>1, <2>1, StartTyping DEF StartClaim
<1>2. ASSUME NEW u \in Users, NEW operation,
             StartOwn(t, u, operation) \/ StartSuspendOrDelete(t, u, operation)
      PROVE  ThOK'
  <2>1. Fits([Idle EXCEPT !.op = operation, !.pc = "revoke.active", !.user = u])
    BY <1>2 DEF Fits, Idle, Revokers, StartOwn, StartSuspendOrDelete
  <2> QED
    BY <1>0, <1>2, <2>1, StartTyping DEF StartOwn, StartSuspendOrDelete
<1>3. ASSUME NEW due \in SUBSET jobs, StartJobs(t, due)
      PROVE  ThOK'
  BY <1>3, JobsTyping DEF StartJobs, StoresOK
<1>4. CASE StartReconcile(t)
  <2>1. Fits([Idle EXCEPT !.op = "reconcile", !.pc = "reconcile.list", !.user = NoUser])
    BY DEF Fits, Idle, Revokers
  <2> QED
    BY <1>0, <1>4, <2>1, StartTyping DEF StartReconcile
<1> QED
  BY <1>1, <1>2, <1>3, <1>4 DEF Begin

-----------------------------------------------------------------------------
(* Which actions of a goroutine change what.                                *)

\* Every store has few writers: all the others leave it as it is.
LEMMA ContinueFrame ==
    ASSUME NEW t \in Threads, Continue(t)
    PROVE  /\ pages' = pages /\ kept' = kept
           /\ faults' = faults \/ Fault
           /\ owner' = owner \/ IssueActive(t)
           /\ row' = row \/ Swap(t) \/ MissingStatus(t) \/ RevokeStatus(t)
           /\ status' = status \/ QueueStatus(t) \/ Settle(t)
           /\ jobs' = jobs \/ QueueJob(t) \/ JobsDelete(t)
           /\ cpa' = cpa \/ AddPut(t) \/ RemovePut(t)
           /\ alias' = alias \/ AliasPut(t) \/ UndoAlias(t) \/ MissingAlias(t) \/ RevokeAlias(t)
<1>1. CASE IssueActive(t)
  BY <1>1 DEF IssueActive, db, remote, NoFault
<1>2. CASE AddList(t)
  BY <1>2 DEF AddList, db, remote, NoFault
<1>3. CASE AddPut(t)
  BY <1>3 DEF AddPut, db, remote, NoFault
<1>4. CASE AddConfirm(t)
  BY <1>4 DEF AddConfirm, db, remote, NoFault
<1>5. CASE AliasList(t)
  BY <1>5 DEF AliasList, db, remote, NoFault
<1>6. CASE AliasKeys(t)
  BY <1>6 DEF AliasKeys, db, remote, NoFault
<1>7. CASE AliasPut(t)
  BY <1>7 DEF AliasPut, db, remote, NoFault
<1>8. CASE Swap(t)
  BY <1>8 DEF Swap, db, remote, NoFault
<1>9. CASE UndoAlias(t)
  BY <1>9 DEF UndoAlias, db, remote, NoFault
<1>10. CASE RemoveList(t)
  BY <1>10 DEF RemoveList, db, remote, NoFault
<1>11. CASE RemovePut(t)
  BY <1>11 DEF RemovePut, db, remote, NoFault
<1>12. CASE RemoveConfirm(t)
  BY <1>12 DEF RemoveConfirm, db, remote, NoFault
<1>13. CASE RevokeActive(t)
  BY <1>13 DEF RevokeActive, db, remote, NoFault
<1>14. CASE RevokeList(t)
  BY <1>14 DEF RevokeList, db, remote, NoFault
<1>15. CASE MissingStatus(t)
  BY <1>15 DEF MissingStatus, db, remote, NoFault
<1>16. CASE MissingAlias(t)
  BY <1>16 DEF MissingAlias, db, remote, NoFault
<1>17. CASE RevokeAlias(t)
  BY <1>17 DEF RevokeAlias, db, remote, NoFault
<1>18. CASE RevokeStatus(t)
  BY <1>18 DEF RevokeStatus, db, remote, NoFault
<1>19. CASE QueueActive(t)
  BY <1>19 DEF QueueActive, db, remote, NoFault
<1>20. CASE QueueStatus(t)
  BY <1>20 DEF QueueStatus, db, remote, NoFault
<1>21. CASE QueueJob(t)
  BY <1>21 DEF QueueJob, db, remote, NoFault
<1>22. CASE Settle(t)
  BY <1>22 DEF Settle, db, remote, NoFault
<1>23. CASE JobsNext(t)
  BY <1>23 DEF JobsNext, db, remote, NoFault
<1>24. CASE JobsDelete(t)
  BY <1>24 DEF JobsDelete, db, remote, NoFault
<1>25. CASE ReconcileList(t)
  BY <1>25 DEF ReconcileList, db, remote, NoFault
<1>26. CASE ReconcileRows(t)
  BY <1>26 DEF ReconcileRows, db, remote, NoFault
<1>27. CASE ReconcileNext(t)
  BY <1>27 DEF ReconcileNext, db, remote, NoFault
<1> QED
  BY <1>1, <1>2, <1>3, <1>4, <1>5, <1>6, <1>7, <1>8, <1>9, <1>10, <1>11, <1>12, <1>13, <1>14,
     <1>15, <1>16, <1>17, <1>18, <1>19, <1>20, <1>21, <1>22, <1>23, <1>24, <1>25, <1>26, <1>27 DEF
     Continue

\* A step of a goroutine other than IssueActive takes up no key that no row or
\* claim of its own stands behind, and puts back no list without the operator's keys.
Sound(t, r) ==
    /\ Claiming(r) => Claiming(th[t]) /\ r.key = th[t].key /\ r.user = th[t].user
    /\ Retiring(r) => row[r.key] # "none"
    /\ \A k \in r.gone : row[k] # "none"
    /\ r.pc \in {"add.put", "rm.put"} => kept \subseteq r.list

SoundStep(t) == Sound(t, th'[t]) /\ \A v \in Threads \ {t} : th'[v] = th[v]

\* What IInv says of the goroutine about to move.
Known(t) ==
    /\ th \in [Threads -> Thread]
    /\ Fits(th[t])
    /\ Retiring(th[t]) => row[th[t].key] # "none"
    /\ \A k \in th[t].gone : row[k] # "none"
    /\ kept \subseteq cpa

\* A step is sound when the record it writes is.
LEMMA BecomeSound ==
    ASSUME NEW t \in Threads, Known(t), NEW r, Become(t, r), Sound(t, r)
    PROVE  SoundStep(t)
BY DEF Become, SoundStep, Known

\* Ending an operation is sound.
LEMMA FinishSound ==
    ASSUME NEW t \in Threads, Known(t), Finish(t)
    PROVE  SoundStep(t)
<1>1. Sound(t, Idle)
  BY DEF Sound, Idle, Claiming, Retiring, Retirement
<1> QED
  BY <1>1, BecomeSound DEF Finish

\* Moving on is sound, unless it takes an old list to a put or a key to a revocation.
LEMMA MoveSound ==
    ASSUME NEW t \in Threads, Known(t), NEW label,
           Goto(t, label) \/ ReadList(t, label) \/ Forget(t, label),
           ReadList(t, label) \/ label \notin {"add.put", "rm.put"},
           Claiming(th[t]) \/ th[t].op # "claim",
           label \in Retirement => th[t].op = "claim" \/ Retiring(th[t])
    PROVE  SoundStep(t)
<1>0. th[t] \in Thread
  BY DEF Known
<1>1. ASSUME ReadList(t, label)
      PROVE  SoundStep(t)
  <2> DEFINE r == [th[t] EXCEPT !.pc = label, !.list = cpa]
  <2>1. r.op = th[t].op /\ r.key = th[t].key /\ r.user = th[t].user /\ r.gone = th[t].gone
        /\ r.pc = label /\ r.list = cpa
    BY <1>0 DEF Thread
  <2>2. Sound(t, r)
    BY <2>1 DEF Sound, Known, Claiming, Retiring
  <2> QED
    BY <1>1, <2>2, BecomeSound DEF ReadList
<1>2. ASSUME Forget(t, label), label \notin {"add.put", "rm.put"}
      PROVE  SoundStep(t)
  <2> DEFINE r == [th[t] EXCEPT !.pc = label, !.list = {}, !.names = {}]
  <2>1. r.op = th[t].op /\ r.key = th[t].key /\ r.user = th[t].user /\ r.gone = th[t].gone
        /\ r.pc = label
    BY <1>0 DEF Thread
  <2>2. Sound(t, r)
    BY <1>2, <2>1 DEF Sound, Known, Claiming, Retiring
  <2> QED
    BY <1>2, <2>2, BecomeSound DEF Forget
<1>3. ASSUME Goto(t, label), label \notin {"add.put", "rm.put"}
      PROVE  SoundStep(t)
  <2> DEFINE r == [th[t] EXCEPT !.pc = label]
  <2>1. r.op = th[t].op /\ r.key = th[t].key /\ r.user = th[t].user /\ r.gone = th[t].gone
        /\ r.pc = label
    BY <1>0 DEF Thread
  <2>2. Sound(t, r)
    BY <1>3, <2>1 DEF Sound, Known, Claiming, Retiring
  <2> QED
    BY <1>3, <2>2, BecomeSound DEF Goto
<1> QED
  BY <1>1, <1>2, <1>3

\* ProcessJobs forgets the key of the last job.
LEMMA NextJobSound ==
    ASSUME NEW t \in Threads, Known(t), NEW due,
           Become(t, [Idle EXCEPT !.op = "jobs", !.pc = "jobs.next", !.due = due])
    PROVE  SoundStep(t)
<1>1. Sound(t, [Idle EXCEPT !.op = "jobs", !.pc = "jobs.next", !.due = due])
  BY DEF Sound, Idle, Claiming, Retiring, Retirement
<1> QED
  BY <1>1, BecomeSound

\* The three ways Keys.Revoke returns are sound.
LEMMA RevokeReturnsSound ==
    ASSUME NEW t \in Threads, Known(t), NEW done \in BOOLEAN,
           th[t].op # "claim", RevokeReturns(t, done)
    PROVE  SoundStep(t)
<1>1. {"settle", "queue.active"} \cap Retirement = {}
  BY DEF Retirement
<1> QED
  BY <1>1, FinishSound, MoveSound, NextJobSound DEF RevokeReturns, NextJob

\* The ways cpamp.RemoveAPIKey returns are sound.
LEMMA RemoveReturnsSound ==
    ASSUME NEW t \in Threads, Known(t), NEW done \in BOOLEAN,
           th[t].pc \in {"rm.list", "rm.put", "rm.confirm"}, RemoveReturns(t, done)
    PROVE  SoundStep(t)
<1>1. /\ "undo.alias" \notin Retirement
      /\ th[t].op = "claim" => Claiming(th[t])
      /\ th[t].op # "claim" => Retiring(th[t])
  BY DEF Retirement, Claiming, Retiring
<1> QED
  BY <1>1, FinishSound, MoveSound, RevokeReturnsSound DEF RemoveReturns

\* Every step of a running goroutine is sound, but for the one that mints a key.
LEMMA ContinueSound ==
    ASSUME NEW t \in Threads, Known(t), Continue(t), ~IssueActive(t)
    PROVE  SoundStep(t)
<1>0. th[t] \in Thread /\ Fits(th[t])
  BY DEF Known
<1>1. CASE AddList(t)
  <2>1. Claiming(th[t])
    BY <1>0, <1>1 DEF AddList, At, Fits, Claiming
  <2> QED
    BY <1>1, <2>1, FinishSound, MoveSound DEF AddList, Claiming
<1>2. CASE AddPut(t)
  <2>1. Claiming(th[t])
    BY <1>0, <1>2 DEF AddPut, At, Fits, Claiming
  <2> QED
    BY <1>2, <2>1, FinishSound, MoveSound DEF AddPut, Claiming
<1>3. CASE AddConfirm(t)
  <2>1. Claiming(th[t])
    BY <1>0, <1>3 DEF AddConfirm, At, Fits, Claiming
  <2> QED
    BY <1>3, <2>1, FinishSound, MoveSound DEF AddConfirm, Claiming
<1>4. CASE AliasList(t)
  <2>1. Claiming(th[t])
    BY <1>0, <1>4 DEF AliasList, At, Fits, Claiming
  <2>2. Sound(t, [th[t] EXCEPT !.pc = "alias.keys", !.names = alias])
    BY <1>0, <1>4, <2>1 DEF AliasList, At, Thread, Known, Sound, Claiming, Retiring, Retirement
  <2> QED
    BY <1>4, <2>1, <2>2, BecomeSound, MoveSound DEF AliasList, Claiming
<1>5. CASE AliasKeys(t)
  <2>1. Claiming(th[t])
    BY <1>0, <1>5 DEF AliasKeys, At, Fits, Claiming
  <2> QED
    BY <1>5, <2>1, FinishSound, MoveSound DEF AliasKeys, Claiming
<1>6. CASE AliasPut(t)
  <2>1. Claiming(th[t])
    BY <1>0, <1>6 DEF AliasPut, At, Fits, Claiming
  <2> QED
    BY <1>6, <2>1, FinishSound, MoveSound DEF AliasPut, Claiming
<1>7. CASE Swap(t)
  <2>1. Sound(t, [th[t] EXCEPT !.pc = "rm.list", !.undo = TRUE])
    BY <1>0, <1>7 DEF Swap, At, Fits, Thread, Known, Sound, Claiming, Retiring
  <2> QED
    BY <1>7, <2>1, BecomeSound, FinishSound DEF Swap
<1>8. CASE UndoAlias(t)
  BY <1>8, FinishSound DEF UndoAlias
<1>9. CASE RemoveList(t)
  <2>1. /\ th[t].pc \in {"rm.list", "rm.put", "rm.confirm"}
        /\ th[t].op = "claim" => Claiming(th[t])
        /\ th[t].op # "claim" => Retiring(th[t])
    BY <1>9 DEF RemoveList, At, Claiming, Retiring, Retirement
  <2> QED
    BY <1>9, <2>1, MoveSound, RemoveReturnsSound DEF RemoveList
<1>10. CASE RemovePut(t)
  <2>1. /\ th[t].pc \in {"rm.list", "rm.put", "rm.confirm"}
        /\ th[t].op = "claim" => Claiming(th[t])
        /\ th[t].op # "claim" => Retiring(th[t])
    BY <1>10 DEF RemovePut, At, Claiming, Retiring, Retirement
  <2> QED
    BY <1>10, <2>1, MoveSound, RemoveReturnsSound DEF RemovePut
<1>11. CASE RemoveConfirm(t)
  <2>1. /\ th[t].pc \in {"rm.list", "rm.put", "rm.confirm"}
        /\ th[t].op = "claim" => Claiming(th[t])
        /\ th[t].op # "claim" => Retiring(th[t])
    BY <1>11 DEF RemoveConfirm, At, Claiming, Retiring, Retirement
  <2> QED
    BY <1>11, <2>1, MoveSound, RemoveReturnsSound DEF RemoveConfirm
<1>12. CASE RevokeActive(t)
  <2>1. th[t].op # "claim"
    BY <1>0, <1>12 DEF RevokeActive, At, Fits, Revokers
  <2>2. ASSUME NEW k \in ActiveKeysOf(th[t].user)
        PROVE  Sound(t, [th[t] EXCEPT !.pc = "revoke.list", !.key = k])
    BY <1>0, <2>1 DEF ActiveKeysOf, Thread, Known, Sound, Claiming, Retiring
  <2> QED
    BY <1>12, <2>1, <2>2, BecomeSound, FinishSound, RevokeReturnsSound DEF RevokeActive, Take
<1>13. CASE RevokeList(t)
  <2>1. th[t].op # "claim" /\ Retiring(th[t])
    BY <1>0, <1>13 DEF RevokeList, At, Fits, Revokers, Retiring, Retirement
  <2> QED
    BY <1>13, <2>1, FinishSound, MoveSound, RevokeReturnsSound DEF RevokeList
<1>14. CASE MissingStatus(t)
  <2>1. th[t].op # "claim" /\ Retiring(th[t])
    BY <1>0, <1>14 DEF MissingStatus, At, Fits, Revokers, Retiring, Retirement
  <2> QED
    BY <1>14, <2>1, FinishSound, MoveSound, RevokeReturnsSound DEF MissingStatus
<1>15. CASE MissingAlias(t)
  <2>1. th[t].op # "claim" /\ Retiring(th[t])
    BY <1>0, <1>15 DEF MissingAlias, At, Fits, Revokers, Retiring, Retirement
  <2> QED
    BY <1>15, <2>1, FinishSound, MoveSound, RevokeReturnsSound DEF MissingAlias
<1>16. CASE RevokeAlias(t)
  <2>1. th[t].op # "claim" /\ Retiring(th[t])
    BY <1>0, <1>16 DEF RevokeAlias, At, Fits, Revokers, Retiring, Retirement
  <2> QED
    BY <1>16, <2>1, FinishSound, MoveSound, RevokeReturnsSound DEF RevokeAlias
<1>17. CASE RevokeStatus(t)
  <2>1. th[t].op # "claim" /\ Retiring(th[t])
    BY <1>0, <1>17 DEF RevokeStatus, At, Fits, Revokers, Retiring, Retirement
  <2> QED
    BY <1>17, <2>1, FinishSound, MoveSound, RevokeReturnsSound DEF RevokeStatus
<1>18. CASE QueueActive(t)
  <2>1. th[t].op # "claim"
    BY <1>0, <1>18 DEF QueueActive, At, Fits, Revokers
  <2>2. ASSUME NEW k
        PROVE  /\ Sound(t, [th[t] EXCEPT !.pc = "queue.job", !.key = k])
               /\ Sound(t, [th[t] EXCEPT !.pc = "queue.status", !.key = k])
    BY <1>0, <2>1 DEF Thread, Known, Sound, Claiming, Retiring, Retirement
  <2> QED
    BY <1>18, <2>1, <2>2, BecomeSound, FinishSound DEF QueueActive, Take
<1>19. CASE QueueStatus(t)
  <2>1. th[t].op # "claim"
    BY <1>0, <1>19 DEF QueueStatus, At, Fits, Revokers
  <2>2. "queue.job" \notin Retirement
    BY DEF Retirement
  <2> QED
    BY <1>19, <2>1, <2>2, FinishSound, MoveSound, RevokeReturnsSound DEF QueueStatus
<1>20. CASE QueueJob(t)
  BY <1>20, FinishSound DEF QueueJob
<1>21. CASE Settle(t)
  <2>1. th[t].op # "claim"
    BY <1>0, <1>21 DEF Settle, At, Fits, Revokers
  <2>2. "jobs.delete" \notin Retirement
    BY DEF Retirement
  <2> QED
    BY <1>21, <2>1, <2>2, FinishSound, MoveSound, RevokeReturnsSound DEF Settle
<1>22. CASE JobsNext(t)
  <2>1. th[t].op = "jobs"
    BY <1>0, <1>22 DEF JobsNext, At, Fits
  <2>2. ASSUME NEW job \in th[t].due
        PROVE  Sound(t, [th[t] EXCEPT !.pc = "revoke.active", !.user = job.user,
                                      !.job = job, !.due = @ \ {job}])
    BY <1>0, <2>1 DEF Thread, Known, Sound, Claiming, Retiring, Retirement
  <2> QED
    BY <1>22, <2>2, BecomeSound, FinishSound DEF JobsNext
<1>23. CASE JobsDelete(t)
  BY <1>23, NextJobSound DEF JobsDelete, NextJob
<1>24. CASE ReconcileList(t)
  <2>1. th[t].op # "claim"
    BY <1>0, <1>24 DEF ReconcileList, At, Fits, Revokers
  <2>2. "reconcile.rows" \notin Retirement
    BY DEF Retirement
  <2> QED
    BY <1>24, <2>1, <2>2, FinishSound, MoveSound, RevokeReturnsSound DEF ReconcileList
<1>25. CASE ReconcileRows(t)
  <2>1. th[t].op = "reconcile"
    BY <1>0, <1>25 DEF ReconcileRows, At, Fits
  <2>2. Sound(t, [th[t] EXCEPT !.pc = "reconcile.next", !.list = {},
                       !.gone = {k \in Keys : row[k] = "active"} \ th[t].list])
    BY <1>0, <2>1 DEF Thread, Known, Sound, Claiming, Retiring, Retirement
  <2> QED
    BY <1>25, <2>2, BecomeSound DEF ReconcileRows
<1>26. CASE ReconcileNext(t)
  <2>1. th[t].op = "reconcile"
    BY <1>0, <1>26 DEF ReconcileNext, At, Fits
  <2>2. ASSUME NEW k \in th[t].gone
        PROVE  Sound(t, [th[t] EXCEPT !.pc = "missing.status", !.key = k, !.gone = @ \ {k}])
    BY <1>0, <2>1 DEF Thread, Known, Sound, Claiming, Retiring, Retirement
  <2> QED
    BY <1>26, <2>2, BecomeSound, FinishSound DEF ReconcileNext
<1> QED
  BY <1>1, <1>2, <1>3, <1>4, <1>5, <1>6, <1>7, <1>8, <1>9, <1>10, <1>11, <1>12, <1>13, <1>14,
     <1>15, <1>16, <1>17, <1>18, <1>19, <1>20, <1>21, <1>22, <1>23, <1>24, <1>25, <1>26 DEF
     Continue

-----------------------------------------------------------------------------
(* IInv is inductive: the steps of a running goroutine.                     *)

\* IInv at hand for one goroutine.
LEMMA AtHand ==
    ASSUME IInv, NEW t \in Threads
    PROVE  ThOK /\ StoresOK /\ Known(t) /\ th[t] \in Thread
BY DEF IInv, TypeOK, ThOK, StoresOK, ControlOK, Known, KnownRows, ManualKeysKept

\* A step keeps every variable in its type (Keys.Issue, Revoke, ProcessJobs, Reconcile).
LEMMA ContinueTypeOK ==
    ASSUME IInv, NEW t \in Threads, Continue(t)
    PROVE  TypeOK' /\ ControlOK'
<1>0. TypeOK /\ ThOK /\ StoresOK /\ th[t] \in Thread /\ Fits(th[t])
  BY AtHand DEF IInv, Known
<1>1. ThOK'
  BY <1>0, ContinueThOK
<1>2. faults' \in 0..MaxFaults
  BY <1>0, ContinueFrame, ConstantsAssumption DEF Fault, TypeOK
<1>3. status' \in [Users -> Statuses]
  <2>1. CASE QueueStatus(t)
    BY <1>0, <2>1 DEF QueueStatus, TypeOK, Statuses
  <2>2. CASE Settle(t)
    <3>1. th[t].user \in Users
      BY <1>0, <2>2 DEF Settle, At, Fits, Revokers
    <3> DEFINE action == IF th[t].op = "jobs" THEN th[t].job.action ELSE th[t].op
    <3>2. Settled(th[t].user, action) \in Statuses
      BY <1>0, <3>1 DEF Settled, Statuses, TypeOK
    <3>3. status' = [status EXCEPT ![th[t].user] = Settled(th[t].user, action)]
      BY <2>2 DEF Settle
    <3> QED
      BY <1>0, <3>2, <3>3 DEF TypeOK
  <2> QED
    BY <1>0, <2>1, <2>2, ContinueFrame DEF TypeOK
<1>4. owner' \in [Keys -> Users \cup {NoUser}]
  <2>1. CASE IssueActive(t)
    <3>1. th[t].user \in Users
      BY <1>0, <2>1 DEF IssueActive, At, Fits
    <3> QED
      BY <1>0, <2>1, <3>1 DEF IssueActive, TypeOK
  <2> QED
    BY <1>0, <2>1, ContinueFrame DEF TypeOK
<1>5. row' \in [Keys -> RowStatuses]
  BY <1>0, ContinueFrame DEF TypeOK, RowStatuses, Swap, MissingStatus, RevokeStatus
<1>6. jobs' \subseteq Jobs
  <2>1. CASE QueueJob(t)
    <3>1. /\ th[t].user \in Users /\ th[t].op \in {"revoke", "suspend", "delete"}
          /\ th[t].key \in Keys \cup {NoKey}
      BY <1>0, <2>1 DEF QueueJob, At, Fits, Revokers, Thread
    <3>2. [user |-> th[t].user, action |-> th[t].op, key |-> th[t].key] \in Jobs
      BY <3>1 DEF Jobs
    <3> QED
      BY <1>0, <2>1, <3>2 DEF QueueJob, TypeOK
  <2>2. CASE JobsDelete(t)
    BY <1>0, <2>2 DEF JobsDelete, TypeOK
  <2> QED
    BY <1>0, <2>1, <2>2, ContinueFrame DEF TypeOK
<1>7. cpa' \subseteq Keys \cup Manual
  <2>0. th[t].list \subseteq Keys \cup Manual
    BY <1>0 DEF Thread
  <2>1. CASE AddPut(t)
    <3>1. th[t].key \in Keys
      BY <1>0, <2>1 DEF AddPut, At, Fits
    <3> QED
      BY <1>0, <2>0, <2>1, <3>1 DEF AddPut, TypeOK
  <2>2. CASE RemovePut(t)
    BY <1>0, <2>0, <2>2 DEF RemovePut, TypeOK
  <2> QED
    BY <1>0, <2>1, <2>2, ContinueFrame DEF TypeOK
<1>8. alias' \subseteq Keys
  <2>1. CASE AliasPut(t)
    <3>1. th[t].key \in Keys /\ th[t].names \subseteq Keys
      BY <1>0, <2>1 DEF AliasPut, At, Fits, Thread
    <3> QED
      BY <1>0, <2>1, <3>1 DEF AliasPut, TypeOK
  <2>2. CASE UndoAlias(t) \/ MissingAlias(t) \/ RevokeAlias(t)
    BY <1>0, <2>2 DEF UndoAlias, MissingAlias, RevokeAlias, TypeOK
  <2> QED
    BY <1>0, <2>1, <2>2, ContinueFrame DEF TypeOK
<1>9. pages' \subseteq Users \X {"suspend", "unsuspend"} /\ kept' \subseteq Manual
  BY <1>0, ContinueFrame DEF TypeOK
<1> QED
  BY <1>1, <1>2, <1>3, <1>4, <1>5, <1>6, <1>7, <1>8, <1>9 DEF TypeOK, ThOK

\* Only SwapActiveKey makes a row active, that of the key its claim minted, and
\* no row is ever lost.
LEMMA ContinueRows ==
    ASSUME IInv, NEW t \in Threads, Continue(t), NEW k \in Keys
    PROVE  /\ row[k] # "none" => row'[k] # "none"
           /\ \/ row[k] = row'[k]
              \/ row[k] # "none" /\ row'[k] \in {"revoked", "external_revoked"}
              \/ /\ k = th[t].key /\ row[k] = "none" /\ owner[k] = th[t].user
                 /\ th[t].user \in Users /\ owner' = owner
                 /\ ActiveKeysOf(th[t].user) = {}
                 /\ Claiming(th[t]) /\ th'[t] = Idle
<1>0. /\ th[t] \in Thread /\ Known(t) /\ Fits(th[t]) /\ row \in [Keys -> RowStatuses]
      /\ th \in [Threads -> Thread]
  BY AtHand DEF IInv, Known, TypeOK
<1>1. CASE Swap(t)
  <2>1. Claiming(th[t]) /\ th[t].user \in Users /\ th[t].key \in Keys
    BY <1>0, <1>1 DEF Swap, At, Fits, Claiming
  <2>2. owner[th[t].key] = th[t].user /\ row[th[t].key] = "none"
    BY <2>1 DEF IInv, PrivateClaims
  <2> QED
    BY <1>0, <1>1, <2>1, <2>2 DEF Swap, Finish, Become
<1>2. CASE MissingStatus(t)
  <2>1. Retiring(th[t])
    BY <1>0, <1>2 DEF MissingStatus, At, Fits, Revokers, Retiring, Retirement
  <2> QED
    BY <1>0, <1>2, <2>1 DEF MissingStatus, Known
<1>3. CASE RevokeStatus(t)
  <2>1. Retiring(th[t])
    BY <1>0, <1>3 DEF RevokeStatus, At, Fits, Revokers, Retiring, Retirement
  <2> QED
    BY <1>0, <1>3, <2>1 DEF RevokeStatus, Known
<1> QED
  BY <1>1, <1>2, <1>3, ContinueFrame

\* Two claims of one user cannot both end in an active row: the second insert
\* is refused (idx_one_active_key).
LEMMA ContinueOneActive ==
    ASSUME IInv, NEW t \in Threads, Continue(t)
    PROVE  OneActiveRow'
<1> SUFFICES ASSUME NEW k \in Keys, NEW l \in Keys, row'[k] = "active", row'[l] = "active",
                    owner'[k] = owner'[l]
             PROVE  k = l
  BY DEF OneActiveRow
<1>0. OneActiveRow /\ KnownRows /\ owner \in [Keys -> Users \cup {NoUser}]
  BY DEF IInv, TypeOK
<1>1. CASE IssueActive(t)
  <2>1. row' = row
    BY <1>1 DEF IssueActive, db
  <2>2. row[k] # "none" /\ row[l] # "none"
    BY <2>1
  <2>3. owner'[k] = owner[k] /\ owner'[l] = owner[l]
    BY <1>0, <1>1, <2>2 DEF IssueActive, Fresh, KnownRows
  <2> QED
    BY <1>0, <2>1, <2>3 DEF OneActiveRow
<1>2. CASE owner' = owner
  BY <1>0, <1>2, ContinueRows DEF OneActiveRow, ActiveKeysOf
<1> QED
  BY <1>1, <1>2, ContinueFrame

\* A minted key stays private to its claim until it is inserted, and nobody
\* revokes a key without a row.
LEMMA ContinuePrivate ==
    ASSUME IInv, NEW t \in Threads, Continue(t)
    PROVE  PrivateClaims' /\ KnownRows'
<1>0. /\ PrivateClaims /\ KnownRows /\ owner \in [Keys -> Users \cup {NoUser}]
      /\ th \in [Threads -> Thread] /\ NoUser \notin Users /\ Known(t)
      /\ \A v \in Threads : Fits(th[v])
  BY AtHand, ConstantsAssumption DEF IInv, TypeOK, ControlOK
<1>1. CASE SoundStep(t) /\ owner' = owner
  <2>0. \A v \in Threads \ {t} : th'[v] = th[v]
    BY <1>1 DEF SoundStep
  <2>1. \A v \in Threads : Claiming(th'[v]) =>
            Claiming(th[v]) /\ th'[v].key = th[v].key /\ th'[v].user = th[v].user
    BY <1>1, <2>0 DEF SoundStep, Sound
  <2>2. \A v \in Threads : Claiming(th[v]) => th[v].key \in Keys
    BY <1>0 DEF Claiming, Fits, Thread, Labels, Revokers
  <2>3. \A v \in Threads : Claiming(th'[v]) => row'[th'[v].key] = "none"
    <3> SUFFICES ASSUME NEW v \in Threads, Claiming(th'[v])
                 PROVE  row'[th'[v].key] = "none"
      OBVIOUS
    <3>1. Claiming(th[v]) /\ th'[v].key = th[v].key /\ th[v].key \in Keys
          /\ row[th[v].key] = "none"
      BY <1>0, <2>1, <2>2 DEF PrivateClaims
    <3>2. Claiming(th[t]) /\ th[t].key = th[v].key => t = v
      BY <1>0, <3>1 DEF PrivateClaims
    <3>3. ~Claiming(Idle)
      BY DEF Claiming, Idle
    <3> QED
      BY <3>1, <3>2, <3>3, ContinueRows
  <2>4. PrivateClaims'
    BY <1>0, <1>1, <2>1, <2>3 DEF PrivateClaims
  <2>5. \A k \in Keys : row'[k] # "none" => owner'[k] # NoUser
    BY <1>0, <1>1, ContinueRows DEF KnownRows
  <2>6. \A v \in Threads : /\ Retiring(th'[v]) => row[th'[v].key] # "none"
                           /\ \A k \in th'[v].gone : row[k] # "none"
    BY <1>0, <1>1, <2>0 DEF KnownRows, SoundStep, Sound
  <2>7. \A v \in Threads : /\ Retiring(th'[v]) => th'[v].key \in Keys
                           /\ th'[v].gone \subseteq Keys
    BY ContinueTypeOK DEF TypeOK, ControlOK, Thread, Retiring, Retirement, Fits
  <2> QED
    BY <2>4, <2>5, <2>6, <2>7, ContinueRows DEF KnownRows
<1>2. ASSUME NEW k \in Fresh, IssueActive(t), Take(t, "add.list", k),
             owner' = [owner EXCEPT ![k] = th[t].user]
      PROVE  PrivateClaims' /\ KnownRows'
  <2>0. /\ k \in Keys /\ owner[k] = NoUser /\ row' = row /\ th[t].user \in Users
        /\ th[t].op = "claim" /\ row[k] = "none"
    BY <1>0, <1>2 DEF Fresh, IssueActive, db, At, Fits, KnownRows
  <2>1. /\ th'[t].key = k /\ th'[t].user = th[t].user /\ th'[t].op = "claim"
        /\ th'[t].pc = "add.list" /\ th'[t].gone = th[t].gone
        /\ \A v \in Threads \ {t} : th'[v] = th[v]
    BY <1>0, <1>2, <2>0 DEF Take, Become, Thread
  <2>2. \A v \in Threads : Claiming(th[v]) => th[v].key \in Keys /\ th[v].key # k
    BY <1>0, <2>0 DEF Claiming, Fits, Thread, Labels, Revokers, PrivateClaims
  <2>3. PrivateClaims'
    BY <1>0, <1>2, <2>0, <2>1, <2>2 DEF PrivateClaims
  <2>4. ~Retiring(th'[t])
    BY <2>1 DEF Retiring
  <2>5. KnownRows'
    BY <1>0, <1>2, <2>0, <2>1, <2>4 DEF KnownRows
  <2> QED
    BY <2>3, <2>5
<1>3. CASE IssueActive(t)
  <2>1. Finish(t) /\ owner' = owner => SoundStep(t) /\ owner' = owner
    BY <1>0, FinishSound
  <2> QED
    BY <1>1, <1>2, <1>3, <2>1 DEF IssueActive
<1> QED
  BY <1>0, <1>1, <1>3, ContinueSound, ContinueFrame

\* Every list put back was read whole, and the operator's keys that have to stay
\* were in it: none of them is a portal key.
LEMMA ContinueManual ==
    ASSUME IInv, NEW t \in Threads, Continue(t)
    PROVE  SnapshotsKeepManual' /\ ManualKeysKept'
<1>0. /\ Known(t) /\ th[t] \in Thread /\ SnapshotsKeepManual /\ ManualKeysKept
      /\ kept \cap Keys = {} /\ kept' = kept /\ Fits(th[t])
  BY AtHand, ConstantsAssumption, ContinueFrame DEF IInv, Known, TypeOK
<1>1. SnapshotsKeepManual'
  <2>1. CASE SoundStep(t)
    BY <1>0, <2>1 DEF SnapshotsKeepManual, Rewriting, SoundStep, Sound
  <2>2. CASE IssueActive(t)
    <3>1. Finish(t) => SoundStep(t)
      BY <1>0, FinishSound
    <3>2. ASSUME NEW k, Take(t, "add.list", k)
          PROVE  th'[t].pc = "add.list" /\ \A v \in Threads \ {t} : th'[v] = th[v]
      BY <1>0, <3>2 DEF Take, Become, Known, Thread
    <3> QED
      BY <1>0, <2>1, <2>2, <3>1, <3>2 DEF IssueActive, SnapshotsKeepManual, Rewriting
  <2> QED
    BY <1>0, <2>1, <2>2, ContinueSound
<1>2. ManualKeysKept'
  <2>1. CASE AddPut(t)
    BY <1>0, <2>1 DEF AddPut, At, SnapshotsKeepManual, Rewriting, ManualKeysKept
  <2>2. CASE RemovePut(t)
    BY <1>0, <2>2 DEF RemovePut, At, Fits, SnapshotsKeepManual, Rewriting, ManualKeysKept
  <2> QED
    BY <1>0, <2>1, <2>2, ContinueFrame DEF ManualKeysKept
<1> QED
  BY <1>1, <1>2

-----------------------------------------------------------------------------
(* IInv is inductive: the initial states, the steps that begin or cut off   *)
(* an operation, and those of the rest of the world.                        *)

\* Init gives every claimed key the one user who starts with it.
LEMMA InitIInv == Init => IInv
<1> SUFFICES ASSUME Init PROVE IInv
  OBVIOUS
<1> USE ConstantsAssumption
<1>1. \A k \in Claimed : \E u \in Users : FirstKey[u] = k /\ k \in Keys
  BY DEF Claimed
<1>2. \A k \in Claimed : owner[k] \in Users /\ FirstKey[owner[k]] = k
  BY <1>1 DEF Init
<1>3. ThOK /\ \A t \in Threads : th[t] = Idle
  BY IdleTyping DEF Init, ThOK, ControlOK
<1>4. TypeOK
  BY <1>1, <1>2, <1>3 DEF TypeOK, Init, Statuses, RowStatuses, ThOK
<1>5. OneActiveRow
  BY <1>2 DEF OneActiveRow, Init
<1>6. PrivateClaims /\ SnapshotsKeepManual
  BY <1>3 DEF PrivateClaims, SnapshotsKeepManual, Rewriting, Claiming, Idle
<1>7. KnownRows
  BY <1>2, <1>3 DEF Init, KnownRows, Retiring, Retirement, Idle
<1>8. ManualKeysKept
  BY DEF Init, ManualKeysKept
<1> QED
  BY <1>3, <1>4, <1>5, <1>6, <1>7, <1>8 DEF IInv, ThOK

\* A step that only moves a goroutine on soundly keeps IInv.
LEMMA QuietStep ==
    ASSUME IInv, NEW t \in Threads, SoundStep(t), ThOK', faults' \in 0..MaxFaults,
           UNCHANGED <<status, owner, row, jobs, pages, kept, cpa, alias>>
    PROVE  IInv'
<1>1. TypeOK' /\ ControlOK'
  BY DEF IInv, TypeOK, ThOK
<1>2. OneActiveRow' /\ ManualKeysKept'
  BY DEF IInv, OneActiveRow, ManualKeysKept
<1>3. /\ \A v \in Threads : Claiming(th'[v]) =>
            Claiming(th[v]) /\ th'[v].key = th[v].key /\ th'[v].user = th[v].user
      /\ \A v \in Threads : Retiring(th'[v]) => row[th'[v].key] # "none"
      /\ \A v \in Threads : \A k \in th'[v].gone : row[k] # "none"
      /\ \A v \in Threads : th'[v].pc \in {"add.put", "rm.put"} => kept \subseteq th'[v].list
  BY DEF SoundStep, Sound, IInv, KnownRows, SnapshotsKeepManual, Rewriting
<1>4. PrivateClaims'
  BY <1>3 DEF IInv, PrivateClaims
<1>5. KnownRows' /\ SnapshotsKeepManual'
  BY <1>3 DEF IInv, KnownRows, SnapshotsKeepManual, Rewriting
<1> QED
  BY <1>1, <1>2, <1>4, <1>5 DEF IInv

\* Starting an operation is sound.
LEMMA StartSound ==
    ASSUME NEW t \in Threads, Known(t), NEW operation, NEW u, NEW label,
           label \in {"issue.active", "revoke.active", "reconcile.list"},
           operation = "claim" => label = "issue.active", Start(t, operation, u, label)
    PROVE  SoundStep(t)
<1>1. Sound(t, [Idle EXCEPT !.op = operation, !.pc = label, !.user = u])
  BY DEF Sound, Idle, Claiming, Retiring, Retirement
<1> QED
  BY <1>1, BecomeSound DEF Start

\* The start of an operation takes up no key and no list.
LEMMA BeginSound ==
    ASSUME NEW t \in Threads, Known(t), Begin(t)
    PROVE  SoundStep(t)
<1>1. ASSUME NEW u \in Users, StartClaim(t, u)
      PROVE  SoundStep(t)
  BY <1>1, StartSound DEF StartClaim
<1>2. ASSUME NEW u \in Users, NEW operation, StartOwn(t, u, operation)
      PROVE  SoundStep(t)
  BY <1>2, StartSound DEF StartOwn
<1>3. ASSUME NEW u \in Users, NEW operation, StartSuspendOrDelete(t, u, operation)
      PROVE  SoundStep(t)
  BY <1>3, StartSound DEF StartSuspendOrDelete
<1>4. ASSUME NEW due, StartJobs(t, due)
      PROVE  SoundStep(t)
  BY <1>4, NextJobSound DEF StartJobs
<1>5. CASE StartReconcile(t)
  BY <1>5, StartSound DEF StartReconcile
<1> QED
  BY <1>1, <1>2, <1>3, <1>4, <1>5 DEF Begin

\* The start of an operation keeps IInv.
LEMMA BeginIInv ==
    ASSUME IInv, NEW t \in Threads, Begin(t)
    PROVE  IInv'
<1>0. Known(t) /\ ThOK' /\ faults \in 0..MaxFaults
  BY AtHand, BeginThOK DEF IInv, TypeOK
<1>1. SoundStep(t)
  BY <1>0, BeginSound
<1>2. UNCHANGED <<status, owner, row, jobs, pages, kept, cpa, alias, faults>>
  BY DEF Begin, StartClaim, StartOwn, StartSuspendOrDelete, StartJobs, StartReconcile, db, remote
<1> QED
  BY <1>0, <1>1, <1>2, QuietStep

\* A handler that is cut off, or a crash, keeps IInv.
LEMMA CutOffIInv ==
    ASSUME IInv, NEW t \in Threads, CutOff(t)
    PROVE  IInv'
<1>0. Known(t) /\ ThOK
  BY AtHand
<1>1. SoundStep(t) /\ ThOK'
  BY <1>0, FinishSound, FinishTyping DEF CutOff
<1>2. faults' \in 0..MaxFaults
  BY ConstantsAssumption DEF CutOff, Fault, IInv, TypeOK
<1>3. UNCHANGED <<status, owner, row, jobs, pages, kept, cpa, alias>>
  BY DEF CutOff, db, remote
<1> QED
  BY <1>1, <1>2, <1>3, QuietStep

\* Open admin pages, unsuspend and what is done by hand in CPA keep IInv.
LEMMA WorldIInv ==
    ASSUME IInv,
           \/ \E u \in Users : OpenPage(u) \/ Unsuspend(u)
           \/ \E k \in Keys : ExternalDelete(k)
           \/ \E m \in Manual : OperatorEdits(m)
    PROVE  IInv'
<1>1. th' = th /\ owner' = owner /\ row' = row
  BY DEF OpenPage, Unsuspend, ExternalDelete, OperatorEdits, db
<1>2. TypeOK'
  <2>1. ASSUME NEW u \in Users, OpenPage(u)
        PROVE  TypeOK'
    BY <2>1 DEF OpenPage, db, remote, IInv, TypeOK
  <2>2. ASSUME NEW u \in Users, Unsuspend(u)
        PROVE  TypeOK'
    BY <2>2 DEF Unsuspend, remote, IInv, TypeOK, Statuses
  <2>3. ASSUME NEW k \in Keys, ExternalDelete(k)
        PROVE  TypeOK'
    BY <2>3 DEF ExternalDelete, db, IInv, TypeOK
  <2>4. ASSUME NEW m \in Manual, OperatorEdits(m)
        PROVE  TypeOK'
    BY <2>4 DEF OperatorEdits, db, IInv, TypeOK
  <2> QED
    BY <2>1, <2>2, <2>3, <2>4
<1>3. ManualKeysKept'
  <2>1. \A k \in Keys : k \notin kept
    BY ConstantsAssumption DEF IInv, TypeOK
  <2> QED
    BY <2>1 DEF IInv, ManualKeysKept, OpenPage, Unsuspend, ExternalDelete, OperatorEdits, remote
<1>4. ControlOK' /\ OneActiveRow' /\ PrivateClaims' /\ KnownRows'
  BY <1>1 DEF IInv, ControlOK, OneActiveRow, PrivateClaims, KnownRows
<1>5. SnapshotsKeepManual'
  <2>1. kept' \subseteq kept \/ ~\E t \in Threads : Rewriting(t)
    BY DEF OpenPage, Unsuspend, ExternalDelete, OperatorEdits
  <2> QED
    BY <1>1, <2>1 DEF IInv, SnapshotsKeepManual, Rewriting
<1> QED
  BY <1>2, <1>3, <1>4, <1>5 DEF IInv

\* Every step of the portal and of the rest of the world keeps IInv.
LEMMA NextIInv == IInv /\ [Next]_vars => IInv'
<1> SUFFICES ASSUME IInv, [Next]_vars PROVE IInv'
  OBVIOUS
<1>1. ASSUME NEW t \in Threads, Continue(t)
      PROVE  IInv'
  BY <1>1, ContinueTypeOK, ContinueOneActive, ContinuePrivate, ContinueManual DEF IInv
<1>2. CASE UNCHANGED vars
  BY <1>2 DEF vars, IInv, TypeOK, ControlOK, OneActiveRow, PrivateClaims, KnownRows,
              SnapshotsKeepManual, Rewriting, ManualKeysKept
<1> QED
  BY <1>1, <1>2, BeginIInv, CutOffIInv, WorldIInv DEF Next

-----------------------------------------------------------------------------

\* IInv holds in every reachable state, for any number of users, keys,
\* handlers and faults.
THEOREM Inductive == Spec => []IInv
<1> QED
  BY InitIInv, NextIInv, PTL DEF Spec

\* The variables keep their types (the stores and handlers of KeyLifecycle).
THEOREM TypeCorrect == Spec => []TypeOK
<1>1. IInv => TypeOK
  BY DEF IInv
<1> QED
  BY <1>1, Inductive, PTL

\* The portal never records two active keys for one user, however the claims of
\* that user interleave with each other and with every other operation.
THEOREM AtMostOneActiveRow == Spec => []OneActiveRow
<1>1. IInv => OneActiveRow
  BY DEF IInv
<1> QED
  BY <1>1, Inductive, PTL

\* A key the operator put in CPA while no rewrite of the list was between its read
\* and its put survives every later one, however cpamp.AddAPIKey and
\* cpamp.RemoveAPIKey interleave, fail and are cut off, until he deletes it.
THEOREM ManualKeysSurvive == Spec => []ManualKeysKept
<1>1. IInv => ManualKeysKept
  BY DEF IInv
<1> QED
  BY <1>1, Inductive, PTL

\* A key that was shown and retired never becomes the active key again, and a
\* key never changes hands.
NeverReactivated ==
    [][\A k \in Keys : row[k] # "none" =>
          /\ owner'[k] = owner[k]
          /\ row'[k] # "none"
          /\ row'[k] = "active" => row[k] = "active"]_vars

\* A row is never lost, whatever interleaves: a key that was retired never becomes
\* active again and never changes hands.
THEOREM RowsNeverReactivated == Spec => NeverReactivated
<1>1. ASSUME IInv, [Next]_vars
      PROVE  [\A k \in Keys : row[k] # "none" =>
                /\ owner'[k] = owner[k]
                /\ row'[k] # "none"
                /\ row'[k] = "active" => row[k] = "active"]_vars
  <2> SUFFICES ASSUME Next, NEW k \in Keys, row[k] # "none"
               PROVE  /\ owner'[k] = owner[k]
                      /\ row'[k] # "none"
                      /\ row'[k] = "active" => row[k] = "active"
    BY <1>1
  <2>1. ASSUME NEW t \in Threads, Continue(t)
        PROVE  /\ row'[k] # "none"
               /\ row'[k] = "active" => row[k] = "active"
    BY <1>1, <2>1, ContinueRows
  <2>2. ASSUME NEW t \in Threads, Continue(t)
        PROVE  owner'[k] = owner[k]
    <3>1. owner \in [Keys -> Users \cup {NoUser}] /\ owner[k] # NoUser
      BY <1>1 DEF IInv, TypeOK, KnownRows
    <3> QED
      BY <2>2, <3>1, ContinueFrame DEF IssueActive, Fresh
  <2>3. ASSUME NEW t \in Threads, Begin(t) \/ CutOff(t)
        PROVE  row' = row /\ owner' = owner
    BY <2>3 DEF Begin, CutOff, StartClaim, StartOwn, StartSuspendOrDelete, StartJobs,
                StartReconcile, db
  <2>4. ASSUME \/ \E u \in Users : OpenPage(u) \/ Unsuspend(u)
               \/ \E l \in Keys : ExternalDelete(l)
               \/ \E m \in Manual : OperatorEdits(m)
        PROVE  row' = row /\ owner' = owner
    BY <2>4 DEF OpenPage, Unsuspend, ExternalDelete, OperatorEdits, db
  <2> QED
    BY <2>1, <2>2, <2>3, <2>4 DEF Next
<1> QED
  BY <1>1, Inductive, PTL DEF Spec, NeverReactivated

-----------------------------------------------------------------------------
(* A list of CPA's keys is used after it was read, and CPA has no version to *)
(* compare: whoever puts the older list back undoes what happened between   *)
(* (key_lost_update).  The rest of the code loses nothing: if every list    *)
(* were current when it is used, a retired key would stay dead.             *)

\* What a version check by CPA would enforce of cpamp.AddAPIKey, of
\* cpamp.RemoveAPIKey and of the comparison in Keys.Reconcile: about the keys
\* that were handed out, the list at hand and the one of CPA agree.
NoLostUpdate ==
    \A t \in Threads : AddPut(t) \/ RemovePut(t) \/ ReconcileRows(t) =>
        \A k \in Keys : row[k] # "none" => (k \in th[t].list <=> k \in cpa)

\* The accesses that follow the news that CPA lists the key no longer.
AfterRemoval == {"missing.status", "revoke.alias", "revoke.status"}

\* The accesses that use a list read before.
UsesList == {"add.put", "rm.put", "reconcile.rows"}

\* In the record r no key that CPA still lists is taken for removed.
Truthful(r) ==
    /\ r.op # "claim" /\ r.pc \in AfterRemoval => r.key \notin cpa
    /\ r.gone \cap cpa = {}
AllTruthful == \A t \in Threads : Truthful(th[t])

\* A step that leaves the record of t truthful, with a list that is CPA's own if
\* the next access uses it.
TruthfulStep(t) ==
    /\ Truthful(th'[t])
    /\ th'[t].pc \in UsesList => th'[t].list = cpa
    /\ \A v \in Threads \ {t} : th'[v] = th[v]

\* A goroutine whose record is legal and truthful.
Reliable(t) == th \in [Threads -> Thread] /\ Fits(th[t]) /\ Truthful(th[t])

\* Ending an operation is truthful, whatever was left undone.
LEMMA FinishTruthful ==
    ASSUME NEW t \in Threads, Reliable(t), Finish(t)
    PROVE  TruthfulStep(t)
BY DEF Reliable, Finish, Become, TruthfulStep, Truthful, Idle, AfterRemoval, UsesList

\* ProcessJobs forgets the key of the last job.
LEMMA NextJobTruthful ==
    ASSUME NEW t \in Threads, Reliable(t), NEW due,
           Become(t, [Idle EXCEPT !.op = "jobs", !.pc = "jobs.next", !.due = due])
    PROVE  TruthfulStep(t)
<1>1. th'[t] = [Idle EXCEPT !.op = "jobs", !.pc = "jobs.next", !.due = due]
  BY DEF Reliable, Become
<1> QED
  BY <1>1 DEF Reliable, Become, TruthfulStep, Truthful, Idle, AfterRemoval, UsesList

\* Moving on is truthful when a list at hand is fresh and a key taken for removed
\* is not in CPA's list.
LEMMA MoveTruthful ==
    ASSUME NEW t \in Threads, Reliable(t), NEW label,
           Goto(t, label) \/ ReadList(t, label) \/ Forget(t, label),
           ReadList(t, label) \/ label \notin UsesList,
           label \in AfterRemoval => th[t].op = "claim" \/ th[t].key \notin cpa
    PROVE  TruthfulStep(t)
<1>0. th[t] \in Thread
  BY DEF Reliable
<1>1. /\ th'[t].op = th[t].op /\ th'[t].key = th[t].key /\ th'[t].gone = th[t].gone
      /\ th'[t].pc = label
      /\ \A v \in Threads \ {t} : th'[v] = th[v]
  <2>1. CASE Goto(t, label)
    BY <1>0, <2>1 DEF Reliable, Goto, Become, Thread
  <2>2. CASE ReadList(t, label)
    BY <1>0, <2>2 DEF Reliable, ReadList, Become, Thread
  <2>3. CASE Forget(t, label)
    BY <1>0, <2>3 DEF Reliable, Forget, Become, Thread
  <2> QED
    BY <2>1, <2>2, <2>3
<1>2. ReadList(t, label) => th'[t].list = cpa
  BY <1>0 DEF Reliable, ReadList, Become, Thread
<1> QED
  BY <1>1, <1>2 DEF Reliable, TruthfulStep, Truthful

\* The three ways Keys.Revoke returns are truthful.
LEMMA RevokeReturnsTruthful ==
    ASSUME NEW t \in Threads, Reliable(t), NEW done \in BOOLEAN, RevokeReturns(t, done)
    PROVE  TruthfulStep(t)
<1>1. {"settle", "queue.active"} \cap (AfterRemoval \cup UsesList) = {}
  BY DEF AfterRemoval, UsesList
<1> QED
  BY <1>1, FinishTruthful, MoveTruthful, NextJobTruthful DEF RevokeReturns, NextJob

\* cpamp.RemoveAPIKey returns truthfully when it reports success only for a key
\* CPA does not list.
LEMMA RemoveReturnsTruthful ==
    ASSUME NEW t \in Threads, Reliable(t), NEW done \in BOOLEAN, RemoveReturns(t, done),
           done => th[t].key \notin cpa
    PROVE  TruthfulStep(t)
<1>1. {"undo.alias", "revoke.alias"} \cap UsesList = {} /\ "undo.alias" \notin AfterRemoval
  BY DEF AfterRemoval, UsesList
<1> QED
  BY <1>1, FinishTruthful, MoveTruthful, RevokeReturnsTruthful DEF RemoveReturns

\* Every step of a running goroutine is truthful: a fault is never taken for the
\* answer that the key is gone.
LEMMA ContinueTruthful ==
    ASSUME NEW t \in Threads, Reliable(t), Continue(t), NoLostUpdate
    PROVE  TruthfulStep(t)
<1>0. th[t] \in Thread /\ Fits(th[t])
  BY DEF Reliable
<1>1. CASE IssueActive(t)
  <2>1. ASSUME NEW k, Take(t, "add.list", k)
        PROVE  TruthfulStep(t)
    BY <1>0, <2>1 DEF Take, Become, Thread, Reliable, TruthfulStep, Truthful, AfterRemoval, UsesList
  <2> QED
    BY <1>1, <2>1, FinishTruthful DEF IssueActive
<1>2. CASE AddList(t) \/ AddPut(t) \/ AddConfirm(t) \/ AliasKeys(t) \/ AliasPut(t) \/ UndoAlias(t)
  BY <1>2, FinishTruthful, MoveTruthful
     DEF AddList, AddPut, AddConfirm, AliasKeys, AliasPut, UndoAlias, AfterRemoval, UsesList
<1>3. CASE AliasList(t)
  <2>1. ASSUME Become(t, [th[t] EXCEPT !.pc = "alias.keys", !.names = alias])
        PROVE  TruthfulStep(t)
    BY <1>0, <2>1 DEF Become, Thread, Reliable, TruthfulStep, Truthful, AfterRemoval, UsesList
  <2> QED
    BY <1>3, <2>1, MoveTruthful DEF AliasList, AfterRemoval, UsesList
<1>4. CASE Swap(t)
  <2>1. ASSUME Become(t, [th[t] EXCEPT !.pc = "rm.list", !.undo = TRUE])
        PROVE  TruthfulStep(t)
    BY <1>0, <2>1 DEF Become, Thread, Reliable, TruthfulStep, Truthful, AfterRemoval, UsesList
  <2> QED
    BY <1>4, <2>1, FinishTruthful DEF Swap
<1>5. CASE RemoveList(t) \/ RemovePut(t) \/ RemoveConfirm(t)
  BY <1>5, MoveTruthful, RemoveReturnsTruthful DEF RemoveList, RemovePut, RemoveConfirm,
     AfterRemoval, UsesList
<1>6. CASE RevokeActive(t)
  <2>1. ASSUME NEW k, Take(t, "revoke.list", k)
        PROVE  TruthfulStep(t)
    BY <1>0, <2>1 DEF Take, Become, Thread, Reliable, TruthfulStep, Truthful, AfterRemoval, UsesList
  <2> QED
    BY <1>6, <2>1, FinishTruthful, RevokeReturnsTruthful DEF RevokeActive
<1>7. CASE RevokeList(t)
  BY <1>7, FinishTruthful, MoveTruthful, RevokeReturnsTruthful DEF RevokeList, AfterRemoval,
     UsesList
<1>8. CASE MissingStatus(t)
  BY <1>8, MoveTruthful DEF MissingStatus, AfterRemoval, UsesList
<1>9. CASE MissingAlias(t)
  BY <1>9, FinishTruthful, MoveTruthful, RevokeReturnsTruthful DEF MissingAlias, AfterRemoval,
     UsesList
<1>10. CASE RevokeAlias(t)
  <2>1. th[t].op = "claim" \/ th[t].key \notin cpa
    BY <1>10 DEF RevokeAlias, At, Reliable, Truthful, AfterRemoval
  <2> QED
    BY <1>10, <2>1, MoveTruthful, RevokeReturnsTruthful DEF RevokeAlias, AfterRemoval, UsesList
<1>11. CASE RevokeStatus(t)
  BY <1>11, RevokeReturnsTruthful DEF RevokeStatus
<1>12. CASE QueueActive(t)
  <2>1. ASSUME NEW k, NEW label \in {"queue.job", "queue.status"}, Take(t, label, k)
        PROVE  TruthfulStep(t)
    BY <1>0, <2>1 DEF Take, Become, Thread, Reliable, TruthfulStep, Truthful, AfterRemoval, UsesList
  <2> QED
    BY <1>12, <2>1, FinishTruthful DEF QueueActive
<1>13. CASE QueueStatus(t) \/ QueueJob(t) \/ Settle(t)
  BY <1>13, FinishTruthful, MoveTruthful DEF QueueStatus, QueueJob, Settle, AfterRemoval, UsesList
<1>14. CASE JobsNext(t)
  <2>1. ASSUME NEW job, Become(t, [th[t] EXCEPT !.pc = "revoke.active", !.user = job.user,
                                       !.job = job, !.due = @ \ {job}])
        PROVE  TruthfulStep(t)
    BY <1>0, <2>1 DEF Become, Thread, Reliable, TruthfulStep, Truthful, AfterRemoval, UsesList
  <2> QED
    BY <1>14, <2>1, FinishTruthful DEF JobsNext
<1>15. CASE JobsDelete(t)
  BY <1>15, NextJobTruthful DEF JobsDelete, NextJob
<1>16. CASE ReconcileList(t)
  BY <1>16, FinishTruthful, MoveTruthful DEF ReconcileList, AfterRemoval, UsesList
<1>17. CASE ReconcileRows(t)
  <2> DEFINE gone == {k \in Keys : row[k] = "active"} \ th[t].list
  <2>1. /\ th'[t].gone = gone /\ th'[t].pc = "reconcile.next" /\ th'[t].op = th[t].op
        /\ \A v \in Threads \ {t} : th'[v] = th[v]
    BY <1>0, <1>17 DEF ReconcileRows, Become, Thread, Reliable
  <2>2. gone \cap cpa = {}
    BY <1>17 DEF NoLostUpdate
  <2> QED
    BY <2>1, <2>2 DEF TruthfulStep, Truthful, AfterRemoval, UsesList
<1>18. CASE ReconcileNext(t)
  <2>1. ASSUME NEW k \in th[t].gone,
               Become(t, [th[t] EXCEPT !.pc = "missing.status", !.key = k, !.gone = @ \ {k}])
        PROVE  TruthfulStep(t)
    <3>1. /\ th'[t].pc = "missing.status" /\ th'[t].key = k /\ th'[t].gone = th[t].gone \ {k}
          /\ \A v \in Threads \ {t} : th'[v] = th[v]
      BY <1>0, <2>1 DEF Become, Thread, Reliable
    <3> QED
      BY <3>1 DEF Reliable, TruthfulStep, Truthful, AfterRemoval, UsesList
  <2> QED
    BY <1>18, <2>1, FinishTruthful DEF ReconcileNext
<1> QED
  BY <1>1, <1>2, <1>3, <1>4, <1>5, <1>6, <1>7, <1>8, <1>9, <1>10, <1>11, <1>12, <1>13, <1>14,
     <1>15, <1>16, <1>17, <1>18 DEF Continue

\* What the proof carries: no retired key, and none about to be, is in CPA's list.
DeadInv == IInv /\ RevokedKeyIsDead /\ AllTruthful

\* CPA's list gains only keys that no row tells of.
LEMMA ListGrowth ==
    ASSUME IInv, NoLostUpdate, Next, NEW k \in Keys, row[k] # "none", k \notin cpa
    PROVE  k \notin cpa'
<1>1. ASSUME NEW t \in Threads, Continue(t)
      PROVE  k \notin cpa'
  <2>1. CASE AddPut(t)
    <3>1. th[t].op = "claim" /\ Claiming(th[t])
      BY <2>1, AtHand DEF AddPut, At, Known, Fits, Claiming
    <3>2. k # th[t].key /\ k \notin th[t].list
      BY <2>1, <3>1 DEF NoLostUpdate, IInv, PrivateClaims
    <3> QED
      BY <2>1, <3>2 DEF AddPut
  <2>2. CASE RemovePut(t)
    BY <2>2 DEF RemovePut, NoLostUpdate
  <2> QED
    BY <1>1, <2>1, <2>2, ContinueFrame
<1>2. ASSUME NEW t \in Threads, Begin(t) \/ CutOff(t)
      PROVE  cpa' = cpa
  BY <1>2 DEF Begin, CutOff, StartClaim, StartOwn, StartSuspendOrDelete, StartJobs,
              StartReconcile, remote
<1>3. ASSUME \/ \E u \in Users : OpenPage(u) \/ Unsuspend(u)
             \/ \E l \in Keys : ExternalDelete(l)
             \/ \E m \in Manual : OperatorEdits(m)
      PROVE  k \in cpa' => k \in cpa
  BY <1>3, ConstantsAssumption DEF OpenPage, Unsuspend, ExternalDelete, OperatorEdits, remote
<1> QED
  BY <1>1, <1>2, <1>3 DEF Next

\* The start of an operation and its end by a crash or a disconnect take no key
\* for removed.
LEMMA BeginTruthful ==
    ASSUME IInv, NEW t \in Threads, Reliable(t), Begin(t) \/ CutOff(t)
    PROVE  TruthfulStep(t)
<1>1. ASSUME NEW operation, NEW u, NEW label, Start(t, operation, u, label),
             label \in {"issue.active", "revoke.active", "reconcile.list"}
      PROVE  TruthfulStep(t)
  <2>1. th'[t] = [Idle EXCEPT !.op = operation, !.pc = label, !.user = u]
    BY <1>1 DEF Start, Become, Reliable
  <2> QED
    BY <1>1, <2>1 DEF Start, Become, Reliable, TruthfulStep, Truthful, AfterRemoval, UsesList, Idle
<1> QED
  BY <1>1, FinishTruthful, NextJobTruthful
     DEF Begin, CutOff, StartClaim, StartOwn, StartSuspendOrDelete, StartJobs, StartReconcile

\* After any step a key that is being retired had a row before it.
LEMMA RetiredKeyHadRow ==
    ASSUME IInv, Next, NEW v \in Threads
    PROVE  /\ Retiring(th'[v]) => th'[v].key \in Keys /\ row[th'[v].key] # "none"
           /\ \A k \in th'[v].gone : k \in Keys /\ row[k] # "none"
<1>0. Known(v) /\ IInv' /\ th[v] \in Thread
  BY AtHand, NextIInv
<1>1. /\ Retiring(th'[v]) => th'[v].key \in Keys
      /\ th'[v].gone \subseteq Keys
  BY <1>0 DEF IInv, TypeOK, ControlOK, Thread, Fits, Retiring, Retirement
<1>2. CASE th'[v] = th[v]
  BY <1>1, <1>2 DEF IInv, KnownRows
<1>3. CASE SoundStep(v)
  BY <1>1, <1>3 DEF SoundStep, Sound
<1>4. CASE IssueActive(v)
  <2>1. ASSUME NEW k, Take(v, "add.list", k)
        PROVE  th'[v].op = "claim" /\ th'[v].gone = th[v].gone
    BY <1>0, <1>4, <2>1 DEF Known, IssueActive, At, Fits, Take, Become, Thread
  <2> QED
    BY <1>0, <1>1, <1>3, <1>4, <2>1, FinishSound DEF IssueActive, Known, Retiring
<1>5. CASE Continue(v) \/ Begin(v) \/ CutOff(v)
  BY <1>0, <1>3, <1>4, <1>5, ContinueSound, BeginSound, FinishSound DEF CutOff
<1>6. ASSUME NEW t \in Threads \ {v}, Continue(t) \/ Begin(t) \/ CutOff(t)
      PROVE  th'[v] = th[v]
  <2>1. Known(t)
    BY AtHand
  <2>2. CASE SoundStep(t)
    BY <2>2 DEF SoundStep
  <2>3. CASE IssueActive(t)
    BY <2>1, <2>2, <2>3, FinishSound DEF IssueActive, Known, Take, Become
  <2> QED
    BY <1>6, <2>1, <2>2, <2>3, ContinueSound, BeginSound, FinishSound DEF CutOff
<1>7. ASSUME ~(\E t \in Threads : Begin(t) \/ Continue(t) \/ CutOff(t))
      PROVE  th' = th
  BY <1>7 DEF Next, OpenPage, Unsuspend, ExternalDelete, OperatorEdits
<1> QED
  BY <1>2, <1>5, <1>6, <1>7

\* Every step in which no update of the list is lost keeps the retired keys dead.
LEMMA NextDeadInv ==
    ASSUME DeadInv, Next, NoLostUpdate
    PROVE  DeadInv'
<1>0. IInv /\ IInv' /\ RevokedKeyIsDead /\ AllTruthful
  BY NextIInv DEF DeadInv
<1>1. \A v \in Threads : Reliable(v)
  BY <1>0, AtHand DEF Reliable, Known, AllTruthful
<1>2. ASSUME NEW t \in Threads, Begin(t) \/ Continue(t) \/ CutOff(t)
      PROVE  TruthfulStep(t)
  BY <1>0, <1>1, <1>2, BeginTruthful, ContinueTruthful
<1>3. ASSUME NEW t \in Threads, ~(\E v \in Threads : Begin(v) \/ Continue(v) \/ CutOff(v))
      PROVE  th' = th
  BY <1>3 DEF Next, OpenPage, Unsuspend, ExternalDelete, OperatorEdits
<1>4. AllTruthful'
  <2> SUFFICES ASSUME NEW v \in Threads PROVE Truthful(th[v])'
    BY DEF AllTruthful
  <2>1. /\ th'[v].op # "claim" /\ th'[v].pc \in AfterRemoval => th'[v].key \notin cpa
        /\ th'[v].gone \cap cpa = {}
    BY <1>0, <1>2, <1>3 DEF AllTruthful, TruthfulStep, Truthful
  <2>2. Retiring(th'[v]) <=> th'[v].op # "claim" /\ th'[v].pc \in Retirement
    BY DEF Retiring
  <2> QED
    BY <1>0, <2>1, <2>2, RetiredKeyHadRow, ListGrowth DEF Truthful, AfterRemoval, Retirement
<1>5. RevokedKeyIsDead'
  <2> SUFFICES ASSUME NEW k \in Keys, row'[k] \in {"revoked", "external_revoked"}
               PROVE  k \notin cpa'
    BY DEF RevokedKeyIsDead
  <2>1. CASE row'[k] = row[k]
    BY <1>0, <2>1, ListGrowth DEF RevokedKeyIsDead
  <2>2. CASE row'[k] # row[k]
    <3>1. PICK t \in Threads : Swap(t) \/ MissingStatus(t) \/ RevokeStatus(t)
      <4>1. PICK t \in Threads : Continue(t)
        BY <2>2 DEF Next, Begin, CutOff, OpenPage, Unsuspend, ExternalDelete, OperatorEdits,
                    StartClaim,
                    StartOwn, StartSuspendOrDelete, StartJobs, StartReconcile, db
      <4> QED
        BY <2>2, <4>1, ContinueFrame
    <3>2. /\ MissingStatus(t) \/ RevokeStatus(t)
          /\ k = th[t].key
      BY <1>0, <2>2, <3>1 DEF Swap, MissingStatus, RevokeStatus, IInv, TypeOK
    <3>3. th[t].op # "claim" /\ k \notin cpa /\ row[k] # "none"
      BY <1>0, <1>1, <3>2 DEF MissingStatus, RevokeStatus, At, Reliable, Fits, Revokers,
                             Truthful, AfterRemoval, IInv, KnownRows, Retiring, Retirement
    <3> QED
      BY <1>0, <3>3, ListGrowth
  <2> QED
    BY <2>1, <2>2
<1> QED
  BY <1>0, <1>4, <1>5 DEF DeadInv

\* If no update of CPA's list were lost, a key the portal reports revoked would
\* be refused by CPA, whatever calls fail, crash or interleave (RevokedKeyIsDead;
\* key_lost_update shows that the hypothesis is needed).
THEOREM RetiredKeysStayDead == Spec /\ [][NoLostUpdate]_vars => []RevokedKeyIsDead
<1>1. Init => DeadInv
  <2>1. ASSUME Init
        PROVE  RevokedKeyIsDead /\ AllTruthful
    <3>1. Truthful(Idle)
      BY DEF Truthful, Idle, AfterRemoval
    <3> QED
      BY <2>1, <3>1 DEF Init, RevokedKeyIsDead, AllTruthful
  <2> QED
    BY <2>1, InitIInv DEF DeadInv
<1>2. DeadInv /\ [Next]_vars /\ [NoLostUpdate]_vars => DeadInv'
  <2> SUFFICES ASSUME DeadInv, UNCHANGED vars
               PROVE  DeadInv'
    BY NextDeadInv
  <2>1. IInv'
    BY NextIInv DEF DeadInv
  <2> QED
    BY <2>1 DEF DeadInv, vars, RevokedKeyIsDead, AllTruthful, Truthful
<1>3. DeadInv => RevokedKeyIsDead
  BY DEF DeadInv
<1> QED
  BY <1>1, <1>2, <1>3, PTL DEF Spec

\* "Every approved user has at most one valid key": if no update of CPA's list
\* were lost, CPA would accept at most one of the keys a user was ever shown.
THEOREM OneUsableKey == Spec /\ [][NoLostUpdate]_vars => []AtMostOneUsableKey
<1>1. TypeOK /\ OneActiveRow /\ RevokedKeyIsDead => AtMostOneUsableKey
  <2> SUFFICES ASSUME TypeOK, OneActiveRow, RevokedKeyIsDead, NEW u \in Users
               PROVE  Cardinality(Usable(u)) <= 1
    BY DEF AtMostOneUsableKey
  <2>1. \A k \in Usable(u) : k \in Keys /\ row[k] = "active" /\ owner[k] = u
    BY DEF Usable, TypeOK, RowStatuses, RevokedKeyIsDead
  <2>2. CASE Usable(u) = {}
    BY <2>2, FS_EmptySet
  <2>3. CASE Usable(u) # {}
    <3>1. PICK k \in Usable(u) : TRUE
      BY <2>3
    <3>2. Usable(u) = {k}
      BY <2>1, <3>1 DEF OneActiveRow
    <3>3. Cardinality({k}) = 1
      BY FS_Singleton
    <3> QED
      BY <3>2, <3>3
  <2> QED
    BY <2>2, <2>3
<1> QED
  BY <1>1, TypeCorrect, AtMostOneActiveRow, RetiredKeysStayDead, PTL

-----------------------------------------------------------------------------
(* Suspension and deletion read the user's active key first and change the  *)
(* status last, and nothing keeps a claim of that user from inserting a key *)
(* in between.  That is the only way a settled account keeps a key.         *)

\* The operations that end in suspended or deleted.
Removes(r) == \/ r.op \in {"suspend", "delete"}
              \/ r.op = "jobs" /\ r.job.action \in {"suspend", "delete"}

\* No claim of a user runs while that user is being suspended or deleted: what a
\* lock on the account would enforce of Issue, suspendOrDelete and ProcessJobs.
RemovalsApart ==
    \A t, v \in Threads : th[t].op = "claim" /\ Removes(th[v]) => th[t].user # th[v].user

Gone == {"suspended", "deleted"}

\* The goroutine t with record r: a claim is of a user who is not gone, a
\* revocation is of a key of its user, and one that ends in suspended or deleted
\* has the only active key of the user in hand, or knows that there is none.
Apart(r) ==
    /\ r.op = "claim" => status[r.user] \notin Gone
    /\ Retiring(r) /\ r.op # "reconcile" => owner[r.key] = r.user
    /\ Removes(r) /\ Retiring(r) => ActiveKeysOf(r.user) \subseteq {r.key}
    /\ Removes(r) /\ r.pc \in {"missing.alias", "settle"} => ActiveKeysOf(r.user) = {}
AllApart == \A t \in Threads : Apart(th[t])

ApartInv == IInv /\ SuspendedHasNoActiveKey /\ AllApart

\* The active keys of u after the step.
ActiveAfter(u) == {k \in Keys : owner'[k] = u /\ row'[k] = "active"}

\* Only the insert of a claim gives a user an active key.
LEMMA ActiveKeysShrink ==
    ASSUME IInv, Next, NEW u \in Users,
           \A t \in Threads : Swap(t) => th[t].user # u
    PROVE  ActiveAfter(u) \subseteq ActiveKeysOf(u)
<1> SUFFICES ASSUME NEW k \in Keys, owner'[k] = u, row'[k] = "active"
             PROVE  owner[k] = u /\ row[k] = "active"
  BY DEF ActiveKeysOf, ActiveAfter
<1>0. /\ owner \in [Keys -> Users \cup {NoUser}] /\ row \in [Keys -> RowStatuses]
      /\ NoUser \notin Users
      /\ \A l \in Keys : row[l] # "none" => owner[l] # NoUser
  BY ConstantsAssumption DEF IInv, TypeOK, KnownRows
<1>1. ASSUME NEW t \in Threads, Continue(t)
      PROVE  owner[k] = u /\ row[k] = "active"
  <2>1. row[k] = "active" => owner'[k] = owner[k]
    BY <1>0, <1>1, ContinueFrame DEF IssueActive, Fresh
  <2>2. ASSUME row[k] # "active"
        PROVE  FALSE
    <3>1. Swap(t) /\ k = th[t].key
      BY <1>0, <1>1, <2>2, ContinueFrame DEF Swap, MissingStatus, RevokeStatus
    <3>2. Claiming(th[t]) /\ owner' = owner
      BY <3>1, AtHand DEF Swap, At, Known, Fits, Claiming
    <3> QED
      BY <3>1, <3>2 DEF IInv, PrivateClaims
  <2> QED
    BY <2>1, <2>2
<1>2. ASSUME ~\E t \in Threads : Continue(t)
      PROVE  row' = row /\ owner' = owner
  BY <1>2 DEF Next, Begin, CutOff, OpenPage, Unsuspend, ExternalDelete, OperatorEdits, StartClaim,
              StartOwn, StartSuspendOrDelete, StartJobs, StartReconcile, db
<1> QED
  BY <1>1, <1>2

\* The record a step of t writes, given what is known before it; a row retired
\* by the step counts.
ApartAfter(r) ==
    /\ r.op = "claim" => status[r.user] \notin Gone
    /\ Retiring(r) /\ r.op # "reconcile" => owner[r.key] = r.user
    /\ Removes(r) /\ Retiring(r) => ActiveKeysOf(r.user) \subseteq {r.key}
    /\ Removes(r) /\ r.pc \in {"missing.alias", "settle"} => ActiveAfter(r.user) = {}
ApartStep(t) == ApartAfter(th'[t]) /\ \A v \in Threads \ {t} : th'[v] = th[v]

\* A goroutine whose record is legal, and what is known of its user.
Careful(t) == th \in [Threads -> Thread] /\ Fits(th[t]) /\ Apart(th[t])

\* Ending an operation leaves nothing to keep apart.
LEMMA FinishApart ==
    ASSUME NEW t \in Threads, Careful(t), Finish(t)
    PROVE  ApartStep(t)
BY DEF Careful, Finish, Become, ApartStep, ApartAfter, Idle, Removes, Retiring, Retirement

\* ProcessJobs forgets the user of the last job.
LEMMA NextJobApart ==
    ASSUME NEW t \in Threads, Careful(t), NEW due,
           Become(t, [Idle EXCEPT !.op = "jobs", !.pc = "jobs.next", !.due = due])
    PROVE  ApartStep(t)
<1>1. th'[t] = [Idle EXCEPT !.op = "jobs", !.pc = "jobs.next", !.due = due]
  BY DEF Careful, Become
<1> QED
  BY <1>1 DEF Careful, Become, ApartStep, ApartAfter, Idle, NoJob, Removes, Retiring, Retirement

\* Moving on keeps a goroutine apart, unless it takes a key to a revocation or
\* takes the user for one without an active key.
LEMMA MoveApart ==
    ASSUME NEW t \in Threads, Careful(t), NEW label,
           Goto(t, label) \/ ReadList(t, label) \/ Forget(t, label),
           label \in Retirement => th[t].op = "claim" \/ Retiring(th[t]),
           label \in {"missing.alias", "settle"} /\ Removes(th[t]) =>
                                              ActiveAfter(th[t].user) = {}
    PROVE  ApartStep(t)
<1>0. th[t] \in Thread
  BY DEF Careful
<1>1. /\ th'[t].op = th[t].op /\ th'[t].key = th[t].key /\ th'[t].user = th[t].user
      /\ th'[t].job = th[t].job /\ th'[t].pc = label
      /\ \A v \in Threads \ {t} : th'[v] = th[v]
  <2>1. CASE Goto(t, label)
    BY <1>0, <2>1 DEF Careful, Goto, Become, Thread
  <2>2. CASE ReadList(t, label)
    BY <1>0, <2>2 DEF Careful, ReadList, Become, Thread
  <2>3. CASE Forget(t, label)
    BY <1>0, <2>3 DEF Careful, Forget, Become, Thread
  <2> QED
    BY <2>1, <2>2, <2>3
<1>2. Removes(th'[t]) <=> Removes(th[t])
  BY <1>1 DEF Removes
<1>3. Retiring(th'[t]) => Retiring(th[t])
  BY <1>1 DEF Retiring
<1> QED
  BY <1>1, <1>2, <1>3 DEF Careful, Apart, ApartStep, ApartAfter

\* Keys.Revoke reports success only when its user has no active key left.
LEMMA RevokeReturnsApart ==
    ASSUME NEW t \in Threads, Careful(t), NEW done \in BOOLEAN, RevokeReturns(t, done),
           done /\ Removes(th[t]) => ActiveAfter(th[t].user) = {}
    PROVE  ApartStep(t)
<1>1. {"settle", "queue.active"} \cap Retirement = {}
  BY DEF Retirement
<1> QED
  BY <1>1, FinishApart, MoveApart, NextJobApart DEF RevokeReturns, NextJob

\* cpamp.RemoveAPIKey keeps the key in hand.
LEMMA RemoveReturnsApart ==
    ASSUME NEW t \in Threads, Careful(t), NEW done \in BOOLEAN,
           th[t].op = "claim" \/ Retiring(th[t]), RemoveReturns(t, done)
    PROVE  ApartStep(t)
<1>1. "undo.alias" \notin Retirement
  BY DEF Retirement
<1> QED
  BY <1>1, FinishApart, MoveApart, RevokeReturnsApart DEF RemoveReturns

\* A row that is retired is no active key any more, and a user has one at most.
LEMMA RetireLast ==
    ASSUME IInv, NEW t \in Threads, Careful(t), MissingStatus(t) \/ RevokeStatus(t),
           Removes(th[t])
    PROVE  ActiveAfter(th[t].user) = {}
<1>0. /\ owner' = owner /\ th[t].key \in Keys /\ row'[th[t].key] # "active"
      /\ \A k \in Keys \ {th[t].key} : row'[k] = row[k]
      /\ Retiring(th[t])
  BY DEF MissingStatus, RevokeStatus, At, Careful, Fits, IInv, TypeOK, Retiring, Retirement,
         Revokers
<1>1. ActiveKeysOf(th[t].user) \subseteq {th[t].key}
  BY <1>0 DEF Careful, Apart
<1> QED
  BY <1>0, <1>1 DEF ActiveKeysOf, ActiveAfter

\* Every step of a running goroutine keeps it apart.
LEMMA ContinueApart ==
    ASSUME IInv, NEW t \in Threads, Careful(t), Continue(t)
    PROVE  ApartStep(t)
<1>0. /\ th[t] \in Thread /\ Fits(th[t])
      /\ Claiming(th[t]) \/ th[t].op # "claim" \/ th[t].pc = "issue.active"
  BY DEF Careful, Claiming
<1>p. Retirement \cap {"add.list", "add.put", "add.confirm", "alias.list", "alias.keys",
        "alias.put", "swap", "queue.status", "queue.job", "jobs.delete", "reconcile.rows",
        "reconcile.next", "revoke.active", "undo.alias", "settle"} = {}
  BY DEF Retirement
<1>r. ASSUME row' = row, owner' = owner
      PROVE  \A u \in Users : ActiveAfter(u) = ActiveKeysOf(u)
  BY <1>r DEF ActiveAfter, ActiveKeysOf
<1>1. CASE IssueActive(t)
  <2>1. ASSUME NEW k, Take(t, "add.list", k)
        PROVE  ApartStep(t)
    <3>1. /\ th'[t].op = th[t].op /\ th'[t].user = th[t].user /\ th[t].op = "claim"
          /\ \A v \in Threads \ {t} : th'[v] = th[v]
      BY <1>0, <1>1, <2>1 DEF IssueActive, At, Fits, Take, Become, Thread, Careful
    <3> QED
      BY <3>1 DEF Careful, Apart, ApartStep, ApartAfter, Retiring, Removes
  <2> QED
    BY <1>1, <2>1, FinishApart DEF IssueActive
<1>2. CASE AddList(t) \/ AddPut(t) \/ AddConfirm(t) \/ AliasKeys(t) \/ AliasPut(t) \/ UndoAlias(t)
  <2>1. th[t].op = "claim"
    BY <1>0, <1>2 DEF AddList, AddPut, AddConfirm, AliasKeys, AliasPut, UndoAlias, At, Fits
  <2> QED
    BY <1>2, <1>p, <2>1, FinishApart, MoveApart
       DEF AddList, AddPut, AddConfirm, AliasKeys, AliasPut, UndoAlias
<1>3. CASE AliasList(t)
  <2>0. th[t].op = "claim"
    BY <1>0, <1>3 DEF AliasList, At, Fits
  <2>1. ASSUME Become(t, [th[t] EXCEPT !.pc = "alias.keys", !.names = alias])
        PROVE  ApartStep(t)
    <3>1. /\ th'[t].op = th[t].op /\ th'[t].user = th[t].user
          /\ \A v \in Threads \ {t} : th'[v] = th[v]
      BY <1>0, <2>1 DEF Become, Thread, Careful
    <3> QED
      BY <2>0, <3>1 DEF Careful, Apart, ApartStep, ApartAfter, Retiring, Removes
  <2> QED
    BY <1>3, <1>p, <2>0, <2>1, MoveApart DEF AliasList
<1>4. CASE Swap(t)
  <2>0. th[t].op = "claim"
    BY <1>0, <1>4 DEF Swap, At, Fits
  <2>1. ASSUME Become(t, [th[t] EXCEPT !.pc = "rm.list", !.undo = TRUE])
        PROVE  ApartStep(t)
    <3>1. /\ th'[t].op = th[t].op /\ th'[t].user = th[t].user
          /\ \A v \in Threads \ {t} : th'[v] = th[v]
      BY <1>0, <2>1 DEF Become, Thread, Careful
    <3> QED
      BY <2>0, <3>1 DEF Careful, Apart, ApartStep, ApartAfter, Retiring, Removes
  <2> QED
    BY <1>4, <2>1, FinishApart DEF Swap
<1>5. CASE RemoveList(t) \/ RemovePut(t) \/ RemoveConfirm(t)
  <2>1. th[t].op = "claim" \/ Retiring(th[t])
    BY <1>5 DEF RemoveList, RemovePut, RemoveConfirm, At, Retiring, Retirement
  <2> QED
    BY <1>5, <2>1, MoveApart, RemoveReturnsApart DEF RemoveList, RemovePut, RemoveConfirm
<1>6. CASE RevokeActive(t)
  <2>0. /\ th[t].op \notin {"claim", "reconcile"} /\ row' = row /\ owner' = owner
        /\ th[t].user \in Users
    BY <1>0, <1>6 DEF RevokeActive, At, Fits, Revokers, db
  <2>1. ASSUME NEW k \in ActiveKeysOf(th[t].user), Take(t, "revoke.list", k)
        PROVE  ApartStep(t)
    <3>1. /\ th'[t].op = th[t].op /\ th'[t].user = th[t].user /\ th'[t].key = k
          /\ th'[t].pc = "revoke.list"
          /\ \A v \in Threads \ {t} : th'[v] = th[v]
      BY <1>0, <2>1 DEF Take, Become, Thread, Careful
    <3>2. k \in Keys /\ owner[k] = th[t].user /\ ActiveKeysOf(th[t].user) = {k}
      BY <2>1 DEF ActiveKeysOf, IInv, OneActiveRow
    <3> QED
      BY <2>0, <3>1, <3>2 DEF ApartStep, ApartAfter
  <2>2. ActiveKeysOf(th[t].user) = {} => ActiveAfter(th[t].user) = {}
    BY <1>r, <2>0
  <2> QED
    BY <1>6, <2>1, <2>2, FinishApart, RevokeReturnsApart DEF RevokeActive
<1>7. CASE RevokeList(t)
  <2>1. Retiring(th[t])
    BY <1>0, <1>7 DEF RevokeList, At, Fits, Revokers, Retiring, Retirement
  <2> QED
    BY <1>7, <1>p, <2>1, FinishApart, MoveApart, RevokeReturnsApart DEF RevokeList
<1>8. CASE MissingStatus(t)
  <2>1. Retiring(th[t])
    BY <1>0, <1>8 DEF MissingStatus, At, Fits, Revokers, Retiring, Retirement
  <2> QED
    BY <1>8, <1>p, <2>1, MoveApart, RetireLast DEF MissingStatus
<1>9. CASE MissingAlias(t)
  <2>1. row' = row /\ owner' = owner
    BY <1>9 DEF MissingAlias, db
  <2>2. Removes(th[t]) => ActiveAfter(th[t].user) = {}
    <3>1. Removes(th[t]) => th[t].user \in Users
      BY <1>0, <1>9 DEF MissingAlias, At, Fits, Revokers, Removes
    <3> QED
      BY <1>9, <1>r, <2>1, <3>1 DEF MissingAlias, At, Careful, Apart
  <2> QED
    BY <1>9, <1>p, <2>2, FinishApart, MoveApart, RevokeReturnsApart DEF MissingAlias
<1>10. CASE RevokeAlias(t)
  <2>1. Retiring(th[t])
    BY <1>0, <1>10 DEF RevokeAlias, At, Fits, Revokers, Retiring, Retirement
  <2> QED
    BY <1>10, <1>p, <2>1, MoveApart, RevokeReturnsApart DEF RevokeAlias
<1>11. CASE RevokeStatus(t)
  BY <1>11, RetireLast, RevokeReturnsApart DEF RevokeStatus
<1>12. CASE QueueActive(t)
  <2>0. th[t].op # "claim"
    BY <1>0, <1>12 DEF QueueActive, At, Fits, Revokers
  <2>1. ASSUME NEW k, NEW label \in {"queue.job", "queue.status"}, Take(t, label, k)
        PROVE  ApartStep(t)
    <3>1. /\ th'[t].op = th[t].op /\ th'[t].pc = label
          /\ \A v \in Threads \ {t} : th'[v] = th[v]
      BY <1>0, <2>1 DEF Take, Become, Thread, Careful
    <3> QED
      BY <1>p, <2>0, <3>1 DEF ApartStep, ApartAfter, Retiring
  <2> QED
    BY <1>12, <2>1, FinishApart DEF QueueActive
<1>13. CASE QueueStatus(t) \/ QueueJob(t) \/ Settle(t)
  BY <1>13, <1>p, FinishApart, MoveApart DEF QueueStatus, QueueJob, Settle
<1>14. CASE JobsNext(t)
  <2>0. th[t].op # "claim"
    BY <1>0, <1>14 DEF JobsNext, At, Fits
  <2>1. ASSUME NEW job, Become(t, [th[t] EXCEPT !.pc = "revoke.active", !.user = job.user,
                                       !.job = job, !.due = @ \ {job}])
        PROVE  ApartStep(t)
    <3>1. /\ th'[t].op = th[t].op /\ th'[t].pc = "revoke.active"
          /\ \A v \in Threads \ {t} : th'[v] = th[v]
      BY <1>0, <2>1 DEF Become, Thread, Careful
    <3> QED
      BY <1>p, <2>0, <3>1 DEF ApartStep, ApartAfter, Retiring
  <2> QED
    BY <1>14, <2>1, FinishApart DEF JobsNext
<1>15. CASE JobsDelete(t)
  BY <1>15, NextJobApart DEF JobsDelete, NextJob
<1>16. CASE ReconcileList(t)
  BY <1>16, <1>p, FinishApart, MoveApart DEF ReconcileList
<1>17. CASE ReconcileRows(t)
  <2>1. /\ th'[t].pc = "reconcile.next" /\ th'[t].op = "reconcile"
        /\ \A v \in Threads \ {t} : th'[v] = th[v]
    BY <1>0, <1>17 DEF ReconcileRows, At, Fits, Become, Thread, Careful
  <2> QED
    BY <2>1 DEF ApartStep, ApartAfter, Removes
<1>18. CASE ReconcileNext(t)
  <2>1. ASSUME NEW k, Become(t, [th[t] EXCEPT !.pc = "missing.status", !.key = k, !.gone = @ \ {k}])
        PROVE  ApartStep(t)
    <3>1. /\ th'[t].op = "reconcile" /\ \A v \in Threads \ {t} : th'[v] = th[v]
      BY <1>0, <1>18, <2>1 DEF ReconcileNext, At, Fits, Become, Thread, Careful
    <3> QED
      BY <3>1 DEF ApartStep, ApartAfter, Removes
  <2> QED
    BY <1>18, <2>1, FinishApart DEF ReconcileNext
<1> QED
  BY <1>1, <1>2, <1>3, <1>4, <1>5, <1>6, <1>7, <1>8, <1>9, <1>10, <1>11, <1>12, <1>13, <1>14,
     <1>15, <1>16, <1>17, <1>18 DEF Continue

\* So does the start of an operation: a claim begins with an approved user.
LEMMA BeginApart ==
    ASSUME NEW t \in Threads, Careful(t), Begin(t) \/ CutOff(t)
    PROVE  ApartStep(t)
<1>1. ASSUME NEW operation, NEW u, NEW label, Start(t, operation, u, label),
             label \in {"issue.active", "revoke.active", "reconcile.list"},
             operation = "claim" => status[u] = "approved"
      PROVE  ApartStep(t)
  <2>1. th'[t] = [Idle EXCEPT !.op = operation, !.pc = label, !.user = u]
    BY <1>1 DEF Start, Become, Careful
  <2> QED
    BY <1>1, <2>1 DEF Start, Become, Careful, ApartStep, ApartAfter, Retiring, Retirement, Idle,
                      Gone
<1> QED
  BY <1>1, FinishApart, NextJobApart
     DEF Begin, CutOff, StartClaim, StartOwn, StartSuspendOrDelete, StartJobs, StartReconcile

\* A step taken while no claim runs beside a removal of its user keeps every
\* settled account without an active key.
LEMMA NextApartInv ==
    ASSUME ApartInv, Next, RemovalsApart
    PROVE  ApartInv'
<1>0. IInv /\ IInv' /\ SuspendedHasNoActiveKey /\ AllApart
  BY NextIInv DEF ApartInv
<1>1. \A v \in Threads : Careful(v)
  BY <1>0, AtHand DEF Careful, Known, AllApart
<1>2. ASSUME NEW t \in Threads, Begin(t) \/ Continue(t) \/ CutOff(t)
      PROVE  ApartStep(t)
  BY <1>0, <1>1, <1>2, BeginApart, ContinueApart
<1>3. ASSUME ~(\E v \in Threads : Begin(v) \/ Continue(v) \/ CutOff(v))
      PROVE  th' = th
  BY <1>3 DEF Next, OpenPage, Unsuspend, ExternalDelete, OperatorEdits
<1>4. \A u \in Users, v \in Threads : Removes(th[v]) /\ th[v].user = u =>
                                                    ActiveAfter(u) \subseteq ActiveKeysOf(u)
  <2>1. \A t \in Threads : Swap(t) => th[t].op = "claim"
    BY <1>1 DEF Swap, At, Careful, Fits
  <2> QED
    BY <1>0, <2>1, ActiveKeysShrink DEF RemovalsApart
<1>5. \A v \in Threads : Removes(th'[v]) /\ th'[v].pc # "jobs.next" => th'[v].user \in Users
  BY <1>0 DEF IInv, ControlOK, Fits, Removes, Revokers
<1>6. \A v \in Threads : th'[v].op = "claim" => th'[v].user \in Users
  BY <1>0 DEF IInv, ControlOK, Fits
<1>7. \A u \in Users : status'[u] \in Gone =>
         \/ status[u] \in Gone
         \/ \E t \in Threads : /\ Settle(t) /\ Removes(th[t]) /\ th[t].user = u
                               /\ ActiveKeysOf(u) = {}
  <2> SUFFICES ASSUME NEW u \in Users, status'[u] \in Gone, status[u] \notin Gone
               PROVE  \E t \in Threads : /\ Settle(t) /\ Removes(th[t]) /\ th[t].user = u
                                         /\ ActiveKeysOf(u) = {}
    OBVIOUS
  <2>0. status \in [Users -> Statuses]
    BY <1>0 DEF IInv, TypeOK
  <2>1. PICK t \in Threads : Continue(t)
    BY <2>0 DEF Next, Begin, CutOff, OpenPage, Unsuspend, ExternalDelete, OperatorEdits, StartClaim,
                StartOwn, StartSuspendOrDelete, StartJobs, StartReconcile, db, Gone
  <2>2. ~QueueStatus(t)
    BY <2>0 DEF QueueStatus, Gone
  <2>3. Settle(t)
    BY <2>1, <2>2, ContinueFrame
  <2> DEFINE action == IF th[t].op = "jobs" THEN th[t].job.action ELSE th[t].op
  <2>4. status' = [status EXCEPT ![th[t].user] = Settled(th[t].user, action)]
    BY <2>3 DEF Settle
  <2>5. th[t].user = u /\ action \in {"suspend", "delete"}
    BY <2>0, <2>4 DEF Settled
  <2>6. Removes(th[t])
    BY <2>5 DEF Removes
  <2> QED
    BY <1>1, <2>3, <2>5, <2>6 DEF Settle, At, Careful, Apart
<1>8. SuspendedHasNoActiveKey'
  <2> SUFFICES ASSUME NEW u \in Users, status'[u] \in Gone
               PROVE  ActiveAfter(u) = {}
    BY DEF SuspendedHasNoActiveKey, ActiveKeysOf, ActiveAfter, Gone
  <2>1. CASE status[u] \in Gone
    <3>1. \A t \in Threads : Swap(t) => th[t].user # u
      BY <1>1, <2>1 DEF Swap, At, Careful, Fits, Apart
    <3> QED
      BY <1>0, <2>1, <3>1, ActiveKeysShrink DEF SuspendedHasNoActiveKey, Gone
  <2> QED
    BY <1>4, <1>7, <2>1
<1>9. AllApart'
  <2> SUFFICES ASSUME NEW v \in Threads PROVE Apart(th[v])'
    BY DEF AllApart
  <2>0. \A k \in Keys : row[k] # "none" => owner'[k] = owner[k]
    <3>1. \A k \in Keys : row[k] # "none" => owner[k] # NoUser
      BY <1>0 DEF IInv, KnownRows
    <3>2. CASE \E t \in Threads : Continue(t)
      BY <1>0, <3>1, <3>2, ContinueFrame DEF IssueActive, Fresh, IInv, TypeOK
    <3>3. CASE ~\E t \in Threads : Continue(t)
      BY <3>3 DEF Next, Begin, CutOff, OpenPage, Unsuspend, ExternalDelete, OperatorEdits,
                  StartClaim,
                  StartOwn, StartSuspendOrDelete, StartJobs, StartReconcile
    <3> QED
      BY <3>2, <3>3
  <2>1. ApartAfter(th'[v]) \/ (th'[v] = th[v] /\ Apart(th[v]))
    BY <1>0, <1>2, <1>3 DEF ApartStep, AllApart
  <2>2. ASSUME th'[v].op = "claim"
        PROVE  status'[th'[v].user] \notin Gone
    <3> DEFINE u == th'[v].user
    <3>1. u \in Users /\ status[u] \notin Gone
      BY <1>6, <2>1, <2>2 DEF ApartAfter, Apart
    <3> SUFFICES ASSUME status'[u] \in Gone PROVE FALSE
      OBVIOUS
    <3>2. PICK t \in Threads : Removes(th[t]) /\ th[t].user = u /\ Settle(t)
      BY <1>7, <3>1
    <3>3. /\ th'[t].op # "claim"
          /\ \A w \in Threads \ {t} : th'[w] = th[w]
      BY <1>1, <3>2 DEF Settle, Goto, Finish, Become, Idle, Careful, Thread, Removes
    <3> QED
      BY <2>2, <3>2, <3>3 DEF RemovalsApart
  <2>3. Retiring(th'[v]) /\ th'[v].op # "reconcile" => owner'[th'[v].key] = th'[v].user
    BY <1>0, <2>0, <2>1, RetiredKeyHadRow DEF ApartAfter, Apart
  <2>4. Removes(th'[v]) /\ th'[v].user \in Users =>
                                ActiveAfter(th'[v].user) \subseteq ActiveKeysOf(th'[v].user)
    <3>1. ASSUME NEW t \in Threads, Swap(t)
          PROVE  /\ th[t].op = "claim" /\ th'[t] # th[t] /\ ~Removes(th'[t])
                 /\ \A w \in Threads \ {t} : th'[w] = th[w]
      <4>1. th[t].op = "claim" /\ th[t].pc = "swap" /\ th[t] \in Thread
        BY <1>1, <3>1 DEF Swap, At, Careful, Fits
      <4>2. Finish(t) \/ Become(t, [th[t] EXCEPT !.pc = "rm.list", !.undo = TRUE])
        BY <3>1 DEF Swap
      <4>3. \/ th'[t] = Idle
            \/ th'[t].op = "claim" /\ th'[t].pc = "rm.list"
        <5>1. CASE Finish(t)
          BY <1>1, <5>1 DEF Finish, Become, Careful
        <5>2. CASE Become(t, [th[t] EXCEPT !.pc = "rm.list", !.undo = TRUE])
          BY <1>1, <4>1, <5>2 DEF Become, Careful, Thread
        <5> QED
          BY <4>2, <5>1, <5>2
      <4>4. \A w \in Threads \ {t} : th'[w] = th[w]
        BY <1>1, <4>2 DEF Finish, Become, Careful
      <4> QED
        BY <4>1, <4>3, <4>4 DEF Removes, Idle
    <3>2. Removes(th'[v]) => \A t \in Threads : Swap(t) => th[t].user # th'[v].user
      BY <3>1 DEF RemovalsApart
    <3> QED
      BY <1>0, <3>2, ActiveKeysShrink
  <2>5. Removes(th'[v]) /\ Retiring(th'[v]) => ActiveAfter(th'[v].user) \subseteq {th'[v].key}
    <3>1. Retiring(th'[v]) => th'[v].pc # "jobs.next"
      BY DEF Retiring, Retirement
    <3> QED
      BY <1>5, <2>1, <2>4, <3>1 DEF ApartAfter, Apart
  <2>6. Removes(th'[v]) /\ th'[v].pc \in {"missing.alias", "settle"} =>
                                                       ActiveAfter(th'[v].user) = {}
    BY <1>5, <2>1, <2>4 DEF ApartAfter, Apart
  <2> QED
    BY <2>2, <2>3, <2>5, <2>6 DEF Apart, ActiveAfter, ActiveKeysOf, Removes, Retiring
<1> QED
  BY <1>0, <1>8, <1>9 DEF ApartInv

\* If no claim of a user ran beside the suspension or deletion of that user, an
\* account that is suspended or deleted would hold no active key, whatever fails,
\* is queued, retried or cut off on the way (SuspendedHasNoActiveKey).
THEOREM SettledAccountsHoldNoKey == Spec /\ []RemovalsApart => []SuspendedHasNoActiveKey
<1>1. Init => ApartInv
  <2>1. ASSUME Init
        PROVE  SuspendedHasNoActiveKey /\ AllApart
    <3>1. Apart(Idle)
      BY DEF Apart, Idle, Retiring, Retirement, Removes
    <3> QED
      BY <2>1, <3>1 DEF Init, SuspendedHasNoActiveKey, AllApart
  <2> QED
    BY <2>1, InitIInv DEF ApartInv
<1>2. ApartInv /\ [Next]_vars /\ RemovalsApart => ApartInv'
  <2> SUFFICES ASSUME ApartInv, UNCHANGED vars
               PROVE  ApartInv'
    BY NextApartInv
  <2>1. IInv'
    BY NextIInv DEF ApartInv
  <2> QED
    BY <2>1 DEF ApartInv, vars, SuspendedHasNoActiveKey, ActiveKeysOf, AllApart, Apart, Removes,
                Retiring
<1>3. ApartInv => SuspendedHasNoActiveKey
  BY DEF ApartInv
<1> QED
  BY <1>1, <1>2, <1>3, PTL DEF Spec

-----------------------------------------------------------------------------
(* Both hypotheses hold when one goroutine works at a time and the operator  *)
(* deletes no portal key by hand; he may add and delete keys of his own.     *)

OneAtATime == \A t, v \in Threads : ~At(t, "idle") /\ ~At(v, "idle") => t = v

\* The list a goroutine is about to use is CPA's, as far as portal keys go.
ListsCurrent ==
    \A t \in Threads : th[t].pc \in UsesList =>
        \A k \in Keys : k \in th[t].list <=> k \in cpa

\* Then no portal key enters or leaves CPA's list between its read and its use.
LEMMA NextListsCurrent ==
    ASSUME DeadInv, ListsCurrent, Next, OneAtATime, "external" \notin Operations
    PROVE  NoLostUpdate /\ ListsCurrent'
<1>0. IInv /\ AllTruthful
  BY DEF DeadInv
<1>1. NoLostUpdate
  BY DEF NoLostUpdate, ListsCurrent, AddPut, RemovePut, ReconcileRows, At, UsesList
<1>2. \A v \in Threads : Reliable(v)
  BY <1>0, AtHand DEF Reliable, Known, AllTruthful
<1>3. ASSUME NEW t \in Threads, Continue(t)
      PROVE  /\ TruthfulStep(t)
             /\ th'[t].pc \in UsesList => cpa' = cpa
             /\ ~At(t, "idle")
  <2>1. TruthfulStep(t)
    BY <1>1, <1>2, <1>3, ContinueTruthful
  <2>2. CASE AddPut(t) \/ RemovePut(t)
    <3>1. th[t] \in Thread /\ th \in [Threads -> Thread]
      BY <1>2 DEF Reliable
    <3>2. ASSUME NEW label, Forget(t, label)
          PROVE  th'[t].pc = label
      BY <3>1, <3>2 DEF Forget, Become, Thread
    <3>3. ASSUME Finish(t)
          PROVE  th'[t].pc = "idle"
      BY <3>1, <3>3 DEF Finish, Become, Idle
    <3>4. ASSUME NextJob(t)
          PROVE  th'[t].pc = "jobs.next"
      BY <3>1, <3>4 DEF NextJob, Become, Idle
    <3> QED
      BY <2>1, <2>2, <3>2, <3>3, <3>4
         DEF AddPut, RemovePut, RemoveReturns, RevokeReturns, UsesList, At
  <2>3. th[t].pc # "idle"
    BY <1>3 DEF Continue, At, IssueActive, AddList, AddPut, AddConfirm, AliasList, AliasKeys,
         AliasPut, Swap, UndoAlias, RemoveList, RemovePut, RemoveConfirm, RevokeActive,
         RevokeList, MissingStatus, MissingAlias, RevokeAlias, RevokeStatus, QueueActive,
         QueueStatus, QueueJob, Settle, JobsNext, JobsDelete, ReconcileList, ReconcileRows,
         ReconcileNext
  <2> QED
    BY <1>3, <2>1, <2>2, <2>3, ContinueFrame DEF At
<1>4. ASSUME NEW t \in Threads, Begin(t) \/ CutOff(t)
      PROVE  TruthfulStep(t) /\ cpa' = cpa
  <2>1. cpa' = cpa
    BY <1>4 DEF Begin, CutOff, StartClaim, StartOwn, StartSuspendOrDelete, StartJobs,
                StartReconcile, remote
  <2> QED
    BY <1>0, <1>2, <1>4, <2>1, BeginTruthful
<1>5. ASSUME NEW t \in Threads, Continue(t)
      PROVE  ListsCurrent'
  <2>1. \A v \in Threads \ {t} : th'[v] = th[v] /\ th[v].pc = "idle"
    BY <1>3, <1>5 DEF OneAtATime, At, TruthfulStep
  <2> QED
    BY <1>3, <1>5, <2>1 DEF ListsCurrent, TruthfulStep, UsesList
<1>6. ASSUME NEW t \in Threads, Begin(t) \/ CutOff(t)
      PROVE  ListsCurrent'
  BY <1>4, <1>6 DEF ListsCurrent, TruthfulStep
<1>7. ASSUME \E u \in Users : OpenPage(u) \/ Unsuspend(u)
      PROVE  ListsCurrent'
  BY <1>7 DEF ListsCurrent, OpenPage, Unsuspend, remote
<1>8. ASSUME NEW m \in Manual, OperatorEdits(m)
      PROVE  ListsCurrent'
  <2>1. \A k \in Keys : k \in cpa' <=> k \in cpa
    BY <1>8, ConstantsAssumption DEF OperatorEdits
  <2> QED
    BY <1>8, <2>1 DEF ListsCurrent, OperatorEdits
<1> QED
  BY <1>1, <1>5, <1>6, <1>7, <1>8 DEF Next, ExternalDelete

\* One goroutine at a time, the portal keeps all three promises about keys: a
\* retired key is dead, a user has one usable key at most, and a settled account
\* none, whatever calls fail and wherever a handler is cut off.
THEOREM OneAtATimeIsSafe ==
    ASSUME "external" \notin Operations
    PROVE  Spec /\ []OneAtATime =>
               [](RevokedKeyIsDead /\ AtMostOneUsableKey /\ SuspendedHasNoActiveKey)
<1>1. Init => DeadInv /\ ListsCurrent
  <2>1. ASSUME Init
        PROVE  RevokedKeyIsDead /\ AllTruthful /\ ListsCurrent
    <3>1. Truthful(Idle) /\ Idle.pc \notin UsesList
      BY DEF Truthful, Idle, AfterRemoval, UsesList
    <3> QED
      BY <2>1, <3>1 DEF Init, RevokedKeyIsDead, AllTruthful, ListsCurrent
  <2> QED
    BY <2>1, InitIInv DEF DeadInv
<1>2. DeadInv /\ ListsCurrent /\ [Next]_vars /\ OneAtATime =>
                                    DeadInv' /\ ListsCurrent' /\ [NoLostUpdate]_vars
  <2> SUFFICES ASSUME DeadInv, ListsCurrent, UNCHANGED vars
               PROVE  DeadInv' /\ ListsCurrent'
    BY NextListsCurrent, NextDeadInv
  <2>1. IInv'
    BY NextIInv DEF DeadInv
  <2> QED
    BY <2>1 DEF DeadInv, vars, RevokedKeyIsDead, AllTruthful, Truthful, ListsCurrent
<1>3. IInv /\ OneAtATime => RemovalsApart
  <2> SUFFICES ASSUME IInv, OneAtATime, NEW t \in Threads, NEW v \in Threads,
                      th[t].op = "claim", Removes(th[v])
               PROVE  th[t].user # th[v].user
    BY DEF RemovalsApart
  <2>1. th[t].pc # "idle" /\ th[v].pc # "idle"
    BY DEF IInv, ControlOK, Fits, Removes
  <2> QED
    BY <2>1 DEF OneAtATime, At, Removes
<1> QED
  BY <1>1, <1>2, <1>3, Inductive, RetiredKeysStayDead, OneUsableKey, SettledAccountsHoldNoKey, PTL
     DEF Spec

-----------------------------------------------------------------------------
(* The ledger (KeyLedger): what it promises by itself, and that the portal   *)
(* keeps it when no update of CPA's list is lost and no claim of a user runs *)
(* beside the removal of that user.                                          *)

\* What a ledger keeps from entry to entry.
LedgerInv ==
    /\ Ledger!LedgerPromises
    /\ Holder \in [Keys -> Users \cup {NoUser}]
    /\ KeyState \in [Keys -> {"unused", "active", "retired"}]

\* The entries of the ledger by themselves keep a retired key dead, one active key
\* a user, none for a closed account, and the operator's keys.
THEOREM LedgerKeepsPromises == Ledger!LedgerSpec => []Ledger!LedgerPromises
<1> USE ConstantsAssumption
<1>1. Ledger!LedgerInit => LedgerInv
  BY DEF Ledger!LedgerInit, LedgerInv, Ledger!LedgerPromises, Ledger!Granted, Ledger!ActiveOf
<1>2. LedgerInv /\ [Ledger!LedgerNext]_Ledger!ledger => LedgerInv'
  <2> SUFFICES ASSUME LedgerInv, [Ledger!LedgerNext]_Ledger!ledger
               PROVE  LedgerInv'
    OBVIOUS
  <2>1. ASSUME NEW u \in Users, NEW k \in Keys, Ledger!Grant(u, k)
        PROVE  LedgerInv'
    BY <2>1 DEF LedgerInv, Ledger!LedgerPromises, Ledger!Grant, Ledger!ActiveOf
  <2>2. ASSUME NEW k \in Keys, Ledger!Retire(k)
        PROVE  LedgerInv'
    BY <2>2 DEF LedgerInv, Ledger!LedgerPromises, Ledger!Retire, Ledger!ActiveOf
  <2>3. CASE Ledger!Relist
    <3>1. Ledger!Granted \cap cpa' \subseteq cpa
      BY <2>3 DEF Ledger!Relist
    <3> QED
      BY <2>3, <3>1 DEF LedgerInv, Ledger!LedgerPromises, Ledger!Relist, Ledger!ActiveOf,
                        Ledger!Granted
  <2>4. ASSUME NEW u \in Users, Ledger!Close(u) \/ Ledger!Reopen(u)
        PROVE  LedgerInv'
    BY <2>4 DEF LedgerInv, Ledger!LedgerPromises, Ledger!Close, Ledger!Reopen, Ledger!ActiveOf
  <2>5. ASSUME NEW m \in Manual, Ledger!OperatorEdits(m)
        PROVE  LedgerInv'
    <3>1. \A k \in Keys : k # m
      BY ConstantsAssumption
    <3> QED
      BY <2>5, <3>1 DEF LedgerInv, Ledger!LedgerPromises, Ledger!OperatorEdits, Ledger!ActiveOf
  <2>6. CASE UNCHANGED Ledger!ledger
    BY <2>6 DEF LedgerInv, Ledger!LedgerPromises, Ledger!ledger, Ledger!ActiveOf
  <2> QED
    BY <2>1, <2>2, <2>3, <2>4, <2>5, <2>6 DEF Ledger!LedgerNext
<1>3. LedgerInv => Ledger!LedgerPromises
  BY DEF LedgerInv
<1> QED
  BY <1>1, <1>2, <1>3, PTL DEF Ledger!LedgerSpec

\* The ledger opens with the keys the users have.
LEMMA LedgerOpens == Init => Ledger!LedgerInit
<1> SUFFICES ASSUME Init PROVE Ledger!LedgerInit
  OBVIOUS
<1>0. IInv
  BY InitIInv
<1>1. \A k \in Keys : row[k] = "none" \/ (row[k] = "active" /\ owner[k] \in Users)
  BY <1>0 DEF Init, IInv, TypeOK, KnownRows
<1>2. \A k \in Keys : k \in Claimed <=> row[k] # "none"
  BY DEF Init
<1>3. Claimed \subseteq Keys
  BY ConstantsAssumption DEF Claimed
<1>4. Ledger!Granted = Claimed
  BY <1>1, <1>2, <1>3 DEF Ledger!Granted, KeyState
<1>5. Holder \in [Keys -> Users \cup {NoUser}]
  BY <1>1 DEF Holder
<1>6. KeyState = [k \in Keys |-> IF Holder[k] = NoUser THEN "unused" ELSE "active"]
  BY <1>1, ConstantsAssumption DEF Holder, KeyState
<1>7. \A k, l \in Ledger!Granted : Holder[k] = Holder[l] => k = l
  BY <1>0, <1>1, <1>2, <1>3, <1>4 DEF Holder, IInv, OneActiveRow
<1>8. cpa = Ledger!Granted \cup Manual
  BY <1>4 DEF Init
<1>9. Closed = {} /\ kept = Manual
  BY DEF Init, Closed
<1> QED
  BY <1>5, <1>6, <1>7, <1>8, <1>9 DEF Ledger!LedgerInit

\* In the ledger an active key is an active row.
LEMMA LedgerActive ==
    ASSUME IInv, NEW u \in Users
    PROVE  Ledger!ActiveOf(u) = ActiveKeysOf(u)
BY DEF IInv, TypeOK, RowStatuses, Ledger!ActiveOf, ActiveKeysOf, Holder, KeyState

\* A key without a row is the only one that is not granted.
LEMMA LedgerGranted == Ledger!Granted = {k \in Keys : row[k] # "none"}
BY DEF Ledger!Granted, KeyState

\* The insert of a claim is a grant.
LEMMA SwapInLedger ==
    ASSUME IInv, AllApart, NEW t \in Threads, Swap(t)
    PROVE  [Ledger!LedgerNext]_Ledger!ledger
<1>0. /\ owner' = owner /\ cpa' = cpa /\ status' = status /\ kept' = kept
      /\ row \in [Keys -> RowStatuses] /\ owner \in [Keys -> Users \cup {NoUser}]
  BY DEF Swap, remote, IInv, TypeOK
<1>1. Fits(th[t]) /\ th[t].op = "claim" /\ th[t].user \in Users /\ th[t].key \in Keys
      /\ Claiming(th[t])
  BY AtHand DEF Swap, At, Known, Fits, Claiming
<1>2. row[th[t].key] = "none" /\ owner[th[t].key] = th[t].user
  BY <1>1 DEF IInv, PrivateClaims
<1>3. CASE row' = row
  BY <1>0, <1>3 DEF Ledger!ledger, Holder, KeyState, Closed
<1>4. CASE row' # row
  <2> DEFINE k == th[t].key
             u == th[t].user
  <2>1. row' = [row EXCEPT ![k] = "active"] /\ ActiveKeysOf(u) = {}
    BY <1>4 DEF Swap
  <2>2. u \notin Closed
    BY <1>1 DEF AllApart, Apart, Closed, Gone
  <2>3. Ledger!ActiveOf(u) = {}
    BY <1>1, <2>1, LedgerActive
  <2>4. KeyState[k] = "unused" /\ KeyState' = [KeyState EXCEPT ![k] = "active"]
    BY <1>0, <1>1, <1>2, <2>1 DEF KeyState
  <2>5. Holder' = [Holder EXCEPT ![k] = u]
    BY <1>0, <1>1, <1>2, <2>1 DEF Holder
  <2>6. Closed' = Closed
    BY <1>0 DEF Closed
  <2>7. Ledger!Grant(u, k)
    BY <1>0, <2>2, <2>3, <2>4, <2>5, <2>6 DEF Ledger!Grant
  <2> QED
    BY <1>1, <2>7 DEF Ledger!LedgerNext
<1> QED
  BY <1>3, <1>4

\* A row is retired only when CPA refuses its key.
LEMMA RetireInLedger ==
    ASSUME IInv, AllTruthful, NEW t \in Threads, MissingStatus(t) \/ RevokeStatus(t)
    PROVE  [Ledger!LedgerNext]_Ledger!ledger
<1> DEFINE k == th[t].key
<1>0. /\ owner' = owner /\ cpa' = cpa /\ status' = status /\ kept' = kept
      /\ row \in [Keys -> RowStatuses] /\ owner \in [Keys -> Users \cup {NoUser}]
  BY DEF MissingStatus, RevokeStatus, remote, IInv, TypeOK
<1>1. k \in Keys /\ Retiring(th[t]) /\ th[t].op # "claim" /\ th[t].pc \in AfterRemoval
  BY AtHand DEF MissingStatus, RevokeStatus, At, Known, Fits, Retiring, Retirement, Revokers,
                AfterRemoval
<1>2. row[k] # "none" /\ k \notin cpa
  BY <1>1 DEF IInv, KnownRows, AllTruthful, Truthful
<1>3. row' \in {[row EXCEPT ![k] = "revoked"], [row EXCEPT ![k] = "external_revoked"]}
  BY DEF MissingStatus, RevokeStatus
<1>4. Holder' = Holder
  BY <1>0, <1>1, <1>2, <1>3 DEF Holder
<1>5. Closed' = Closed
  BY <1>0 DEF Closed
<1>6. CASE row[k] = "active"
  <2>1. KeyState[k] = "active" /\ KeyState' = [KeyState EXCEPT ![k] = "retired"]
    BY <1>0, <1>1, <1>3, <1>6 DEF KeyState
  <2>2. Ledger!Retire(k)
    BY <1>0, <1>2, <1>4, <1>5, <2>1 DEF Ledger!Retire
  <2> QED
    BY <1>1, <2>2 DEF Ledger!LedgerNext
<1>7. CASE row[k] # "active"
  <2>1. KeyState' = KeyState
    BY <1>0, <1>1, <1>2, <1>3, <1>7 DEF KeyState
  <2> QED
    BY <1>0, <1>4, <1>5, <2>1 DEF Ledger!ledger
<1> QED
  BY <1>6, <1>7

\* A rewrite of CPA's list that loses no update takes at most one granted key out
\* and brings none back.
LEMMA PutInLedger ==
    ASSUME IInv, NoLostUpdate, NEW t \in Threads, AddPut(t) \/ RemovePut(t), IInv'
    PROVE  [Ledger!LedgerNext]_Ledger!ledger
<1> DEFINE k == th[t].key
<1>0. row' = row /\ owner' = owner /\ status' = status /\ kept' = kept
  BY DEF AddPut, RemovePut, db
<1>1. Holder' = Holder /\ KeyState' = KeyState /\ Closed' = Closed
  BY <1>0 DEF Holder, KeyState, Closed
<1>2. cpa' \subseteq Keys \cup Manual /\ kept' \subseteq cpa'
  BY DEF IInv, TypeOK, ManualKeysKept
<1>3. th[t].list \cap Ledger!Granted = cpa \cap Ledger!Granted
  BY LedgerGranted DEF NoLostUpdate
<1>4. CASE AddPut(t)
  <2>1. k \notin Ledger!Granted
    <3>1. Claiming(th[t])
      BY <1>4, AtHand DEF AddPut, At, Known, Fits, Claiming
    <3> QED
      BY <3>1, LedgerGranted DEF IInv, PrivateClaims
  <2>2. cpa' \in {cpa, th[t].list \cup {k}}
    BY <1>4 DEF AddPut
  <2>3. cpa' \cap Ledger!Granted = cpa \cap Ledger!Granted
    BY <1>3, <2>1, <2>2
  <2> QED
    BY <1>0, <1>1, <1>2, <2>3 DEF Ledger!Relist, Ledger!LedgerNext
<1>5. CASE RemovePut(t)
  <2>1. cpa' \in {cpa, th[t].list \ {k}}
    BY <1>5 DEF RemovePut
  <2>2. \/ cpa' \cap Ledger!Granted = cpa \cap Ledger!Granted
        \/ k \in Ledger!Granted /\ cpa' \cap Ledger!Granted = (cpa \cap Ledger!Granted) \ {k}
    BY <1>3, <2>1
  <2> QED
    BY <1>0, <1>1, <1>2, <2>2 DEF Ledger!Relist, Ledger!LedgerNext
<1> QED
  BY <1>4, <1>5

\* A change of one user's status opens or closes that account in the ledger.
LEMMA StatusInLedger ==
    ASSUME IInv, NEW u \in Users, NEW s, status' = [status EXCEPT ![u] = s],
           s \in {"suspended", "deleted"} => u \in Closed \/ ActiveKeysOf(u) = {},
           UNCHANGED <<row, owner, cpa, kept>>
    PROVE  [Ledger!LedgerNext]_Ledger!ledger
<1>0. status \in [Users -> Statuses]
  BY DEF IInv, TypeOK
<1>1. Holder' = Holder /\ KeyState' = KeyState
  BY DEF Holder, KeyState
<1>2. CASE s \in {"suspended", "deleted"}
  <2>1. Closed' = Closed \cup {u}
    BY <1>0, <1>2 DEF Closed
  <2>2. CASE u \in Closed
    BY <1>1, <2>1, <2>2 DEF Ledger!ledger
  <2>3. CASE ActiveKeysOf(u) = {}
    BY <1>1, <2>1, <2>3, LedgerActive DEF Ledger!Close, Ledger!LedgerNext
  <2> QED
    BY <1>2, <2>2, <2>3
<1>3. CASE s \notin {"suspended", "deleted"}
  <2>1. Closed' = Closed \ {u}
    BY <1>0, <1>3 DEF Closed
  <2> QED
    BY <1>1, <2>1 DEF Ledger!Reopen, Ledger!LedgerNext
<1> QED
  BY <1>2, <1>3

\* An account is settled when its user has no active key.
LEMMA SettleInLedger ==
    ASSUME IInv, AllApart, NEW t \in Threads, Settle(t) \/ QueueStatus(t)
    PROVE  [Ledger!LedgerNext]_Ledger!ledger
<1>0. UNCHANGED <<row, owner, cpa, kept>> /\ th[t].user \in Users
  BY AtHand DEF Settle, QueueStatus, remote, At, Known, Fits, Revokers
<1>1. CASE QueueStatus(t)
  <2> DEFINE s == IF th[t].op = "delete" THEN "delete_pending" ELSE "suspended_pending"
  <2>1. status' = [status EXCEPT ![th[t].user] = s]
    BY <1>1 DEF QueueStatus
  <2>2. s \notin {"suspended", "deleted"}
    OBVIOUS
  <2> QED
    BY <1>0, <2>1, <2>2, StatusInLedger
<1>2. CASE Settle(t)
  <2> DEFINE action == IF th[t].op = "jobs" THEN th[t].job.action ELSE th[t].op
             u == th[t].user
  <2>1. status' = [status EXCEPT ![u] = Settled(u, action)]
    BY <1>2 DEF Settle
  <2>2. CASE action \in {"suspend", "delete"}
    <3>1. Removes(th[t])
      BY <2>2 DEF Removes
    <3>2. ActiveKeysOf(u) = {}
      BY <1>2, <3>1 DEF Settle, At, AllApart, Apart
    <3> QED
      BY <1>0, <2>1, <3>2, StatusInLedger
  <2>3. CASE action \notin {"suspend", "delete"}
    <3>1. Settled(u, action) = status[u]
      BY <2>3 DEF Settled
    <3>2. Settled(u, action) \in {"suspended", "deleted"} => u \in Closed
      BY <1>0, <3>1 DEF Closed
    <3> QED
      BY <1>0, <2>1, <3>2, StatusInLedger
  <2> QED
    BY <2>2, <2>3
<1> QED
  BY <1>1, <1>2

\* Every other step leaves the ledger alone: a secret is minted, a call is made,
\* a request begins or ends.
LEMMA QuietInLedger ==
    ASSUME IInv, UNCHANGED <<row, status, cpa, kept>>,
           owner' = owner \/ \E t \in Threads : IssueActive(t)
    PROVE  UNCHANGED Ledger!ledger
<1>1. \A k \in Keys : row[k] # "none" => owner'[k] = owner[k]
  <2>1. ASSUME NEW t \in Threads, IssueActive(t), NEW k \in Keys, row[k] # "none"
        PROVE  owner'[k] = owner[k]
    BY <2>1 DEF IssueActive, Fresh, IInv, KnownRows, TypeOK
  <2> QED
    BY <2>1
<1>2. Holder' = Holder
  BY <1>1 DEF Holder
<1> QED
  BY <1>2 DEF Ledger!ledger, KeyState, Closed

\* Every step is an entry of the ledger, or none.
LEMMA NextInLedger ==
    ASSUME IInv, AllTruthful, AllApart, Next, NoLostUpdate
    PROVE  [Ledger!LedgerNext]_Ledger!ledger
<1>0. IInv'
  BY NextIInv
<1>1. ASSUME NEW t \in Threads, Continue(t)
      PROVE  [Ledger!LedgerNext]_Ledger!ledger
  <2>1. CASE row' = row /\ status' = status /\ cpa' = cpa
    BY <1>1, <2>1, ContinueFrame, QuietInLedger
  <2>2. CASE row' # row \/ status' # status \/ cpa' # cpa
    BY <1>0, <1>1, <2>2, ContinueFrame, SwapInLedger, RetireInLedger, PutInLedger, SettleInLedger
  <2> QED
    BY <2>1, <2>2
<1>2. ASSUME NEW t \in Threads, Begin(t) \/ CutOff(t)
      PROVE  [Ledger!LedgerNext]_Ledger!ledger
  <2>1. CASE Begin(t)
    <3>1. UNCHANGED <<row, status, cpa, kept, owner>>
      BY <2>1 DEF Begin, StartClaim, StartOwn, StartSuspendOrDelete, StartJobs, StartReconcile,
                  db, remote
    <3> QED
      BY <3>1, QuietInLedger
  <2>2. CASE CutOff(t)
    BY <2>2, QuietInLedger DEF CutOff, db, remote
  <2> QED
    BY <1>2, <2>1, <2>2
<1>3. ASSUME NEW u \in Users, OpenPage(u)
      PROVE  [Ledger!LedgerNext]_Ledger!ledger
  BY <1>3, QuietInLedger DEF OpenPage, remote, db
<1>4. ASSUME NEW u \in Users, Unsuspend(u)
      PROVE  [Ledger!LedgerNext]_Ledger!ledger
  BY <1>4, StatusInLedger DEF Unsuspend, remote
<1>5. ASSUME NEW k \in Keys, ExternalDelete(k)
      PROVE  [Ledger!LedgerNext]_Ledger!ledger
  <2>1. Holder' = Holder /\ KeyState' = KeyState /\ Closed' = Closed /\ kept' = kept
    BY <1>5 DEF ExternalDelete, db, Holder, KeyState, Closed
  <2>2. cpa' \subseteq Keys \cup Manual /\ kept' \subseteq cpa'
    BY <1>0 DEF IInv, TypeOK, ManualKeysKept
  <2>3. \/ cpa' \cap Ledger!Granted = cpa \cap Ledger!Granted
        \/ k \in Ledger!Granted /\ cpa' \cap Ledger!Granted = (cpa \cap Ledger!Granted) \ {k}
    BY <1>5 DEF ExternalDelete
  <2> QED
    BY <2>1, <2>2, <2>3 DEF Ledger!Relist, Ledger!LedgerNext
<1>6. ASSUME NEW m \in Manual, OperatorEdits(m)
      PROVE  [Ledger!LedgerNext]_Ledger!ledger
  <2>1. Holder' = Holder /\ KeyState' = KeyState /\ Closed' = Closed
    BY <1>6 DEF OperatorEdits, db, Holder, KeyState, Closed
  <2>2. \/ cpa' = cpa \cup {m} /\ kept' \in {kept, kept \cup {m}}
        \/ cpa' = cpa \ {m} /\ kept' = kept \ {m}
    BY <1>6 DEF OperatorEdits
  <2> QED
    BY <2>1, <2>2 DEF Ledger!OperatorEdits, Ledger!LedgerNext
<1> QED
  BY <1>1, <1>2, <1>3, <1>4, <1>5, <1>6 DEF Next

\* If no update of CPA's list is lost and no claim of a user runs beside the
\* removal of that user, the portal keeps the ledger (KeepsTheLedger), whatever
\* calls fail, crash, are queued or interleave.
THEOREM PortalKeepsTheLedger ==
    Spec /\ [][NoLostUpdate]_vars /\ []RemovalsApart => KeepsTheLedger
<1>1. Init => DeadInv /\ ApartInv
  <2> SUFFICES ASSUME Init
               PROVE  RevokedKeyIsDead /\ AllTruthful /\ SuspendedHasNoActiveKey /\ AllApart
    BY InitIInv DEF DeadInv, ApartInv
  <2>1. Truthful(Idle) /\ Apart(Idle)
    BY DEF Truthful, Apart, Idle, AfterRemoval, Retiring, Retirement, Removes
  <2> QED
    BY <2>1 DEF Init, RevokedKeyIsDead, AllTruthful, SuspendedHasNoActiveKey, AllApart
<1>2. DeadInv /\ ApartInv /\ [Next]_vars /\ [NoLostUpdate]_vars /\ RemovalsApart =>
                DeadInv' /\ ApartInv' /\ [Ledger!LedgerNext]_Ledger!ledger
  <2>1. ASSUME DeadInv, ApartInv, Next, NoLostUpdate, RemovalsApart
        PROVE  DeadInv' /\ ApartInv' /\ [Ledger!LedgerNext]_Ledger!ledger
    BY <2>1, NextDeadInv, NextApartInv, NextInLedger DEF DeadInv, ApartInv
  <2>2. ASSUME DeadInv, ApartInv, UNCHANGED vars
        PROVE  DeadInv' /\ ApartInv' /\ UNCHANGED Ledger!ledger
    <3>1. IInv'
      BY <2>2, NextIInv DEF DeadInv
    <3>2. UNCHANGED Ledger!ledger
      BY <2>2 DEF vars, Ledger!ledger, Holder, KeyState, Closed
    <3> QED
      BY <2>2, <3>1, <3>2
         DEF DeadInv, ApartInv, vars, RevokedKeyIsDead, AllTruthful, Truthful,
             SuspendedHasNoActiveKey, ActiveKeysOf, AllApart, Apart, Removes, Retiring
  <2> QED
    BY <2>1, <2>2
<1> QED
  BY <1>1, <1>2, LedgerOpens, PTL DEF Spec, KeepsTheLedger, Ledger!LedgerSpec

-----------------------------------------------------------------------------
(* suspendOrDelete sets the pending status and queues the job in two          *)
(* statements, and ProcessJobs deletes a job after it has settled the        *)
(* account.  Nothing else can leave a pending account without a job.         *)

\* No two goroutines suspend or delete the same user at once: a request does not
\* repeat the removal whose job is at work.
RemovalsSerial ==
    \A t, v \in Threads :
        Removes(th[t]) /\ Removes(th[v]) /\ th[t].user = th[v].user => t = v

\* No handler is cut off between SetUserStatus and EnqueueJob.
NotCutOffHalfway == \A t \in Threads : At(t, "queue.job") => ~CutOff(t)

Removals == {"suspend", "delete"}
PendingFor(action) == IF action = "delete" THEN "delete_pending" ELSE "suspended_pending"

\* A pending account has a job of its kind in the queue, or is about to get it.
Queued(u, action) ==
    \/ \E job \in jobs : job.user = u /\ job.action = action
    \/ \E t \in Threads : At(t, "queue.job") /\ th[t].user = u /\ th[t].op = action
PendingIsQueued ==
    \A u \in Users, action \in Removals : status[u] = PendingFor(action) => Queued(u, action)

\* In the record r, given the statuses s: the job at hand is of its user, only a
\* removal sets a pending status, and the account of a job that is deleted from
\* the queue is pending no more.
OrderlyWith(r, s) ==
    /\ r.op = "jobs" => r.user = r.job.user
    /\ r.pc = "queue.status" => r.op \in Removals
    /\ r.pc = "jobs.delete" /\ r.job.action \in Removals =>
           \A action \in Removals : s[r.user] # PendingFor(action)
AllOrderly == \A t \in Threads : OrderlyWith(th[t], status)

OrderlyStep(t) == OrderlyWith(th'[t], status') /\ \A v \in Threads \ {t} : th'[v] = th[v]

\* A goroutine whose record is legal and orderly.
Working(t) == th \in [Threads -> Thread] /\ Fits(th[t]) /\ OrderlyWith(th[t], status)

\* Ending an operation is orderly.
LEMMA FinishOrderly ==
    ASSUME NEW t \in Threads, Working(t), Finish(t)
    PROVE  OrderlyStep(t)
BY DEF Working, Finish, Become, OrderlyStep, OrderlyWith, Idle

\* So is the way back to the rest of the jobs.
LEMMA NextJobOrderly ==
    ASSUME NEW t \in Threads, Working(t), NEW due,
           Become(t, [Idle EXCEPT !.op = "jobs", !.pc = "jobs.next", !.due = due])
    PROVE  OrderlyStep(t)
<1>1. th'[t] = [Idle EXCEPT !.op = "jobs", !.pc = "jobs.next", !.due = due]
  BY DEF Working, Become
<1> QED
  BY <1>1 DEF Working, Become, OrderlyStep, OrderlyWith, Idle, NoJob

\* Moving on with the same user and job is orderly, unless it sets a pending
\* status or deletes a job.
LEMMA StayOrderly ==
    ASSUME NEW t \in Threads, Working(t), NEW r \in Thread, Become(t, r),
           r.op = th[t].op, r.user = th[t].user, r.job = th[t].job,
           r.pc = "queue.status" => th[t].op \in Removals,
           r.pc = "jobs.delete" /\ th[t].job.action \in Removals =>
               \A action \in Removals : status'[th[t].user] # PendingFor(action)
    PROVE  OrderlyStep(t)
<1>1. th'[t] = r /\ \A v \in Threads \ {t} : th'[v] = th[v]
  BY DEF Working, Become
<1> QED
  BY <1>1 DEF Working, OrderlyStep, OrderlyWith

\* The moves of the model keep user and job.
LEMMA MoveOrderly ==
    ASSUME NEW t \in Threads, Working(t), StoresOK, NEW label \in Labels,
           Goto(t, label) \/ ReadList(t, label) \/ Forget(t, label)
               \/ \E k \in Keys \cup {NoKey} : Take(t, label, k),
           label = "queue.status" => th[t].op \in Removals,
           label = "jobs.delete" /\ th[t].job.action \in Removals =>
               \A action \in Removals : status'[th[t].user] # PendingFor(action)
    PROVE  OrderlyStep(t)
<1>0. th[t] \in Thread
  BY DEF Working
<1>1. CASE Goto(t, label)
  BY <1>0, <1>1, StayOrderly DEF Goto, Thread
<1>2. CASE ReadList(t, label)
  BY <1>0, <1>2, StayOrderly DEF ReadList, Thread, StoresOK
<1>3. CASE Forget(t, label)
  BY <1>0, <1>3, StayOrderly DEF Forget, Thread
<1>4. ASSUME NEW k \in Keys \cup {NoKey}, Take(t, label, k)
      PROVE  OrderlyStep(t)
  BY <1>0, <1>4, StayOrderly DEF Take, Thread
<1> QED
  BY <1>1, <1>2, <1>3, <1>4

\* The three ways Keys.Revoke returns are orderly.
LEMMA RevokeReturnsOrderly ==
    ASSUME NEW t \in Threads, Working(t), StoresOK, NEW done, RevokeReturns(t, done)
    PROVE  OrderlyStep(t)
<1>1. {"settle", "queue.active"} \subseteq Labels
  BY DEF Labels
<1> QED
  BY <1>1, FinishOrderly, MoveOrderly, NextJobOrderly DEF RevokeReturns, NextJob

\* So are those of cpamp.RemoveAPIKey.
LEMMA RemoveReturnsOrderly ==
    ASSUME NEW t \in Threads, Working(t), StoresOK, NEW done, RemoveReturns(t, done)
    PROVE  OrderlyStep(t)
<1>1. {"undo.alias", "revoke.alias"} \subseteq Labels
  BY DEF Labels
<1> QED
  BY <1>1, FinishOrderly, MoveOrderly, RevokeReturnsOrderly DEF RemoveReturns

\* Every step of a running goroutine is orderly: a job leaves the queue only when
\* its account is settled.
LEMMA ContinueOrderly ==
    ASSUME IInv, NEW t \in Threads, Working(t), Continue(t)
    PROVE  OrderlyStep(t)
<1>0. /\ th[t] \in Thread /\ Fits(th[t]) /\ StoresOK
      /\ status \in [Users -> Statuses]
  BY AtHand DEF Working, IInv, TypeOK
<1>l. {"add.list", "add.put", "add.confirm", "alias.list", "alias.keys", "alias.put", "swap",
       "rm.list", "rm.put", "rm.confirm", "revoke.list", "missing.status", "missing.alias",
       "revoke.status", "queue.status", "queue.job", "jobs.delete", "reconcile.rows",
       "reconcile.next"} \subseteq Labels
  BY DEF Labels
<1>1. CASE IssueActive(t)
  BY <1>0, <1>1, <1>l, FinishOrderly, MoveOrderly DEF IssueActive, Fresh
<1>2. CASE AddList(t) \/ AddPut(t) \/ AddConfirm(t) \/ AliasKeys(t) \/ AliasPut(t) \/ UndoAlias(t)
  BY <1>0, <1>2, <1>l, FinishOrderly, MoveOrderly
     DEF AddList, AddPut, AddConfirm, AliasKeys, AliasPut, UndoAlias
<1>3. CASE AliasList(t)
  <2>1. ASSUME Become(t, [th[t] EXCEPT !.pc = "alias.keys", !.names = alias])
        PROVE  OrderlyStep(t)
    BY <1>0, <1>l, <2>1, StayOrderly DEF Thread, StoresOK
  <2> QED
    BY <1>0, <1>3, <1>l, <2>1, MoveOrderly DEF AliasList
<1>4. CASE Swap(t)
  <2>1. ASSUME Become(t, [th[t] EXCEPT !.pc = "rm.list", !.undo = TRUE])
        PROVE  OrderlyStep(t)
    BY <1>0, <1>l, <2>1, StayOrderly DEF Thread
  <2> QED
    BY <1>4, <2>1, FinishOrderly DEF Swap
<1>5. CASE RemoveList(t) \/ RemovePut(t) \/ RemoveConfirm(t)
  BY <1>0, <1>5, <1>l, MoveOrderly, RemoveReturnsOrderly DEF RemoveList, RemovePut, RemoveConfirm
<1>6. CASE RevokeActive(t) \/ RevokeList(t)
  BY <1>0, <1>6, <1>l, FinishOrderly, MoveOrderly, RevokeReturnsOrderly
     DEF RevokeActive, RevokeList, ActiveKeysOf
<1>7. CASE MissingStatus(t) \/ MissingAlias(t)
  BY <1>0, <1>7, <1>l, FinishOrderly, MoveOrderly, RevokeReturnsOrderly
     DEF MissingStatus, MissingAlias
<1>8. CASE RevokeAlias(t) \/ RevokeStatus(t)
  BY <1>0, <1>8, <1>l, MoveOrderly, RevokeReturnsOrderly DEF RevokeAlias, RevokeStatus
<1>9. CASE QueueActive(t)
  <2>1. th[t].op \in {"revoke"} \cup Removals
    BY <1>0, <1>9 DEF QueueActive, At, Fits, Revokers, Removals
  <2>2. ASSUME NEW k \in Keys, Take(t, "queue.job", k)
        PROVE  OrderlyStep(t)
    BY <1>0, <1>l, <2>2, MoveOrderly
  <2>3. ASSUME NEW k \in Keys \cup {NoKey}, Take(t, "queue.status", k), th[t].op # "revoke"
        PROVE  OrderlyStep(t)
    BY <1>0, <1>l, <2>1, <2>3, MoveOrderly
  <2> QED
    BY <1>9, <2>2, <2>3, FinishOrderly DEF QueueActive, ActiveKeysOf
<1>10. CASE QueueStatus(t) \/ QueueJob(t)
  BY <1>0, <1>10, <1>l, FinishOrderly, MoveOrderly DEF QueueStatus, QueueJob
<1>11. CASE Settle(t)
  <2>1. CASE th[t].op = "jobs"
    <3>1. th[t].user \in Users
      BY <1>0, <1>11, <2>1 DEF Settle, At, Fits
    <3>2. th[t].job.action \in Removals =>
              \A action \in Removals : status'[th[t].user] # PendingFor(action)
      BY <1>0, <1>11, <2>1, <3>1 DEF Settle, Settled, Removals, PendingFor
    <3> QED
      BY <1>0, <1>11, <1>l, <2>1, <3>2, MoveOrderly DEF Settle
  <2> QED
    BY <1>11, <2>1, FinishOrderly DEF Settle
<1>12. CASE JobsNext(t)
  <2>1. ASSUME NEW job \in th[t].due,
               Become(t, [th[t] EXCEPT !.pc = "revoke.active", !.user = job.user,
                                       !.job = job, !.due = @ \ {job}])
        PROVE  OrderlyStep(t)
    <3>1. /\ th'[t].pc = "revoke.active" /\ th'[t].user = job.user /\ th'[t].job = job
          /\ \A v \in Threads \ {t} : th'[v] = th[v]
      BY <1>0, <2>1 DEF Become, Thread, Working
    <3> QED
      BY <3>1 DEF OrderlyStep, OrderlyWith
  <2> QED
    BY <1>12, <2>1, FinishOrderly DEF JobsNext
<1>13. CASE JobsDelete(t)
  BY <1>13, NextJobOrderly DEF JobsDelete, NextJob
<1>14. CASE ReconcileList(t)
  BY <1>0, <1>14, <1>l, FinishOrderly, MoveOrderly DEF ReconcileList
<1>15. CASE ReconcileRows(t)
  <2>1. /\ th'[t].pc = "reconcile.next" /\ th'[t].op = "reconcile"
        /\ \A v \in Threads \ {t} : th'[v] = th[v]
    BY <1>0, <1>15 DEF ReconcileRows, At, Fits, Become, Thread, Working
  <2> QED
    BY <2>1 DEF OrderlyStep, OrderlyWith
<1>16. CASE ReconcileNext(t)
  <2>1. ASSUME NEW k, Become(t, [th[t] EXCEPT !.pc = "missing.status", !.key = k, !.gone = @ \ {k}])
        PROVE  OrderlyStep(t)
    <3>1. /\ th'[t].op = "reconcile" /\ th'[t].pc = "missing.status"
          /\ \A v \in Threads \ {t} : th'[v] = th[v]
      BY <1>0, <1>16, <2>1 DEF ReconcileNext, At, Fits, Become, Thread, Working
    <3> QED
      BY <3>1 DEF OrderlyStep, OrderlyWith
  <2> QED
    BY <1>16, <2>1, FinishOrderly DEF ReconcileNext
<1> QED
  BY <1>1, <1>2, <1>3, <1>4, <1>5, <1>6, <1>7, <1>8, <1>9, <1>10, <1>11, <1>12, <1>13, <1>14,
     <1>15, <1>16 DEF Continue

\* So are the start of an operation and its end by a crash or a disconnect.
LEMMA BeginOrderly ==
    ASSUME NEW t \in Threads, Working(t), Begin(t) \/ CutOff(t)
    PROVE  OrderlyStep(t)
<1>1. ASSUME NEW operation, NEW u, NEW label, Start(t, operation, u, label),
             label \in {"issue.active", "revoke.active", "reconcile.list"},
             operation # "jobs"
      PROVE  OrderlyStep(t)
  <2>1. th'[t] = [Idle EXCEPT !.op = operation, !.pc = label, !.user = u]
    BY <1>1 DEF Start, Become, Working
  <2> QED
    BY <1>1, <2>1 DEF Start, Become, Working, OrderlyStep, OrderlyWith, Idle
<1> QED
  BY <1>1, FinishOrderly, NextJobOrderly
     DEF Begin, CutOff, StartClaim, StartOwn, StartSuspendOrDelete, StartJobs, StartReconcile

\* A goroutine about to queue a job does just that.
LEMMA OnlyQueueJob ==
    ASSUME NEW t \in Threads, Continue(t), At(t, "queue.job")
    PROVE  QueueJob(t)
BY DEF Continue, At, IssueActive, AddList, AddPut, AddConfirm, AliasList, AliasKeys, AliasPut,
       Swap, UndoAlias, RemoveList, RemovePut, RemoveConfirm, RevokeActive, RevokeList,
       MissingStatus, MissingAlias, RevokeAlias, RevokeStatus, QueueActive, QueueStatus, Settle,
       JobsNext, JobsDelete, ReconcileList, ReconcileRows, ReconcileNext

\* Only SetUserStatus(pending) makes a status pending.
LEMMA PendingByQueue ==
    ASSUME IInv, AllOrderly, Next, NEW u \in Users, NEW action \in Removals,
           status'[u] = PendingFor(action), status'[u] # status[u]
    PROVE  \E t \in Threads : QueueStatus(t) /\ Continue(t) /\ th[t].user = u /\ th[t].op = action
<1>0. status \in [Users -> Statuses]
  BY DEF IInv, TypeOK
<1>1. PICK t \in Threads : Continue(t)
  BY <1>0 DEF Next, Begin, CutOff, OpenPage, Unsuspend, ExternalDelete, OperatorEdits, StartClaim,
              StartOwn, StartSuspendOrDelete, StartJobs, StartReconcile, db, PendingFor
<1>2. CASE QueueStatus(t)
  <2>1. th[t].op \in Removals
    BY <1>2 DEF AllOrderly, OrderlyWith, QueueStatus, At
  <2> QED
    BY <1>0, <1>1, <1>2, <2>1 DEF QueueStatus, PendingFor, Removals
<1>3. CASE Settle(t)
  BY <1>0, <1>3 DEF Settle, Settled, PendingFor
<1> QED
  BY <1>1, <1>2, <1>3, ContinueFrame

PendingInv == IInv /\ AllOrderly /\ PendingIsQueued

\* A step that neither overtakes a removal of the same user nor cuts a handler off
\* between its two statements leaves no pending account without a job.
LEMMA NextPendingInv ==
    ASSUME PendingInv, Next, RemovalsSerial, NotCutOffHalfway
    PROVE  PendingInv'
<1>0. IInv /\ IInv' /\ AllOrderly /\ PendingIsQueued
  BY NextIInv DEF PendingInv
<1>1. \A v \in Threads : Working(v)
  BY <1>0, AtHand DEF Working, Known, AllOrderly
<1>2. ASSUME NEW t \in Threads, Begin(t) \/ Continue(t) \/ CutOff(t)
      PROVE  OrderlyStep(t)
  BY <1>0, <1>1, <1>2, BeginOrderly, ContinueOrderly
<1>3. ASSUME ~(\E v \in Threads : Begin(v) \/ Continue(v) \/ CutOff(v))
      PROVE  th' = th
  BY <1>3 DEF Next, OpenPage, Unsuspend, ExternalDelete, OperatorEdits
<1>4. AllOrderly'
  <2> SUFFICES ASSUME NEW v \in Threads PROVE OrderlyWith(th'[v], status')
    BY DEF AllOrderly
  <2>1. CASE OrderlyStep(v)
    BY <2>1 DEF OrderlyStep
  <2>2. CASE th'[v] = th[v]
    <3>1. OrderlyWith(th[v], status)
      BY <1>0 DEF AllOrderly
    <3>2. ASSUME th[v].pc = "jobs.delete", th[v].job.action \in Removals,
                 NEW action \in Removals, status'[th[v].user] = PendingFor(action)
          PROVE  FALSE
      <4>1. th[v].op = "jobs" /\ th[v].user \in Users /\ Removes(th[v])
        BY <1>1, <3>2 DEF Working, Fits, Removes, Removals
      <4>2. status'[th[v].user] # status[th[v].user]
        BY <3>1, <3>2 DEF OrderlyWith
      <4>3. PICK t \in Threads : QueueStatus(t) /\ th[t].user = th[v].user /\ th[t].op = action
        BY <1>0, <3>2, <4>1, <4>2, PendingByQueue
      <4>4. Removes(th[t]) /\ t # v
        BY <3>2, <4>3 DEF Removes, Removals, QueueStatus, At
      <4> QED
        BY <4>1, <4>3, <4>4 DEF RemovalsSerial
    <3> QED
      BY <2>2, <3>1, <3>2 DEF OrderlyWith
  <2>3. \/ OrderlyStep(v)
        \/ th'[v] = th[v]
    BY <1>2, <1>3 DEF OrderlyStep
  <2> QED
    BY <2>1, <2>2, <2>3
<1>5. PendingIsQueued'
  <2> SUFFICES ASSUME NEW u \in Users, NEW action \in Removals, status'[u] = PendingFor(action)
               PROVE  Queued(u, action)'
    BY DEF PendingIsQueued
  <2>1. CASE status'[u] # status[u]
    <3>1. PICK t \in Threads : /\ QueueStatus(t) /\ th[t].user = u /\ th[t].op = action
                               /\ Continue(t)
      BY <1>0, <2>1, PendingByQueue
    <3>2. th'[t].pc = "queue.job" /\ th'[t].user = u /\ th'[t].op = action
      BY <1>1, <3>1 DEF QueueStatus, Goto, Become, Working, Thread
    <3> QED
      BY <3>2 DEF Queued, At
  <2>2. ASSUME NEW job \in jobs, job.user = u, job.action = action, status'[u] = status[u],
               job \notin jobs'
        PROVE  FALSE
    <3>1. PICK t \in Threads : JobsDelete(t) /\ job = th[t].job
      <4>1. PICK t \in Threads : Continue(t)
        BY <2>2 DEF Next, Begin, CutOff, OpenPage, Unsuspend, ExternalDelete, OperatorEdits,
                    StartClaim,
                    StartOwn, StartSuspendOrDelete, StartJobs, StartReconcile, db
      <4> QED
        BY <2>2, <4>1, ContinueFrame DEF QueueJob, JobsDelete
    <3>2. th[t].op = "jobs" /\ th[t].pc = "jobs.delete"
      BY <1>1, <3>1 DEF JobsDelete, At, Working, Fits
    <3> QED
      BY <1>0, <2>2, <3>1, <3>2 DEF AllOrderly, OrderlyWith
  <2>3. ASSUME NEW t \in Threads, At(t, "queue.job"), th[t].user = u, th[t].op = action
        PROVE  Queued(u, action)'
    <3>1. CASE th'[t] = th[t]
      BY <2>3, <3>1 DEF Queued, At
    <3>2. CASE Continue(t)
      <4>1. QueueJob(t)
        BY <2>3, <3>2, OnlyQueueJob
      <4> DEFINE job == [user |-> u, action |-> action, key |-> th[t].key]
      <4>2. job \in jobs' /\ job.user = u /\ job.action = action
        BY <2>3, <4>1 DEF QueueJob
      <4> QED
        BY <4>2 DEF Queued
    <3>3. ~Begin(t)
      BY <2>3 DEF Begin, At, StartClaim, StartOwn, StartSuspendOrDelete, StartJobs,
                  StartReconcile, Start
    <3>4. ~CutOff(t)
      BY <2>3 DEF NotCutOffHalfway
    <3> QED
      BY <1>2, <1>3, <3>1, <3>2, <3>3, <3>4 DEF OrderlyStep
  <2>4. CASE status'[u] = status[u]
    <3>1. Queued(u, action)
      BY <1>0, <2>4 DEF PendingIsQueued
    <3> QED
      BY <2>2, <2>3, <2>4, <3>1 DEF Queued
  <2> QED
    BY <2>1, <2>4
<1> QED
  BY <1>0, <1>4, <1>5 DEF PendingInv

\* If no handler is cut off between SetUserStatus and EnqueueJob and no request
\* repeats a removal whose job is at work, a pending account always has its job in
\* the queue, so that the removal is not forgotten.
THEOREM PendingAccountsAreQueued ==
    Spec /\ []RemovalsSerial /\ [][NotCutOffHalfway]_vars => []PendingIsQueued
<1>1. Init => PendingInv
  <2> SUFFICES ASSUME Init PROVE AllOrderly /\ PendingIsQueued
    BY InitIInv DEF PendingInv
  <2>1. OrderlyWith(Idle, status)
    BY DEF OrderlyWith, Idle
  <2> QED
    BY <2>1 DEF Init, AllOrderly, PendingIsQueued, PendingFor
<1>2. PendingInv /\ [Next]_vars /\ RemovalsSerial /\ [NotCutOffHalfway]_vars => PendingInv'
  <2> SUFFICES ASSUME PendingInv, UNCHANGED vars
               PROVE  PendingInv'
    BY NextPendingInv
  <2>1. IInv'
    BY NextIInv DEF PendingInv
  <2>2. AllOrderly'
    BY DEF PendingInv, vars, AllOrderly
  <2>3. PendingIsQueued'
    BY DEF PendingInv, vars, PendingIsQueued, Queued, At
  <2> QED
    BY <2>1, <2>2, <2>3 DEF PendingInv
<1>3. PendingInv => PendingIsQueued
  BY DEF PendingInv
<1> QED
  BY <1>1, <1>2, <1>3, PTL DEF Spec

=============================================================================
