-------------------- MODULE TransferQueueOwnership_proofs --------------------
(***************************************************************************)
(* More proofs about TransferQueue: what is shown is earned, the two ways  *)
(* to transfer exclude each other, a start is quiet; and, where the store  *)
(* does not fail, every transfer belongs to one job that is shown as       *)
(* active and that its stop requests reach.                                *)
(***************************************************************************)
EXTENDS TransferQueue_proofs

USE QueueAssumption

(***************************************************************************)
(* What each group of actions does to the transfers that hold a slot.      *)
(***************************************************************************)
LEMMA TransfersShrink ==
  ASSUME Shape, NEW r \in Runs, TransferReturns(r) \/ RunAdvances(r)
  PROVE  LiveRuns' \subseteq LiveRuns /\ UNCHANGED <<up, active, closed>>
<1>1. ASSUME NEW outcome \in Outcomes, FinishRun(r, outcome)
      PROVE  LiveRuns' \subseteq LiveRuns /\ UNCHANGED <<up, active, closed>>
  BY <1>1 DEF Shape, TypeOK, LiveRuns, FinishRun
<1>2. CASE FinishForgotten(r) \/ AbandonRun(r) \/ RunRecorded(r)
  BY <1>2 DEF Shape, TypeOK, LiveRuns, FinishForgotten, AbandonRun, RunRecorded, IdleRun
<1>3. CASE RunSaved(r) \/ BeginRun(r)
  BY <1>3, RunAdvancesShape DEF RunSaved, BeginRun
<1> QED
  BY <1>1, <1>2, <1>3 DEF TransferReturns, RunAdvances

LEMMA CallsKeep ==
  ASSUME NEW c \in Callers, User(c) \/ StoreAnswers(c)
  PROVE  UNCHANGED <<up, run, runningJobs, wakeLock, active, closed, completed>>
  BY DEF User, StoreAnswers, Enqueue, Retry, CancelWaiting, PauseWaiting, Withdraw,
         Remove, ClearFinished, ClearNext, EnqueueSaved, EnqueueSaveFailed, RetrySaved,
         RetrySaveFailed, SettleSaved, Deleted

-----------------------------------------------------------------------------
(***************************************************************************)
(* The legacy transfer.                                                    *)
(***************************************************************************)
LEMMA LegacyStep ==
  IInv /\ LegacyExcludesQueue /\ [Next]_vars => LegacyExcludesQueue'
<1> SUFFICES ASSUME IInv, LegacyExcludesQueue, [Next]_vars PROVE LegacyExcludesQueue'
  OBVIOUS
<1>0. Shape
  BY DEF IInv
<1>1. ASSUME LiveRuns' \subseteq LiveRuns, UNCHANGED active PROVE LegacyExcludesQueue'
  BY <1>1 DEF LegacyExcludesQueue
<1>2. ASSUME NEW c \in Callers, User(c) \/ StoreAnswers(c) PROVE LegacyExcludesQueue'
  BY <1>1, <1>2, CallsKeep, UnchangedRuns
<1>3. ASSUME NEW j \in Jobs, CancelRunning(j) \/ PauseRunning(j) PROVE LegacyExcludesQueue'
  BY <1>0, <1>1, <1>3, StopShape DEF CancelRunning, PauseRunning, StopRunning
<1>4. ASSUME NEW r \in Runs, TransferReturns(r) \/ RunAdvances(r) PROVE LegacyExcludesQueue'
  BY <1>0, <1>1, <1>4, TransfersShrink
<1>5. ASSUME NEW r \in Runs, NEW j \in Jobs, Dispatch(r, j) PROVE LegacyExcludesQueue'
  BY <1>5 DEF Dispatch, MayDispatch, LegacyExcludesQueue
<1>6. CASE DispatcherReturns \/ Restart \/ UNCHANGED vars
  BY <1>1, <1>6, UnchangedRuns DEF DispatcherReturns, Restart, vars
<1>7. CASE BeginLegacy
  <2>1. Cardinality(LiveRuns) = 0
    BY <1>7 DEF IInv, SlotAccounting, BeginLegacy
  <2>2. LiveRuns = {}
    BY <2>1, LiveRunsFinite, FS_EmptySet
  <2> QED
    BY <1>7, <2>2, UnchangedRuns DEF BeginLegacy, LegacyExcludesQueue
<1>8. CASE EndLegacy \/ Exit \/ Crash
  BY <1>8 DEF EndLegacy, Exit, Crash, Down, LegacyExcludesQueue
<1>9. CASE Close
  BY <1>0, <1>1, <1>9, CloseShape DEF Close
<1> QED
  BY <1>2, <1>3, <1>4, <1>5, <1>6, <1>7, <1>8, <1>9 DEF Next, Dispatcher

\* beginTransfer and dispatchJobs each test the other's field in a critical section of
\* their own: the legacy transfer never runs beside one of the queue.
THEOREM LegacyExcluded == Spec => []LegacyExcludesQueue
<1>1. Init => LegacyExcludesQueue
  BY DEF Init, LegacyExcludesQueue
<1> QED
  BY <1>1, Inductive, LegacyStep, PTL DEF Spec

-----------------------------------------------------------------------------
(***************************************************************************)
(* Verified.  No place a status travels through says it for a job none of  *)
(* whose transfers succeeded.                                              *)
(***************************************************************************)
\* A step shows a job as verified only where something says so before it, or in
\* an entry that the status does not come from.
LEMMA EarnedByCalls ==
  ASSUME Shape, VerifiedIsEarned, UNCHANGED <<run, completed>>, NEW c \in Callers,
         \A j \in Jobs : j \notin completed => job'[j].status # "verified",
         \A j \in Jobs : j \notin completed => disk'[j] # "verified",
         \A d \in Callers : d # c => call'[d] = call[d],
         call'[c].job \in Jobs \ completed =>
           "verified" \notin {call'[c].saved, call'[c].previous}
  PROVE  VerifiedIsEarned'
<1> SUFFICES ASSUME NEW j \in Jobs, j \notin completed, NEW d \in Callers, call'[d].job = j
             PROVE  "verified" \notin {call'[d].saved, call'[d].previous}
  BY DEF VerifiedIsEarned
<1> QED
  BY DEF VerifiedIsEarned

LEMMA VerifiedCalls ==
  ASSUME Shape, VerifiedIsEarned, NEW c \in Callers, User(c) \/ StoreAnswers(c)
  PROVE  VerifiedIsEarned'
<1>0. UNCHANGED <<run, completed>>
  BY CallsKeep
<1>1. /\ \A j \in Jobs : j \notin completed => job[j].status # "verified"
      /\ \A j \in Jobs : j \notin completed => disk[j] # "verified"
      /\ \A j \in Jobs, d \in Callers : j \notin completed /\ call[d].job = j =>
           "verified" \notin {call[d].saved, call[d].previous}
      /\ job \in [Jobs -> JobEntry] /\ call \in [Callers -> CallEntry]
      /\ disk \in [Jobs -> StatusOrAbsent]
  BY DEF Shape, TypeOK, VerifiedIsEarned
<1>2. ASSUME NEW j \in Jobs, NEW entry, NEW op, NEW saved, NEW previous, UNCHANGED disk,
             job' = [job EXCEPT ![j] = entry], entry.status # "verified",
             Await(c, op, j, saved, previous), saved # "verified", previous # "verified"
      PROVE  VerifiedIsEarned'
  BY <1>0, <1>1, <1>2, EarnedByCalls DEF Await
<1>3. ASSUME NEW j \in Jobs, NEW password \in BOOLEAN, Enqueue(c, j, password)
      PROVE  VerifiedIsEarned'
  <2>1. [NoEntry EXCEPT !.status = "queued", !.password = password].status # "verified"
    BY DEF NoEntry
  <2> QED
    BY <1>2, <1>3, <2>1 DEF Enqueue
<1>4. ASSUME NEW j \in Jobs, NEW password \in BOOLEAN, Retry(c, j, password)
      PROVE  VerifiedIsEarned'
  <2>1. Requeued(job[j], password).status # "verified"
    BY <1>1 DEF Requeued, JobEntry
  <2>2. job[j].status # "verified"
    BY <1>4 DEF Retry, Retryable
  <2> QED
    BY <1>2, <1>4, <2>1, <2>2 DEF Retry
<1>5. ASSUME NEW j \in Jobs, CancelWaiting(c, j) \/ PauseWaiting(c, j)
      PROVE  VerifiedIsEarned'
  <2>1. PICK to \in {"canceled", "paused"} :
          /\ job' = [job EXCEPT ![j] = Withdrawn(job[j], to)] /\ UNCHANGED disk
          /\ Await(c, "settle", j, to, "absent")
    BY <1>5 DEF CancelWaiting, PauseWaiting, Withdraw
  <2>2. Withdrawn(job[j], to).status # "verified"
    BY <1>1, WithdrawnFields
  <2> QED
    BY <1>2, <2>1, <2>2
<1>6. ASSUME NEW j \in Jobs, NEW todo, Forget(c, j, todo), UNCHANGED disk
      PROVE  VerifiedIsEarned'
  <2>1. \A k \in Jobs : k \notin completed => job'[k].status # "verified"
    BY <1>1, <1>6 DEF Forget, NoEntry
  <2>2. /\ \A d \in Callers : d # c => call'[d] = call[d]
        /\ call'[c].saved = "absent" /\ call'[c].previous = "absent"
    BY <1>1, <1>6 DEF Forget, IdleCall
  <2> QED
    BY <1>0, <1>1, <1>6, <2>1, <2>2, EarnedByCalls
<1>7. ASSUME \A d \in Callers : d # c => call'[d] = call[d],
             \/ call'[c].saved = "absent" /\ call'[c].previous = "absent"
             \/ call'[c] = [call[c] EXCEPT !.todo = call'[c].todo],
             \A k \in Jobs : job'[k].status # "verified" \/ job'[k].status = job[k].status,
             \A k \in Jobs : \/ disk'[k] \in {"absent", "queued"} \/ disk'[k] = disk[k]
                             \/ k = call[c].job /\ disk'[k] = call[c].saved
      PROVE  VerifiedIsEarned'
  <2>1. /\ \A k \in Jobs : k \notin completed => job'[k].status # "verified"
        /\ \A k \in Jobs : k \notin completed => disk'[k] # "verified"
    BY <1>1, <1>7
  <2>2. call'[c].job \in Jobs \ completed =>
          "verified" \notin {call'[c].saved, call'[c].previous}
    <3>1. CASE call'[c] = [call[c] EXCEPT !.todo = call'[c].todo]
      <4>1. /\ call'[c].job = call[c].job /\ call'[c].saved = call[c].saved
            /\ call'[c].previous = call[c].previous
        BY <1>1, <3>1 DEF CallEntry
      <4> QED
        BY <1>1, <4>1
    <3> QED
      BY <1>7, <3>1
  <2> QED
    BY <1>0, <1>7, <2>1, <2>2, EarnedByCalls
<1>8. Return(c) => /\ \A d \in Callers : d # c => call'[d] = call[d]
                   /\ call'[c].saved = "absent" /\ call'[c].previous = "absent"
  BY <1>1 DEF Return, IdleCall
<1>9. CASE ClearFinished(c)
  <2>1. /\ \A d \in Callers : d # c => call'[d] = call[d]
        /\ call'[c].saved = "absent" /\ call'[c].previous = "absent"
    BY <1>1, <1>9 DEF ClearFinished, IdleCall
  <2> QED
    BY <1>7, <1>9, <2>1 DEF ClearFinished
<1>10. ASSUME NEW j \in Jobs, ClearNext(c, j) PROVE VerifiedIsEarned'
  <2>1. CASE Forget(c, j, call[c].todo \ {j})
    BY <1>6, <1>10, <2>1 DEF ClearNext
  <2>2. CASE UNCHANGED job /\ Return(c)
    BY <1>7, <1>8, <1>10, <2>2 DEF ClearNext
  <2>3. CASE UNCHANGED job /\ call' = [call EXCEPT ![c] = [@ EXCEPT !.todo = call[c].todo \ {j}]]
    <3>1. /\ \A d \in Callers : d # c => call'[d] = call[d]
          /\ call'[c] = [call[c] EXCEPT !.todo = call'[c].todo]
      BY <1>1, <2>3 DEF CallEntry
    <3> QED
      BY <1>7, <1>10, <2>3, <3>1 DEF ClearNext
  <2> QED
    BY <1>10, <2>1, <2>2, <2>3 DEF ClearNext, Return
<1>11. CASE EnqueueSaved(c) \/ RetrySaved(c) \/ SettleSaved(c)
  <2>1. /\ UNCHANGED job /\ Return(c)
        /\ \A k \in Jobs : \/ disk'[k] \in {"absent", "queued"} \/ disk'[k] = disk[k]
                           \/ k = call[c].job /\ disk'[k] = call[c].saved
    BY <1>1, <1>11 DEF EnqueueSaved, RetrySaved, SettleSaved, Save
  <2> QED
    BY <1>7, <1>8, <2>1
<1>12. CASE EnqueueSaveFailed(c)
  <2>1. \A k \in Jobs : job'[k].status # "verified" \/ job'[k].status = job[k].status
    BY <1>1, <1>12 DEF EnqueueSaveFailed, NoEntry
  <2> QED
    BY <1>7, <1>8, <1>12, <2>1 DEF EnqueueSaveFailed
<1>13. CASE RetrySaveFailed(c)
  <2> DEFINE j == call[c].job
  <2>1. j \in Jobs /\ call[c].previous \in Retryable /\ job[j] \in JobEntry
    BY <1>1, <1>13 DEF Shape, CallsNameJobs, RetrySaveFailed
  <2>2. Withdrawn(job[j], call[c].previous).status # "verified"
    BY <2>1, WithdrawnFields DEF Retryable
  <2>3. \A k \in Jobs : job'[k].status # "verified" \/ job'[k].status = job[k].status
    BY <1>1, <1>13, <2>1, <2>2 DEF RetrySaveFailed
  <2> QED
    BY <1>7, <1>8, <1>13, <2>3 DEF RetrySaveFailed
<1>14. CASE Deleted(c)
  <2>1. /\ \A d \in Callers : d # c => call'[d] = call[d]
        /\ call'[c].saved = "absent" /\ call'[c].previous = "absent"
    <3>1. CASE Return(c)
      BY <1>8, <3>1
    <3>2. ASSUME NEW op, call' = [call EXCEPT ![c] =
                   [IdleCall EXCEPT !.op = op, !.todo = call[c].todo]]
          PROVE  /\ \A d \in Callers : d # c => call'[d] = call[d]
                 /\ call'[c].saved = "absent" /\ call'[c].previous = "absent"
      BY <1>1, <3>2 DEF IdleCall
    <3> QED
      BY <1>14, <3>1, <3>2 DEF Deleted
  <2>2. \A k \in Jobs : disk'[k] \in {"absent", "queued"} \/ disk'[k] = disk[k]
    BY <1>1, <1>14 DEF Deleted
  <2> QED
    BY <1>7, <1>14, <2>1, <2>2 DEF Deleted
<1>15. ASSUME NEW j \in Jobs, Remove(c, j) PROVE VerifiedIsEarned'
  BY <1>6, <1>15 DEF Remove
<1> QED
  BY <1>3, <1>4, <1>5, <1>9, <1>10, <1>11, <1>12, <1>13, <1>14, <1>15
  DEF User, StoreAnswers

\* How a transfer is shown that has ended.
LEMMA FinalStatusCases ==
  ASSUME NEW entry \in JobEntry, NEW outcome \in Outcomes
  PROVE  /\ FinalStatus(entry, outcome) = "verified" <=> outcome = "ok"
         /\ entry.pauseRequested => FinalStatus(entry, outcome) \in {"verified", "paused"}
         /\ ~entry.pauseRequested /\ entry.cancelRequested =>
              FinalStatus(entry, outcome) \in {"verified", "canceled"}
         /\ FinalStatus(entry, outcome) \in {"verified", "paused", "canceled",
                                            "interrupted", "failed"}
<1>1. outcome \in {"ok", "interrupted", "failed"}
  OBVIOUS
<1>2. entry.pauseRequested \in BOOLEAN /\ entry.cancelRequested \in BOOLEAN
  BY DEF JobEntry
<1>3. CASE outcome = "ok"
  BY <1>3 DEF FinalStatus
<1>4. CASE outcome # "ok" /\ entry.pauseRequested
  BY <1>4 DEF FinalStatus
<1>5. CASE outcome # "ok" /\ ~entry.pauseRequested /\ entry.cancelRequested
  BY <1>5 DEF FinalStatus
<1>6. CASE outcome # "ok" /\ ~entry.pauseRequested /\ ~entry.cancelRequested
  BY <1>1, <1>6 DEF FinalStatus
<1> QED
  BY <1>1, <1>2, <1>3, <1>4, <1>5, <1>6

LEMMA VerifiedTransfers ==
  ASSUME Shape, VerifiedIsEarned, NEW r \in Runs, TransferReturns(r) \/ RunAdvances(r)
  PROVE  VerifiedIsEarned'
<1>1. /\ \A j \in Jobs : j \notin completed => job[j].status # "verified"
      /\ \A j \in Jobs : j \notin completed => disk[j] # "verified"
      /\ \A j \in Jobs, s \in Runs : j \notin completed /\ run[s].job = j =>
           run[s].saved # "verified"
      /\ job \in [Jobs -> JobEntry] /\ run \in [Runs -> RunEntry]
      /\ disk \in [Jobs -> StatusOrAbsent]
  BY DEF Shape, TypeOK, VerifiedIsEarned
<1>2. ASSUME NEW outcome \in Outcomes, FinishRun(r, outcome) PROVE VerifiedIsEarned'
  <2> DEFINE j == run[r].job
             final == FinalStatus(job[j], outcome)
  <2>1. j \in Jobs /\ job[j] \in JobEntry
    BY <1>1, <1>2 DEF Shape, RunsNameJobs, FinishRun
  <2>2. final = "verified" => outcome = "ok"
    BY <2>1, FinalStatusCases
  <2>3. /\ \A k \in Jobs : job'[k].status = IF k = j THEN final ELSE job[k].status
        /\ \A s \in Runs : s # r => run'[s] = run[s]
        /\ run'[r].job = j /\ run'[r].saved = final
        /\ completed' = IF outcome = "ok" THEN completed \cup {j} ELSE completed
    BY <1>1, <1>2, <2>1 DEF FinishRun, Finished, JobEntry
  <2>4. UNCHANGED <<disk, call>>
    BY <1>2 DEF FinishRun
  <2> SUFFICES ASSUME NEW k \in Jobs, k \notin completed'
               PROVE  /\ job'[k].status # "verified" /\ disk'[k] # "verified"
                      /\ \A s \in Runs : run'[s].job = k => run'[s].saved # "verified"
                      /\ \A c \in Callers : call'[c].job = k =>
                           "verified" \notin {call'[c].saved, call'[c].previous}
    BY DEF VerifiedIsEarned
  <2>5. k \notin completed /\ (k = j => final # "verified")
    BY <2>2, <2>3
  <2>6. job'[k].status # "verified" /\ disk'[k] # "verified"
    BY <1>1, <2>3, <2>4, <2>5
  <2>7. ASSUME NEW s \in Runs, run'[s].job = k PROVE run'[s].saved # "verified"
    BY <1>1, <2>3, <2>5, <2>7
  <2> QED
    BY <2>4, <2>5, <2>6, <2>7 DEF VerifiedIsEarned
<1>3. ASSUME UNCHANGED <<job, call, completed>>,
             \A s \in Runs : \/ run'[s].job = run[s].job /\ run'[s].saved = run[s].saved
                             \/ run'[s] = IdleRun,
             \A k \in Jobs : disk'[k] = disk[k] \/ (k = run[r].job /\ disk'[k] = run[r].saved)
      PROVE  VerifiedIsEarned'
  <2> SUFFICES ASSUME NEW k \in Jobs, k \notin completed
               PROVE  /\ disk'[k] # "verified"
                      /\ \A s \in Runs : run'[s].job = k => run'[s].saved # "verified"
    BY <1>3 DEF VerifiedIsEarned
  <2> QED
    BY <1>1, <1>3 DEF IdleRun
<1>4. CASE FinishForgotten(r) \/ AbandonRun(r)
  BY <1>1, <1>3, <1>4 DEF FinishForgotten, AbandonRun
<1>5. CASE RunSaved(r) \/ BeginRun(r) \/ RunRecorded(r)
  <2>1. \A s \in Runs : \/ run'[s].job = run[s].job /\ run'[s].saved = run[s].saved
                        \/ run'[s] = IdleRun
    BY <1>1, <1>5 DEF RunSaved, BeginRun, RunRecorded, RunEntry
  <2>2. \A k \in Jobs : disk'[k] = disk[k] \/ (k = run[r].job /\ disk'[k] = run[r].saved)
    BY <1>1, <1>5 DEF RunSaved, BeginRun, RunRecorded, Save
  <2> QED
    BY <1>3, <1>5, <2>1, <2>2 DEF RunSaved, BeginRun, RunRecorded
<1> QED
  BY <1>2, <1>4, <1>5 DEF TransferReturns, RunAdvances

LEMMA VerifiedOthers ==
  ASSUME Shape, VerifiedIsEarned,
         \/ \E j \in Jobs : CancelRunning(j) \/ PauseRunning(j)
         \/ \E r \in Runs, j \in Jobs : Dispatch(r, j)
         \/ Close \/ Exit \/ Crash \/ Restart
  PROVE  VerifiedIsEarned'
<1>1. /\ \A j \in Jobs : j \notin completed => job[j].status # "verified"
      /\ \A j \in Jobs : j \notin completed => disk[j] # "verified"
      /\ \A j \in Jobs, s \in Runs : j \notin completed /\ run[s].job = j =>
           run[s].saved # "verified"
      /\ job \in [Jobs -> JobEntry] /\ run \in [Runs -> RunEntry]
  BY DEF Shape, TypeOK, VerifiedIsEarned
<1>2. ASSUME \A k \in Jobs : job'[k].status # "verified" \/ job'[k].status = job[k].status
                             \/ job'[k].status = disk[k],
             \A k \in Jobs : disk'[k] # "verified" \/ disk'[k] = disk[k],
             \A s \in Runs : run'[s].saved # "verified"
                             \/ (run'[s].job = run[s].job /\ run'[s].saved = run[s].saved),
             UNCHANGED completed,
             \A c \in Callers : call'[c] = call[c] \/ call'[c] = IdleCall
      PROVE  VerifiedIsEarned'
  <2> SUFFICES ASSUME NEW k \in Jobs, k \notin completed
               PROVE  /\ job'[k].status # "verified" /\ disk'[k] # "verified"
                      /\ \A s \in Runs : run'[s].job = k => run'[s].saved # "verified"
                      /\ \A c \in Callers : call'[c].job = k =>
                           "verified" \notin {call'[c].saved, call'[c].previous}
    BY <1>2 DEF VerifiedIsEarned
  <2>1. job'[k].status # "verified" /\ disk'[k] # "verified"
    BY <1>1, <1>2
  <2>2. ASSUME NEW s \in Runs, run'[s].job = k PROVE run'[s].saved # "verified"
    BY <1>1, <1>2, <2>2
  <2>3. ASSUME NEW c \in Callers, call'[c].job = k
        PROVE  "verified" \notin {call'[c].saved, call'[c].previous}
    BY <1>2, <2>3 DEF VerifiedIsEarned, IdleCall
  <2> QED
    BY <2>1, <2>2, <2>3
<1>3. ASSUME NEW j \in Jobs, CancelRunning(j) \/ PauseRunning(j) PROVE VerifiedIsEarned'
  <2>1. PICK entry \in {Cancelling(job[j]), Pausing(job[j])} :
          /\ job' = [job EXCEPT ![j] = entry] /\ CancelContext(job[j].cancel)
          /\ UNCHANGED <<disk, call, completed>>
    BY <1>3 DEF CancelRunning, PauseRunning, StopRunning
  <2>2. entry.status # "verified"
    <3>1. job[j] \in JobEntry
      BY <1>1
    <3> QED
      BY <2>1, <3>1 DEF Cancelling, Pausing, JobEntry
  <2>3. \A s \in Runs : run'[s].job = run[s].job /\ run'[s].saved = run[s].saved
    BY <1>1, <2>1 DEF CancelContext, RunEntry
  <2> QED
    BY <1>1, <1>2, <2>1, <2>2, <2>3
<1>4. ASSUME NEW r \in Runs, NEW j \in Jobs, Dispatch(r, j) PROVE VerifiedIsEarned'
  <2>1. Started(job[j], r).status # "verified"
    BY <1>1 DEF Started, JobEntry
  <2> QED
    BY <1>1, <1>2, <1>4, <2>1 DEF Dispatch
<1>5. CASE Close
  <2>1. \A k \in Jobs : job'[k].status = job[k].status
    BY <1>1, <1>5 DEF Close, JobEntry
  <2>2. \A s \in Runs : run'[s].job = run[s].job /\ run'[s].saved = run[s].saved
    BY <1>1, <1>5 DEF Close, RunEntry
  <2> QED
    BY <1>2, <1>5, <2>1, <2>2 DEF Close
<1>6. CASE Exit \/ Crash
  BY <1>2, <1>6 DEF Exit, Crash, Down, NoEntry, IdleRun
<1>7. CASE Restart
  <2>1. \A k \in Jobs : Restored(k) # "verified" \/ Restored(k) = disk[k]
    BY DEF Restored
  <2>2. \A k \in Jobs : [NoEntry EXCEPT !.status = Restored(k)].status = Restored(k)
    BY DEF NoEntry
  <2>3. /\ \A k \in Jobs : job'[k].status # "verified" \/ job'[k].status = job[k].status
                           \/ job'[k].status = disk[k]
        /\ \A k \in Jobs : disk'[k] # "verified" \/ disk'[k] = disk[k]
    BY <1>7, <2>1, <2>2 DEF Restart
  <2> QED
    BY <1>2, <1>7, <2>3 DEF Restart
<1> QED
  BY <1>3, <1>4, <1>5, <1>6, <1>7

LEMMA VerifiedStep ==
  Shape /\ VerifiedIsEarned /\ [Next]_vars => VerifiedIsEarned'
<1> SUFFICES ASSUME Shape, VerifiedIsEarned, [Next]_vars PROVE VerifiedIsEarned'
  OBVIOUS
<1>1. CASE UNCHANGED vars \/ BeginLegacy \/ EndLegacy \/ DispatcherReturns
  BY <1>1 DEF vars, BeginLegacy, EndLegacy, DispatcherReturns, VerifiedIsEarned
<1> QED
  BY <1>1, VerifiedCalls, VerifiedTransfers, VerifiedOthers DEF Next, Dispatcher

\* finishJob, the late saves and restoreJobs: no crash, rollback or restart shows a
\* job as verified none of whose transfers succeeded.
THEOREM VerifiedAlwaysEarned == Spec => []VerifiedIsEarned
<1>1. Init => VerifiedIsEarned
  BY DEF Init, VerifiedIsEarned, NoEntry, IdleRun, IdleCall
<1>2. IInv => Shape
  BY DEF IInv
<1> QED
  BY <1>1, <1>2, Inductive, VerifiedStep, PTL DEF Spec

-----------------------------------------------------------------------------
(***************************************************************************)
(* Between two processes there is nothing but the file.                    *)
(***************************************************************************)
Gone == ~up => /\ \A r \in Runs : run[r] = IdleRun
               /\ \A c \in Callers : call[c] = IdleCall
               /\ \A j \in Jobs : job[j] = NoEntry
               /\ dispatchers = 0 /\ ~active

LEMMA NothingGoesOn ==
  ASSUME Gone, ~up, [Next]_vars
  PROVE  Restart \/ UNCHANGED vars
<1>1. ASSUME NEW c \in Callers, User(c) \/ StoreAnswers(c) PROVE FALSE
  <2>1. ~Ready(c) /\ call[c].op = "idle"
    BY DEF Gone, Ready, IdleCall
  <2>2. ~User(c)
    BY <2>1 DEF User, Enqueue, Retry, CancelWaiting, PauseWaiting, Withdraw, Remove,
       ClearFinished
  <2>3. ~StoreAnswers(c)
    BY <2>1 DEF StoreAnswers, ClearNext, EnqueueSaved, EnqueueSaveFailed, RetrySaved,
       RetrySaveFailed, SettleSaved, Deleted
  <2> QED
    BY <1>1, <2>2, <2>3
<1>2. ASSUME NEW j \in Jobs, CancelRunning(j) \/ PauseRunning(j) PROVE FALSE
  BY <1>2 DEF CancelRunning, PauseRunning, StopRunning
<1>3. ASSUME NEW r \in Runs, TransferReturns(r) \/ RunAdvances(r) PROVE FALSE
  BY <1>3 DEF Gone, IdleRun, TransferReturns, RunAdvances, FinishRun, FinishForgotten,
     RunSaved, BeginRun, AbandonRun, RunRecorded
<1>4. ~Dispatcher /\ ~BeginLegacy /\ ~EndLegacy /\ ~Close /\ ~Exit /\ ~Crash
  BY DEF Gone, Dispatcher, Dispatch, DispatcherReturns, BeginLegacy, EndLegacy, Close,
     Exit, Crash
<1> QED
  BY <1>1, <1>2, <1>3, <1>4 DEF Next

LEMMA GoneStep == Gone /\ [Next]_vars => Gone'
<1> SUFFICES ASSUME Gone, [Next]_vars, ~up' PROVE Gone'
  BY DEF Gone
<1>1. CASE ~up
  BY <1>1, NothingGoesOn DEF Restart, vars, Gone
<1>2. CASE up
  <2>1. ASSUME NEW c \in Callers, User(c) \/ StoreAnswers(c) PROVE FALSE
    BY <1>2, <2>1, CallsKeep
  <2>2. ASSUME NEW j \in Jobs, CancelRunning(j) \/ PauseRunning(j) PROVE FALSE
    BY <1>2, <2>2 DEF CancelRunning, PauseRunning, StopRunning
  <2>3. ASSUME NEW r \in Runs, TransferReturns(r) \/ RunAdvances(r) PROVE FALSE
    BY <1>2, <2>3 DEF TransferReturns, RunAdvances, FinishRun, FinishForgotten, RunSaved,
       BeginRun, AbandonRun, RunRecorded
  <2>4. Exit \/ Crash
    BY <1>2, <2>1, <2>2, <2>3 DEF Next, Dispatcher, Dispatch, DispatcherReturns,
       BeginLegacy, EndLegacy, Close, Restart, vars
  <2> QED
    BY <2>4 DEF Exit, Crash, Down, Gone
<1> QED
  BY <1>1, <1>2

LEMMA GoneAlways == Spec => []Gone
<1>1. Init => Gone
  BY DEF Init, Gone
<1> QED
  BY <1>1, GoneStep, PTL DEF Spec

LEMMA RestoredIsQuiet ==
  ASSUME NEW j \in Jobs PROVE Restored(j) \notin Active \cup {"queued"}
  BY DEF Restored, Unfinished, Active

\* restoreJobs: whatever a crash left on disk, a new process neither starts work nor
\* shows work that is not running.
THEOREM RestartsAreQuiet == Spec => RestartIsQuiet
<1> DEFINE Quiet == ~up /\ up' => /\ \A j \in Jobs : job'[j].status \notin Active \cup {"queued"}
                                  /\ dispatchers' = 0
<1>1. ASSUME Gone, [Next]_vars PROVE Quiet
  <2> SUFFICES ASSUME ~up, up' PROVE Quiet
    OBVIOUS
  <2>1. Restart
    BY <1>1, NothingGoesOn DEF vars
  <2>2. dispatchers' = 0
    BY <1>1, <2>1 DEF Gone, Restart
  <2>3. CASE UNCHANGED <<job, disk>>
    BY <1>1, <2>2, <2>3 DEF Gone, NoEntry, Active
  <2>4. CASE job' = [j \in Jobs |-> [NoEntry EXCEPT !.status = Restored(j)]]
    <3>1. \A j \in Jobs : job'[j].status = Restored(j)
      BY <2>4 DEF NoEntry
    <3> QED
      BY <2>2, <3>1, RestoredIsQuiet
  <2> QED
    BY <2>1, <2>3, <2>4 DEF Restart
<1>2. Gone /\ [Next]_vars => [Quiet]_vars
  BY <1>1
<1>3. RestartIsQuiet <=> [][Quiet]_vars
  BY DEF RestartIsQuiet
<1> QED
  BY <1>2, <1>3, GoneAlways, PTL DEF Spec

-----------------------------------------------------------------------------
(***************************************************************************)
(* A job that was never created is nowhere.                                *)
(***************************************************************************)
Known ==
  \A j \in Jobs : ticket[j] = 0 =>
    /\ job[j].status = "absent" /\ disk[j] = "absent"
    /\ \A r \in Runs : run[r].phase # "idle" => run[r].job # j
    /\ \A c \in Callers : call[c].op \in {"enqueue", "retry", "settle"} => call[c].job # j

LEMMA KnownCalls ==
  ASSUME Shape, Known, NEW c \in Callers, User(c) \/ StoreAnswers(c)
  PROVE  Known'
<1>0. UNCHANGED run
  BY CallsKeep
<1>1. /\ job \in [Jobs -> JobEntry] /\ call \in [Callers -> CallEntry]
      /\ disk \in [Jobs -> StatusOrAbsent] /\ ticket \in [Jobs -> Nat]
  BY DEF Shape, TypeOK
<1>2. ASSUME NEW j \in Jobs, NEW entry, NEW op, NEW saved, NEW previous, UNCHANGED disk,
             job' = [job EXCEPT ![j] = entry], Await(c, op, j, saved, previous),
             ticket'[j] # 0, \A k \in Jobs : k # j => ticket'[k] = ticket[k]
      PROVE  Known'
  <2> SUFFICES ASSUME NEW k \in Jobs, ticket'[k] = 0
               PROVE  /\ job'[k].status = "absent" /\ disk'[k] = "absent"
                      /\ \A d \in Callers :
                           call'[d].op \in {"enqueue", "retry", "settle"} => call'[d].job # k
    BY <1>0, <1>2 DEF Known
  <2>1. k # j /\ ticket[k] = 0
    BY <1>2
  <2>2. job'[k] = job[k] /\ disk'[k] = disk[k]
    BY <1>1, <1>2, <2>1
  <2>3. call'[c].job = j /\ \A d \in Callers : d # c => call'[d] = call[d]
    BY <1>1, <1>2 DEF Await
  <2> QED
    BY <2>1, <2>2, <2>3 DEF Known
<1>3. ASSUME UNCHANGED ticket,
             \A k \in Jobs : job[k].status = "absent" => job'[k].status = "absent",
             \A d \in Callers : d # c => call'[d] = call[d],
             call'[c].op \in {"idle", "delete", "clear"},
             \A k \in Jobs : \/ disk'[k] \in {"absent", disk[k]}
                             \/ /\ k = call[c].job
                                /\ call[c].op \in {"enqueue", "retry", "settle"}
      PROVE  Known'
  <2> SUFFICES ASSUME NEW k \in Jobs, ticket[k] = 0
               PROVE  /\ job'[k].status = "absent" /\ disk'[k] = "absent"
                      /\ \A d \in Callers :
                           call'[d].op \in {"enqueue", "retry", "settle"} => call'[d].job # k
    BY <1>0, <1>3 DEF Known
  <2> QED
    BY <1>3 DEF Known
<1>4. Return(c) => /\ \A d \in Callers : d # c => call'[d] = call[d]
                   /\ call'[c].op = "idle"
  BY <1>1 DEF Return, IdleCall
<1>5. ASSUME NEW j \in Jobs, NEW password \in BOOLEAN, Enqueue(c, j, password)
      PROVE  Known'
  <2>1. Cardinality({k \in Jobs : ticket[k] > 0}) \in Nat
    BY FS_Subset, FS_CardinalityType
  <2>2. ticket'[j] # 0 /\ \A k \in Jobs : k # j => ticket'[k] = ticket[k]
    BY <1>1, <1>5, <2>1 DEF Enqueue
  <2> QED
    BY <1>2, <1>5, <2>2 DEF Enqueue
<1>6. ASSUME NEW j \in Jobs, NEW password \in BOOLEAN, Retry(c, j, password)
      PROVE  Known'
  <2>1. ticket'[j] # 0
    BY <1>6 DEF Known, Retry, Retryable
  <2> QED
    BY <1>2, <1>6, <2>1 DEF Retry
<1>7. ASSUME NEW j \in Jobs, CancelWaiting(c, j) \/ PauseWaiting(c, j)
      PROVE  Known'
  <2>1. PICK to \in {"canceled", "paused"} :
          /\ job' = [job EXCEPT ![j] = Withdrawn(job[j], to)] /\ UNCHANGED <<disk, ticket>>
          /\ Await(c, "settle", j, to, "absent") /\ job[j].status # "absent"
    BY <1>7 DEF CancelWaiting, PauseWaiting, Withdraw
  <2>2. ticket'[j] # 0
    BY <2>1 DEF Known
  <2> QED
    BY <1>2, <2>1, <2>2
<1>8. ASSUME NEW j \in Jobs, NEW todo, Forget(c, j, todo), UNCHANGED <<disk, ticket>>
      PROVE  Known'
  <2>1. \A k \in Jobs : job[k].status = "absent" => job'[k].status = "absent"
    BY <1>1, <1>8 DEF Forget, NoEntry
  <2>2. /\ \A d \in Callers : d # c => call'[d] = call[d]
        /\ call'[c].op = "delete"
    BY <1>1, <1>8 DEF Forget, IdleCall
  <2> QED
    BY <1>3, <1>8, <2>1, <2>2
<1>9. CASE ClearFinished(c)
  <2>1. (\A d \in Callers : d # c => call'[d] = call[d]) /\ call'[c].op = "clear"
    BY <1>1, <1>9 DEF ClearFinished, IdleCall
  <2> QED
    BY <1>3, <1>9, <2>1 DEF ClearFinished
<1>10. ASSUME NEW j \in Jobs, ClearNext(c, j) PROVE Known'
  <2>1. CASE Forget(c, j, call[c].todo \ {j})
    BY <1>8, <1>10, <2>1 DEF ClearNext
  <2>2. CASE UNCHANGED job /\ Return(c)
    BY <1>3, <1>4, <1>10, <2>2 DEF ClearNext
  <2>3. CASE UNCHANGED job /\ call' = [call EXCEPT ![c] = [@ EXCEPT !.todo = call[c].todo \ {j}]]
    <3>1. call[c].op = "clear"
      BY <1>10 DEF ClearNext
    <3>2. (\A d \in Callers : d # c => call'[d] = call[d]) /\ call'[c].op = "clear"
      BY <1>1, <2>3, <3>1 DEF CallEntry
    <3> QED
      BY <1>3, <1>10, <2>3, <3>2 DEF ClearNext
  <2> QED
    BY <1>10, <2>1, <2>2, <2>3 DEF ClearNext, Return
<1>11. CASE EnqueueSaved(c) \/ RetrySaved(c) \/ SettleSaved(c)
  <2>1. /\ UNCHANGED <<job, ticket>> /\ Return(c)
        /\ \A k \in Jobs : \/ disk'[k] \in {"absent", disk[k]}
                           \/ /\ k = call[c].job
                              /\ call[c].op \in {"enqueue", "retry", "settle"}
    BY <1>1, <1>11 DEF EnqueueSaved, RetrySaved, SettleSaved, Save
  <2> QED
    BY <1>3, <1>4, <2>1
<1>12. CASE EnqueueSaveFailed(c) \/ RetrySaveFailed(c)
  <2>1. \A k \in Jobs : job[k].status = "absent" => job'[k].status = "absent"
    BY <1>1, <1>12 DEF EnqueueSaveFailed, RetrySaveFailed, NoEntry
  <2> QED
    BY <1>3, <1>4, <1>12, <2>1 DEF EnqueueSaveFailed, RetrySaveFailed
<1>13. CASE Deleted(c)
  <2>1. (\A d \in Callers : d # c => call'[d] = call[d]) /\ call'[c].op \in {"idle", "clear"}
    <3>1. CASE Return(c)
      BY <1>4, <3>1
    <3>2. ASSUME NEW op \in {"idle", "clear"}, call' = [call EXCEPT ![c] =
                   [IdleCall EXCEPT !.op = op, !.todo = call[c].todo]]
          PROVE  (\A d \in Callers : d # c => call'[d] = call[d]) /\ call'[c].op = op
      BY <1>1, <3>2 DEF IdleCall
    <3> QED
      BY <1>13, <3>1, <3>2 DEF Deleted
  <2>2. \A k \in Jobs : disk'[k] \in {"absent", disk[k]}
    BY <1>1, <1>13 DEF Deleted
  <2> QED
    BY <1>3, <1>13, <2>1, <2>2 DEF Deleted
<1>14. ASSUME NEW j \in Jobs, Remove(c, j) PROVE Known'
  BY <1>8, <1>14 DEF Remove
<1> QED
  BY <1>5, <1>6, <1>7, <1>9, <1>10, <1>11, <1>12, <1>13, <1>14 DEF User, StoreAnswers

LEMMA KnownTransfers ==
  ASSUME Shape, Known,
         \/ \E r \in Runs : TransferReturns(r) \/ RunAdvances(r)
         \/ \E j \in Jobs : CancelRunning(j) \/ PauseRunning(j)
         \/ \E r \in Runs, j \in Jobs : Dispatch(r, j)
         \/ Close \/ Exit \/ Crash \/ Restart
  PROVE  Known'
<1>1. /\ job \in [Jobs -> JobEntry] /\ run \in [Runs -> RunEntry]
      /\ disk \in [Jobs -> StatusOrAbsent]
  BY DEF Shape, TypeOK
<1>2. ASSUME UNCHANGED ticket, NEW s,
             \A k \in Jobs : k # s => /\ job[k].status = "absent" => job'[k].status = "absent"
                                      /\ disk[k] = "absent" => disk'[k] = "absent",
             s \in Jobs => ticket[s] # 0,
             \A r \in Runs : \/ run'[r].phase = "idle" \/ run'[r].job = s
                             \/ run[r].phase # "idle" /\ run'[r].job = run[r].job,
             \A c \in Callers : call'[c] = call[c] \/ call'[c] = IdleCall
      PROVE  Known'
  <2> SUFFICES ASSUME NEW k \in Jobs, ticket[k] = 0
               PROVE  /\ job'[k].status = "absent" /\ disk'[k] = "absent"
                      /\ \A r \in Runs : run'[r].phase # "idle" => run'[r].job # k
                      /\ \A c \in Callers :
                           call'[c].op \in {"enqueue", "retry", "settle"} => call'[c].job # k
    BY <1>2 DEF Known
  <2>1. k # s
    BY <1>2
  <2>2. job'[k].status = "absent" /\ disk'[k] = "absent"
    BY <1>2, <2>1 DEF Known
  <2>3. ASSUME NEW r \in Runs, run'[r].phase # "idle" PROVE run'[r].job # k
    BY <1>2, <2>1, <2>3 DEF Known
  <2>4. ASSUME NEW c \in Callers, call'[c].op \in {"enqueue", "retry", "settle"}
        PROVE  call'[c].job # k
    BY <1>2, <2>4 DEF Known, IdleCall
  <2> QED
    BY <2>2, <2>3, <2>4
<1>3. ASSUME NEW r \in Runs, TransferReturns(r) \/ RunAdvances(r) PROVE Known'
  <2> DEFINE j == run[r].job
  <2>1. run[r].phase # "idle" /\ j \in Jobs /\ ticket[j] # 0 /\ UNCHANGED <<ticket, call>>
    BY <1>3 DEF Shape, RunsNameJobs, Known, TransferReturns, RunAdvances, FinishRun,
       FinishForgotten, RunSaved, BeginRun, AbandonRun, RunRecorded
  <2>2. \A k \in Jobs : k # j => job'[k] = job[k] /\ disk'[k] = disk[k]
    BY <1>1, <1>3, <2>1 DEF TransferReturns, RunAdvances, FinishRun,
       FinishForgotten, RunSaved, BeginRun, AbandonRun, RunRecorded, Save
  <2>3. /\ \A s \in Runs : s # r => run'[s] = run[s]
        /\ run'[r].phase = "idle" \/ run'[r].job = j
    BY <1>1, <1>3 DEF TransferReturns, RunAdvances, FinishRun,
       FinishForgotten, RunSaved, BeginRun, AbandonRun, RunRecorded, IdleRun, RunEntry
  <2> QED
    BY <1>2, <2>1, <2>2, <2>3
<1>4. ASSUME NEW j \in Jobs, CancelRunning(j) \/ PauseRunning(j) PROVE Known'
  <2>1. /\ \A k \in Jobs : k # j => job'[k] = job[k]
        /\ job[j].status # "absent" /\ CancelContext(job[j].cancel)
        /\ UNCHANGED <<ticket, disk, call>>
    BY <1>1, <1>4 DEF CancelRunning, PauseRunning, StopRunning, Active
  <2>2. \A r \in Runs : run'[r].phase = run[r].phase /\ run'[r].job = run[r].job
    BY <1>1, <2>1 DEF CancelContext, RunEntry
  <2>3. ticket[j] # 0
    BY <2>1 DEF Known
  <2> QED
    BY <1>2, <2>1, <2>2, <2>3
<1>5. ASSUME NEW r \in Runs, NEW j \in Jobs, Dispatch(r, j) PROVE Known'
  <2>1. ticket[j] # 0
    BY <1>5 DEF Known, Dispatch, Selected, Queued
  <2>2. /\ \A k \in Jobs : k # j => job'[k] = job[k] /\ disk'[k] = disk[k]
        /\ \A s \in Runs : s # r => run'[s] = run[s]
        /\ run'[r].job = j /\ UNCHANGED <<ticket, call>>
    BY <1>1, <1>5 DEF Dispatch
  <2> QED
    BY <1>2, <2>1, <2>2
<1>6. CASE Close
  <2>1. \A k \in Jobs : job'[k].status = job[k].status
    BY <1>1, <1>6 DEF Close, JobEntry
  <2>2. \A r \in Runs : run'[r].phase = run[r].phase /\ run'[r].job = run[r].job
    BY <1>1, <1>6 DEF Close, RunEntry
  <2> QED
    BY <1>2, <1>6, <2>1, <2>2 DEF Close, Known
<1>7. CASE Exit \/ Crash
  BY <1>7 DEF Exit, Crash, Down, Known, NoEntry, IdleRun, IdleCall
<1>8. CASE Restart
  <2>1. \A k \in Jobs : disk[k] = "absent" => Restored(k) = "absent"
    BY DEF Restored, Unfinished
  <2>2. \A k \in Jobs : [NoEntry EXCEPT !.status = Restored(k)].status = Restored(k)
    BY DEF NoEntry
  <2>3. \A k \in Jobs : job[k].status = "absent" /\ disk[k] = "absent" =>
          job'[k].status = "absent" /\ disk'[k] = "absent"
    BY <1>8, <2>1, <2>2 DEF Restart
  <2> QED
    BY <1>8, <2>3 DEF Restart, Known
<1> QED
  BY <1>3, <1>4, <1>5, <1>6, <1>7, <1>8

LEMMA KnownStep == Shape /\ Known /\ [Next]_vars => Known'
<1> SUFFICES ASSUME Shape, Known, [Next]_vars PROVE Known'
  OBVIOUS
<1>1. CASE UNCHANGED vars \/ BeginLegacy \/ EndLegacy \/ DispatcherReturns
  BY <1>1 DEF vars, BeginLegacy, EndLegacy, DispatcherReturns, Known
<1> QED
  BY <1>1, KnownCalls, KnownTransfers DEF Next, Dispatcher

-----------------------------------------------------------------------------
(***************************************************************************)
(* Transfers and their jobs, where no write of the store fails.            *)
(***************************************************************************)
\* No write fails. With failures the properties below, StopReachesRun excepted, do not
\* hold: the rollbacks of enqueueJob and RetryTransferJob replace the entry of a job that
\* a dispatcher may have started meanwhile.
Reliable == "store_failure" \notin Environment

\* A job that is being stopped knows what was asked for last.
Requests ==
  \A j \in Jobs :
    /\ job[j].status = "cancelling" => job[j].cancelRequested /\ ~job[j].pauseRequested
    /\ job[j].status = "pausing" => job[j].pauseRequested

Owned == RunOwnsJob /\ StopReachesRun /\ Requests /\ WakeLockTracksRuns

LEMMA LiveFacts ==
  ASSUME Shape, RunOwnsJob, NEW r \in LiveRuns
  PROVE  /\ r \in Runs /\ run[r].job \in Jobs /\ run[r].phase # "idle"
         /\ job[run[r].job].status \in Active /\ job[run[r].job].cancel = r
         /\ job[run[r].job].status # "absent"
  BY DEF Shape, RunsNameJobs, RunOwnsJob, LiveRuns, Active

\* An entry that is and stays no active one.
LEMMA EntryAside ==
  ASSUME Shape, Owned, NEW j \in Jobs, NEW entry, job' = [job EXCEPT ![j] = entry],
         job[j].status \notin Active, entry.status \notin Active,
         UNCHANGED <<run, closed, wakeLock, runningJobs>>
  PROVE  Owned'
<1>1. LiveRuns' = LiveRuns
  BY UnchangedRuns
<1>2. \A k \in Jobs : job'[k] = IF k = j THEN entry ELSE job[k]
  BY DEF Shape, TypeOK
<1>3. \A r \in LiveRuns : run[r].job \in Jobs /\ run[r].job # j
  BY LiveFacts DEF Owned
<1>4. RunOwnsJob'
  <2>1. ASSUME NEW r \in LiveRuns
        PROVE  job'[run'[r].job].status \in Active /\ job'[run'[r].job].cancel = r
    BY <1>2, <1>3, LiveFacts DEF Owned
  <2>2. ASSUME NEW k \in Jobs, job'[k].status \in Active
        PROVE  \E r \in LiveRuns : run'[r].job = k
    BY <1>2, <2>2 DEF Owned, RunOwnsJob
  <2> QED
    BY <1>1, <2>1, <2>2 DEF RunOwnsJob
<1>5. StopReachesRun'
  BY <1>1, <1>2, <1>3 DEF Owned, StopReachesRun
<1>6. Requests' /\ WakeLockTracksRuns'
  BY <1>2 DEF Owned, Requests, WakeLockTracksRuns, Active
<1> QED
  BY <1>4, <1>5, <1>6 DEF Owned

\* Transfers that go on without a change of their jobs.
LEMMA RunsGoOn ==
  ASSUME Shape, Owned, LiveRuns' = LiveRuns,
         \A r \in LiveRuns : run'[r].job = run[r].job /\ run'[r].cancelled = run[r].cancelled,
         UNCHANGED <<job, closed, wakeLock, runningJobs>>
  PROVE  Owned'
<1>1. RunOwnsJob' /\ StopReachesRun'
  BY DEF Owned, RunOwnsJob, StopReachesRun
<1>2. Requests' /\ WakeLockTracksRuns'
  BY DEF Owned, Requests, WakeLockTracksRuns
<1> QED
  BY <1>1, <1>2 DEF Owned

LEMMA OwnedCalls ==
  ASSUME Reliable, Shape, Known, Owned, NEW c \in Callers, User(c) \/ StoreAnswers(c)
  PROVE  Owned'
<1>0. UNCHANGED <<run, closed, wakeLock, runningJobs>>
  BY CallsKeep
<1>1. job \in [Jobs -> JobEntry]
  BY DEF Shape, TypeOK
<1>2. ASSUME NEW j \in Jobs, NEW password \in BOOLEAN, Enqueue(c, j, password) PROVE Owned'
  <2>1. [NoEntry EXCEPT !.status = "queued", !.password = password].status \notin Active
    BY DEF NoEntry, Active
  <2>2. job[j].status \notin Active
    BY <1>2 DEF Enqueue, Known, Active
  <2> QED
    BY <1>0, <1>2, <2>1, <2>2, EntryAside DEF Enqueue
<1>3. ASSUME NEW j \in Jobs, NEW password \in BOOLEAN, Retry(c, j, password) PROVE Owned'
  <2>1. Requeued(job[j], password).status \notin Active
    BY <1>1 DEF Requeued, JobEntry, Active
  <2>2. job[j].status \notin Active
    BY <1>3 DEF Retry, Retryable, Active
  <2> QED
    BY <1>0, <1>3, <2>1, <2>2, EntryAside DEF Retry
<1>4. ASSUME NEW j \in Jobs, CancelWaiting(c, j) \/ PauseWaiting(c, j) PROVE Owned'
  <2>1. PICK to \in {"canceled", "paused"} :
          /\ job' = [job EXCEPT ![j] = Withdrawn(job[j], to)]
          /\ job[j].status \notin Active
    BY <1>4 DEF CancelWaiting, PauseWaiting, Withdraw, Active
  <2>2. Withdrawn(job[j], to).status \notin Active
    BY <1>1, WithdrawnFields DEF Active
  <2> QED
    BY <1>0, <2>1, <2>2, EntryAside
<1>5. ASSUME NEW j \in Jobs, job' = [job EXCEPT ![j] = NoEntry], job[j].status \in Terminal
      PROVE  Owned'
  <2>1. NoEntry.status \notin Active /\ job[j].status \notin Active
    BY <1>5 DEF NoEntry, Active, Terminal
  <2> QED
    BY <1>0, <1>5, <2>1, EntryAside
<1>6. ASSUME UNCHANGED job PROVE Owned'
  BY <1>0, <1>6, UnchangedRuns, RunsGoOn
<1>7. ASSUME NEW j \in Jobs, ClearNext(c, j) \/ Remove(c, j) PROVE Owned'
  BY <1>5, <1>6, <1>7 DEF ClearNext, Remove, Forget
<1>8. CASE \/ ClearFinished(c) \/ EnqueueSaved(c) \/ RetrySaved(c) \/ SettleSaved(c)
           \/ Deleted(c)
  BY <1>6, <1>8 DEF ClearFinished, EnqueueSaved, RetrySaved, SettleSaved, Deleted
<1>9. ~EnqueueSaveFailed(c) /\ ~RetrySaveFailed(c)
  BY DEF Reliable, EnqueueSaveFailed, RetrySaveFailed
<1> QED
  BY <1>2, <1>3, <1>4, <1>7, <1>8, <1>9 DEF User, StoreAnswers

\* A stop request changes the entry of an active job and reaches its transfer.
LEMMA OwnedStops ==
  ASSUME Shape, Owned, NEW j \in Jobs, CancelRunning(j) \/ PauseRunning(j)
  PROVE  Owned'
<1>1. /\ job \in [Jobs -> JobEntry] /\ run \in [Runs -> RunEntry] /\ job[j] \in JobEntry
  BY DEF Shape, TypeOK
<1>2. PICK entry \in {Cancelling(job[j]), Pausing(job[j])} :
        /\ job' = [job EXCEPT ![j] = entry] /\ job[j].status \in Active
        /\ CancelContext(job[j].cancel) /\ UNCHANGED <<closed, wakeLock, runningJobs>>
  BY DEF CancelRunning, PauseRunning, StopRunning, Active
<1>3. /\ entry.status \in Active /\ entry.cancel = job[j].cancel
      /\ entry.status = "cancelling" => entry.cancelRequested /\ ~entry.pauseRequested
      /\ entry.status = "pausing" => entry.pauseRequested
  <2>1. CASE entry = Cancelling(job[j])
    BY <1>1, <2>1 DEF Cancelling, JobEntry, Active
  <2>2. CASE entry = Pausing(job[j])
    BY <1>1, <2>2 DEF Pausing, JobEntry, Active
  <2> QED
    BY <1>2, <2>1, <2>2
<1>4. \A k \in Jobs : job'[k] = IF k = j THEN entry ELSE job[k]
  BY <1>1, <1>2
<1>5. \A r \in Runs : /\ run'[r].phase = run[r].phase /\ run'[r].job = run[r].job
                      /\ run[r].cancelled => run'[r].cancelled
                      /\ r = job[j].cancel => run'[r].cancelled
  <2>1. CASE job[j].cancel \in Runs
    <3>1. \A r \in Runs : run'[r] = IF r = job[j].cancel
                                    THEN [run[r] EXCEPT !.cancelled = TRUE] ELSE run[r]
      BY <1>1, <1>2, <2>1 DEF CancelContext
    <3>2. \A r \in Runs : run[r] \in RunEntry
      BY <1>1
    <3>3. ASSUME NEW other \in RunEntry
          PROVE  LET stopped == [other EXCEPT !.cancelled = TRUE]
                 IN  /\ stopped.phase = other.phase /\ stopped.job = other.job
                     /\ stopped.cancelled
      BY DEF RunEntry
    <3> QED
      BY <3>1, <3>2, <3>3
  <2>2. CASE job[j].cancel \notin Runs
    BY <1>2, <2>2 DEF CancelContext
  <2> QED
    BY <2>1, <2>2
<1>6. LiveRuns' = LiveRuns
  BY <1>5 DEF LiveRuns
<1>7. RunOwnsJob'
  <2>1. ASSUME NEW r \in LiveRuns
        PROVE  job'[run'[r].job].status \in Active /\ job'[run'[r].job].cancel = r
    <3>1. /\ r \in Runs /\ run[r].job \in Jobs /\ job[run[r].job].status \in Active
          /\ job[run[r].job].cancel = r
      BY LiveFacts DEF Owned
    <3> QED
      BY <1>3, <1>4, <1>5, <3>1
  <2>2. ASSUME NEW k \in Jobs, job'[k].status \in Active
        PROVE  \E r \in LiveRuns : run'[r].job = k
    <3>1. job[k].status \in Active
      BY <1>2, <1>4, <2>2
    <3>2. PICK r \in LiveRuns : run[r].job = k
      BY <3>1 DEF Owned, RunOwnsJob
    <3> QED
      BY <1>5, <3>2 DEF LiveRuns
  <2> QED
    BY <1>6, <2>1, <2>2 DEF RunOwnsJob
<1>8. StopReachesRun'
  <2> SUFFICES ASSUME NEW r \in LiveRuns,
                      closed \/ job'[run'[r].job].status \in {"cancelling", "pausing"}
               PROVE  run'[r].cancelled
    BY <1>2, <1>6 DEF StopReachesRun
  <2>1. r \in Runs /\ run[r].job \in Jobs /\ job[run[r].job].cancel = r
    BY LiveFacts DEF Owned
  <2>2. CASE run[r].job = j
    BY <1>5, <2>1, <2>2
  <2>3. CASE run[r].job # j
    <3>1. job'[run'[r].job] = job[run[r].job]
      BY <1>4, <1>5, <2>1, <2>3
    <3>2. run[r].cancelled
      BY <3>1 DEF Owned, StopReachesRun
    <3> QED
      BY <1>5, <2>1, <3>2
  <2> QED
    BY <2>2, <2>3
<1>9. Requests'
  BY <1>3, <1>4 DEF Owned, Requests
<1>10. WakeLockTracksRuns'
  BY <1>2 DEF Owned, WakeLockTracksRuns
<1> QED
  BY <1>7, <1>8, <1>9, <1>10 DEF Owned

LEMMA OwnedDispatch ==
  ASSUME Shape, Owned, NEW r \in Runs, NEW j \in Jobs, Dispatch(r, j)
  PROVE  Owned'
<1>1. /\ job \in [Jobs -> JobEntry] /\ run \in [Runs -> RunEntry] /\ job[j] \in JobEntry
      /\ runningJobs \in Nat
  BY DEF Shape, TypeOK
<1>2. /\ job[j].status = "queued" /\ ~closed /\ UNCHANGED closed
      /\ \A k \in Jobs : job'[k] = IF k = j THEN Started(job[j], r) ELSE job[k]
      /\ run[r] = IdleRun /\ \A s \in Runs : s # r => run'[s] = run[s]
      /\ run'[r].phase = "saving" /\ run'[r].job = j
  BY <1>1 DEF Dispatch, MayDispatch, Selected, Queued
<1>3. Started(job[j], r).status = "running" /\ Started(job[j], r).cancel = r
  BY <1>1 DEF Started, JobEntry
<1>4. LiveRuns' = LiveRuns \cup {r} /\ r \notin LiveRuns
  BY <1>2 DEF LiveRuns, IdleRun
<1>5. \A s \in LiveRuns : /\ s \in Runs /\ s # r /\ run'[s] = run[s] /\ run[s].job \in Jobs
                          /\ run[s].job # j /\ job'[run[s].job] = job[run[s].job]
                          /\ job[run[s].job].status \in Active /\ job[run[s].job].cancel = s
  BY <1>2, <1>4, LiveFacts DEF Owned, Active
<1>6. RunOwnsJob'
  <2>1. ASSUME NEW s \in LiveRuns'
        PROVE  job'[run'[s].job].status \in Active /\ job'[run'[s].job].cancel = s
    <3>1. CASE s = r
      BY <1>2, <1>3, <3>1 DEF Active
    <3>2. CASE s \in LiveRuns
      BY <1>5, <3>2
    <3> QED
      BY <1>4, <3>1, <3>2
  <2>2. ASSUME NEW k \in Jobs, job'[k].status \in Active
        PROVE  \E s \in LiveRuns' : run'[s].job = k
    <3>1. CASE k = j
      BY <1>2, <1>4, <3>1
    <3>2. CASE k # j
      <4>1. PICK s \in LiveRuns : run[s].job = k
        BY <1>2, <2>2, <3>2 DEF Owned, RunOwnsJob
      <4> QED
        BY <1>4, <1>5, <4>1
    <3> QED
      BY <3>1, <3>2
  <2> QED
    BY <2>1, <2>2 DEF RunOwnsJob
<1>7. StopReachesRun'
  <2> SUFFICES ASSUME NEW s \in LiveRuns',
                      job'[run'[s].job].status \in {"cancelling", "pausing"}
               PROVE  run'[s].cancelled
    BY <1>2 DEF StopReachesRun
  <2>1. s \in LiveRuns
    BY <1>2, <1>3, <1>4
  <2> QED
    BY <1>5, <2>1 DEF Owned, StopReachesRun
<1>8. Requests'
  BY <1>2, <1>3 DEF Owned, Requests
<1>9. WakeLockTracksRuns'
  <2>1. runningJobs' > 0 /\ (runningJobs > 0 \/ runningJobs = 0)
    BY <1>1 DEF Dispatch
  <2>2. wakeLock' <=> wakeLock \/ runningJobs = 0
    BY DEF Dispatch
  <2> QED
    BY <2>1, <2>2, Zenon DEF Owned, WakeLockTracksRuns
<1> QED
  BY <1>6, <1>7, <1>8, <1>9 DEF Owned

\* The end of a transfer: it was the only one of its job.
LEMMA OwnedFinish ==
  ASSUME Shape, Owned, NEW r \in Runs, NEW outcome \in Outcomes, FinishRun(r, outcome)
  PROVE  Owned'
<1> DEFINE j == run[r].job
           entry == Finished(job[j], outcome)
<1>1. /\ job \in [Jobs -> JobEntry] /\ run \in [Runs -> RunEntry] /\ runningJobs \in Nat
      /\ wakeLock \in BOOLEAN
  BY DEF Shape, TypeOK
<1>2. j \in Jobs /\ job[j] \in JobEntry
  BY <1>1 DEF Shape, RunsNameJobs, FinishRun
<1>3. entry.status \notin Active
  <2>1. entry.status = FinalStatus(job[j], outcome)
    BY <1>2 DEF Finished, JobEntry
  <2> QED
    BY <1>2, <2>1, FinalStatusCases DEF Active
<1>4. /\ \A k \in Jobs : job'[k] = IF k = j THEN entry ELSE job[k]
      /\ \A s \in Runs : s # r => run'[s] = run[s]
      /\ r \in LiveRuns /\ LiveRuns' = LiveRuns \ {r} /\ UNCHANGED closed
  BY <1>1, <1>2 DEF FinishRun, LiveRuns
<1>5. \A s \in LiveRuns' : /\ s \in LiveRuns /\ s \in Runs /\ run'[s] = run[s]
                           /\ run[s].job \in Jobs /\ run[s].job # j
                           /\ job'[run[s].job] = job[run[s].job]
                           /\ job[run[s].job].status \in Active
                           /\ job[run[s].job].cancel = s
  BY <1>4, LiveFacts DEF Owned
<1>6. RunOwnsJob'
  <2>1. ASSUME NEW k \in Jobs, job'[k].status \in Active
        PROVE  \E s \in LiveRuns' : run'[s].job = k
    <3>1. k # j /\ job[k].status \in Active
      BY <1>3, <1>4, <2>1
    <3>2. PICK s \in LiveRuns : run[s].job = k
      BY <3>1 DEF Owned, RunOwnsJob
    <3> QED
      BY <1>4, <1>5, <3>1, <3>2
  <2> QED
    BY <1>5, <2>1 DEF RunOwnsJob
<1>7. StopReachesRun'
  BY <1>4, <1>5 DEF Owned, StopReachesRun
<1>8. Requests'
  BY <1>3, <1>4 DEF Owned, Requests, Active
<1>9. WakeLockTracksRuns'
  <2>1. runningJobs' > 0 <=> runningJobs > 0 /\ runningJobs' # 0
    BY <1>1 DEF FinishRun, ReleaseSlot
  <2>2. wakeLock' <=> wakeLock /\ runningJobs' # 0
    BY DEF FinishRun, ReleaseSlot
  <2> QED
    BY <2>1, <2>2, Zenon DEF Owned, WakeLockTracksRuns
<1> QED
  BY <1>6, <1>7, <1>8, <1>9 DEF Owned

LEMMA OwnedTransfers ==
  ASSUME Shape, Owned, NEW r \in Runs, TransferReturns(r) \/ RunAdvances(r)
  PROVE  Owned'
<1>1. run \in [Runs -> RunEntry]
  BY DEF Shape, TypeOK
<1>2. ~AbandonRun(r) /\ ~FinishForgotten(r)
  BY LiveFacts DEF AbandonRun, FinishForgotten, LiveRuns, InMap, Owned
<1>3. CASE RunSaved(r) \/ BeginRun(r) \/ RunRecorded(r)
  <2>1. LiveRuns' = LiveRuns
    BY <1>3, RunAdvancesShape
  <2>2. \A s \in LiveRuns : run'[s].job = run[s].job /\ run'[s].cancelled = run[s].cancelled
    BY <1>1, <1>3 DEF RunSaved, BeginRun, RunRecorded, LiveRuns, RunEntry
  <2> QED
    BY <1>3, <2>1, <2>2, RunsGoOn DEF RunSaved, BeginRun, RunRecorded
<1> QED
  BY <1>2, <1>3, OwnedFinish DEF TransferReturns, RunAdvances

LEMMA OwnedProcess ==
  ASSUME Reliable, Shape, Gone, Owned, Close \/ Exit \/ Crash \/ Restart
  PROVE  Owned'
<1>1. job \in [Jobs -> JobEntry] /\ run \in [Runs -> RunEntry]
  BY DEF Shape, TypeOK
<1>2. CASE Close
  <2>1. \A k \in Jobs : /\ job'[k].status = job[k].status /\ job'[k].cancel = job[k].cancel
                        /\ job'[k].cancelRequested = job[k].cancelRequested
                        /\ job'[k].pauseRequested = job[k].pauseRequested
    BY <1>1, <1>2 DEF Close, JobEntry
  <2>2. \A s \in Runs : /\ run'[s].phase = run[s].phase /\ run'[s].job = run[s].job
                        /\ (\E k \in Jobs : job[k].cancel = s) => run'[s].cancelled
    BY <1>1, <1>2 DEF Close, RunEntry
  <2>3. LiveRuns' = LiveRuns
    BY <2>2 DEF LiveRuns
  <2>4. \A s \in LiveRuns : /\ s \in Runs /\ run[s].job \in Jobs
                            /\ job[run[s].job].status \in Active
                            /\ job[run[s].job].cancel = s
    BY LiveFacts DEF Owned
  <2>5. RunOwnsJob'
    BY <2>1, <2>2, <2>3, <2>4 DEF Owned, RunOwnsJob
  <2>6. StopReachesRun'
    BY <2>2, <2>3, <2>4 DEF StopReachesRun
  <2>7. Requests' /\ WakeLockTracksRuns'
    BY <1>2, <2>1 DEF Close, Owned, Requests, WakeLockTracksRuns
  <2> QED
    BY <2>5, <2>6, <2>7 DEF Owned
<1>3. ASSUME LiveRuns' = {}, \A k \in Jobs : job'[k].status \notin Active,
             wakeLock' = FALSE, runningJobs' = 0
      PROVE  Owned'
  BY <1>3 DEF Owned, RunOwnsJob, StopReachesRun, Requests, WakeLockTracksRuns, Active
<1>4. CASE Exit \/ Crash
  <2>1. LiveRuns' = {}
    BY <1>4 DEF Exit, Crash, Down, LiveRuns, IdleRun
  <2>2. \A k \in Jobs : job'[k].status \notin Active
    BY <1>4 DEF Exit, Crash, Down, NoEntry, Active
  <2> QED
    BY <1>3, <1>4, <2>1, <2>2 DEF Exit, Crash, Down
<1>5. CASE Restart
  <2>1. job' = [k \in Jobs |-> [NoEntry EXCEPT !.status = Restored(k)]]
    BY <1>5 DEF Restart, Reliable
  <2>2. \A k \in Jobs : job'[k].status \notin Active
    BY <2>1, RestoredIsQuiet DEF NoEntry
  <2>3. LiveRuns' = LiveRuns /\ LiveRuns = {}
    BY <1>5 DEF Restart, Gone, LiveRuns, IdleRun
  <2>4. RunOwnsJob' /\ StopReachesRun' /\ Requests'
    BY <2>2, <2>3 DEF RunOwnsJob, StopReachesRun, Requests, Active
  <2>5. WakeLockTracksRuns'
    BY <1>5 DEF Restart, Owned, WakeLockTracksRuns
  <2> QED
    BY <2>4, <2>5 DEF Owned
<1> QED
  BY <1>2, <1>4, <1>5

LEMMA OwnedStep ==
  ASSUME Reliable PROVE Shape /\ Gone /\ Known /\ Owned /\ [Next]_vars => Owned'
<1> SUFFICES ASSUME Shape, Gone, Known, Owned, [Next]_vars PROVE Owned'
  OBVIOUS
<1>1. CASE UNCHANGED vars \/ BeginLegacy \/ EndLegacy \/ DispatcherReturns
  BY <1>1, UnchangedRuns, RunsGoOn DEF vars, BeginLegacy, EndLegacy, DispatcherReturns
<1> QED
  BY <1>1, OwnedCalls, OwnedStops, OwnedDispatch, OwnedTransfers, OwnedProcess
  DEF Next, Dispatcher

\* The invariant of a service with a reliable store.
OwnInv == Shape /\ Gone /\ Known /\ Owned

\* enqueueJob, dispatchJobs, finishJob, the stop requests, Close and restoreJobs: where
\* no write fails they keep jobs, their transfers and the wake lock together.
THEOREM OwnershipKept == ASSUME Reliable PROVE Spec => []OwnInv
<1>1. Init => Known /\ Owned
  <2>1. Init => LiveRuns = {}
    BY DEF Init, LiveRuns, IdleRun
  <2>2. Init => Known
    BY DEF Init, Known, NoEntry, IdleRun, IdleCall
  <2>3. Init => Owned
    BY <2>1 DEF Init, Owned, RunOwnsJob, StopReachesRun, Requests, WakeLockTracksRuns,
       NoEntry, Active
  <2> QED
    BY <2>2, <2>3
<1>2. IInv => Shape
  BY DEF IInv
<1>3. Shape /\ Gone /\ Known /\ Owned /\ [Next]_vars => Owned'
  BY OwnedStep
<1> QED
  BY <1>1, <1>2, <1>3, Inductive, GoneAlways, KnownStep, PTL DEF Spec, OwnInv

\* dispatchJobs and finishJob: a transfer that holds a slot has one job, which is shown
\* as active and whose cancel function is its own; an active job has one transfer.
THEOREM RunsOwnTheirJobs == ASSUME Reliable PROVE Spec => []RunOwnsJob
<1>1. OwnInv => RunOwnsJob
  BY DEF OwnInv, Owned
<1> QED
  BY <1>1, OwnershipKept, PTL

\* CancelTransferJob, PauseTransferJob and Close: the context of the transfer that is to
\* be stopped is cancelled, however requests, retries and dispatches overlap.
THEOREM StopsReachRuns == ASSUME Reliable PROVE Spec => []StopReachesRun
<1>1. OwnInv => StopReachesRun
  BY DEF OwnInv, Owned
<1> QED
  BY <1>1, OwnershipKept, PTL

\* releaseWakeLockIfIdleLocked: the lock is held exactly while a job is running.
THEOREM WakeLockHeldExactly == ASSUME Reliable PROVE Spec => []WakeLockTracksRuns
<1>1. OwnInv => WakeLockTracksRuns
  BY DEF OwnInv, Owned
<1> QED
  BY <1>1, OwnershipKept, PTL

-----------------------------------------------------------------------------
(***************************************************************************)
(* How the status of a job changes while the process exists.               *)
(***************************************************************************)
Restarted(from, to)  == from = "absent" \/ (from \in Retryable /\ to = "queued")
Waited(from)         == from \in {"queued", "paused", "needs_password"}
Removed(from, to)    == from \in Terminal /\ to = "absent"
Stopped(from, to)    == \/ from \in Active /\ to = "cancelling"
                        \/ from \in {"running", "pausing"} /\ to = "pausing"
Ended(entry, to)     == /\ entry.status \in Active
                        /\ \E outcome \in Outcomes : to = FinalStatus(entry, outcome)
Changed(entry, to) ==
  LET from == entry.status
  IN \/ to = from \/ Restarted(from, to) \/ Waited(from) \/ Removed(from, to)
     \/ Stopped(from, to) \/ Ended(entry, to)

LEMMA CallsChange ==
  ASSUME Reliable, OwnInv, NEW c \in Callers, User(c) \/ StoreAnswers(c), NEW j \in Jobs
  PROVE  Changed(job[j], job'[j].status)
<1> USE DEF Changed
<1>1. job \in [Jobs -> JobEntry]
  BY DEF OwnInv, Shape, TypeOK
<1>2. ASSUME NEW k \in Jobs, NEW password \in BOOLEAN, Enqueue(c, k, password)
      PROVE  Changed(job[j], job'[j].status)
  <2>1. job[k].status = "absent"
    BY <1>2 DEF OwnInv, Known, Enqueue
  <2> QED
    BY <1>1, <1>2, <2>1 DEF Enqueue, Restarted
<1>3. ASSUME NEW k \in Jobs, NEW password \in BOOLEAN, Retry(c, k, password)
      PROVE  Changed(job[j], job'[j].status)
  <2>1. Requeued(job[k], password).status = "queued"
    BY <1>1 DEF Requeued, JobEntry
  <2> QED
    BY <1>1, <1>3, <2>1 DEF Retry, Restarted
<1>4. ASSUME NEW k \in Jobs, CancelWaiting(c, k) \/ PauseWaiting(c, k)
      PROVE  Changed(job[j], job'[j].status)
  BY <1>1, <1>4 DEF CancelWaiting, PauseWaiting, Withdraw, Waited
<1>5. ASSUME NEW k \in Jobs, job' = [job EXCEPT ![k] = NoEntry], job[k].status \in Terminal
      PROVE  Changed(job[j], job'[j].status)
  BY <1>1, <1>5 DEF NoEntry, Removed
<1>6. ASSUME NEW k \in Jobs, ClearNext(c, k) \/ Remove(c, k)
      PROVE  Changed(job[j], job'[j].status)
  BY <1>5, <1>6 DEF ClearNext, Remove, Forget
<1>7. CASE \/ ClearFinished(c) \/ EnqueueSaved(c) \/ RetrySaved(c) \/ SettleSaved(c)
           \/ Deleted(c)
  BY <1>7 DEF ClearFinished, EnqueueSaved, RetrySaved, SettleSaved, Deleted
<1>8. ~EnqueueSaveFailed(c) /\ ~RetrySaveFailed(c)
  BY DEF Reliable, EnqueueSaveFailed, RetrySaveFailed
<1> QED
  BY <1>2, <1>3, <1>4, <1>6, <1>7, <1>8 DEF User, StoreAnswers

LEMMA OthersChange ==
  ASSUME OwnInv, NEW j \in Jobs, up',
         \/ \E k \in Jobs : CancelRunning(k) \/ PauseRunning(k)
         \/ \E r \in Runs : TransferReturns(r) \/ RunAdvances(r)
         \/ \E r \in Runs, k \in Jobs : Dispatch(r, k)
         \/ Close \/ Exit \/ Crash \/ Restart
  PROVE  Changed(job[j], job'[j].status)
<1> USE DEF Changed
<1>1. job \in [Jobs -> JobEntry] /\ Shape /\ RunOwnsJob
  BY DEF OwnInv, Shape, TypeOK, Owned
<1>2. ASSUME NEW k \in Jobs, CancelRunning(k) \/ PauseRunning(k)
      PROVE  Changed(job[j], job'[j].status)
  <2>1. Cancelling(job[k]).status = "cancelling" /\ Pausing(job[k]).status = "pausing"
    <3>1. job[k] \in JobEntry
      BY <1>1
    <3> QED
      BY <3>1 DEF Cancelling, Pausing, JobEntry
  <2> QED
    BY <1>1, <1>2, <2>1 DEF CancelRunning, PauseRunning, StopRunning, Stopped
<1>3. ASSUME NEW r \in Runs, NEW outcome \in Outcomes, FinishRun(r, outcome)
      PROVE  Changed(job[j], job'[j].status)
  <2> DEFINE k == run[r].job
  <2>1. k \in Jobs /\ job[k] \in JobEntry /\ job[k].status \in Active
    BY <1>1, <1>3, LiveFacts DEF LiveRuns, FinishRun
  <2>2. Finished(job[k], outcome).status = FinalStatus(job[k], outcome)
    BY <2>1 DEF Finished, JobEntry
  <2> QED
    BY <1>1, <1>3, <2>1, <2>2 DEF FinishRun, Ended
<1>4. ASSUME NEW r \in Runs, FinishForgotten(r) \/ RunAdvances(r)
      PROVE  Changed(job[j], job'[j].status)
  BY <1>4 DEF FinishForgotten, RunAdvances, RunSaved, BeginRun, AbandonRun, RunRecorded
<1>5. ASSUME NEW r \in Runs, NEW k \in Jobs, Dispatch(r, k)
      PROVE  Changed(job[j], job'[j].status)
  BY <1>1, <1>5 DEF Dispatch, Selected, Queued, Waited
<1>6. CASE Close
  BY <1>1, <1>6 DEF Close, JobEntry
<1>7. CASE Restart
  <2>1. job[j].status = "absent"
    BY <1>7 DEF Restart, OwnInv, Gone, NoEntry
  <2> QED
    BY <2>1 DEF Restarted
<1>8. ~Exit /\ ~Crash
  BY DEF Exit, Crash, Down
<1> QED
  BY <1>2, <1>3, <1>4, <1>5, <1>6, <1>7, <1>8 DEF TransferReturns

LEMMA StatusChanges ==
  ASSUME Reliable, OwnInv, [Next]_vars, up', NEW j \in Jobs
  PROVE  Changed(job[j], job'[j].status)
<1>1. CASE UNCHANGED vars \/ BeginLegacy \/ EndLegacy \/ DispatcherReturns
  BY <1>1 DEF vars, BeginLegacy, EndLegacy, DispatcherReturns, Changed
<1> QED
  BY <1>1, CallsChange, OthersChange DEF Next, Dispatcher

\* RetryTransferJob, CancelTransferJob and late saves: a job that is verified stays so
\* until it is removed.
THEOREM VerifiedStaysVerified == ASSUME Reliable PROVE Spec => VerifiedIsFinal
<1> DEFINE Final == \A j \in Jobs : job[j].status = "verified" /\ up'
                      => job'[j].status \in {"verified", "absent"}
<1>1. ASSUME OwnInv, [Next]_vars PROVE Final
  <2> SUFFICES ASSUME NEW j \in Jobs, job[j].status = "verified", up'
               PROVE  job'[j].status \in {"verified", "absent"}
    OBVIOUS
  <2>1. Changed(job[j], job'[j].status)
    BY <1>1, StatusChanges
  <2> QED
    BY <2>1 DEF Changed, Restarted, Waited, Removed, Stopped, Ended, Retryable, Active
<1>2. OwnInv /\ [Next]_vars => [Final]_vars
  BY <1>1
<1>3. Spec => [][Final]_vars
  <2> HIDE DEF Final
  <2> QED
    BY <1>2, OwnershipKept, PTL DEF Spec
<1> QED
  BY <1>3 DEF VerifiedIsFinal

\* finishJob: a transfer that was to be stopped is shown as what was asked for last,
\* unless it succeeded first.
THEOREM StopsHonoured == ASSUME Reliable PROVE Spec => StopIsHonoured
<1> DEFINE Honoured == \A j \in Jobs : up' =>
       /\ job[j].status = "cancelling"
            => job'[j].status \in {"cancelling", "canceled", "verified"}
       /\ job[j].status = "pausing"
            => job'[j].status \in {"pausing", "cancelling", "paused", "verified"}
<1>1. ASSUME OwnInv, [Next]_vars PROVE Honoured
  <2> SUFFICES ASSUME NEW j \in Jobs, up', job[j].status \in {"cancelling", "pausing"}
               PROVE  /\ job[j].status = "cancelling"
                           => job'[j].status \in {"cancelling", "canceled", "verified"}
                      /\ job[j].status = "pausing"
                           => job'[j].status \in {"pausing", "cancelling", "paused", "verified"}
    OBVIOUS
  <2>1. job[j] \in JobEntry
    BY <1>1 DEF OwnInv, Shape, TypeOK
  <2>2. /\ job[j].status = "cancelling" => job[j].cancelRequested /\ ~job[j].pauseRequested
        /\ job[j].status = "pausing" => job[j].pauseRequested
    BY <1>1 DEF OwnInv, Owned, Requests
  <2>3. Changed(job[j], job'[j].status)
    BY <1>1, StatusChanges
  <2>4. CASE Ended(job[j], job'[j].status)
    <3>1. PICK outcome \in Outcomes : job'[j].status = FinalStatus(job[j], outcome)
      BY <2>4 DEF Ended
    <3>2. CASE job[j].status = "cancelling"
      <4>1. FinalStatus(job[j], outcome) \in {"verified", "canceled"}
        BY <2>1, <2>2, <3>2, FinalStatusCases
      <4> QED
        BY <3>1, <3>2, <4>1
    <3>3. CASE job[j].status = "pausing"
      <4>1. FinalStatus(job[j], outcome) \in {"verified", "paused"}
        BY <2>1, <2>2, <3>3, FinalStatusCases
      <4> QED
        BY <3>1, <3>3, <4>1
    <3> QED
      BY <3>2, <3>3
  <2>5. CASE ~Ended(job[j], job'[j].status)
    BY <2>3, <2>5 DEF Changed, Restarted, Waited, Removed, Stopped, Retryable, Terminal
  <2> QED
    BY <2>4, <2>5
<1>2. OwnInv /\ [Next]_vars => [Honoured]_vars
  BY <1>1
<1>3. Spec => [][Honoured]_vars
  <2> HIDE DEF Honoured
  <2> QED
    BY <1>2, OwnershipKept, PTL DEF Spec
<1> QED
  BY <1>3 DEF StopIsHonoured
=============================================================================
