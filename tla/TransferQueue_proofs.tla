------------------------ MODULE TransferQueue_proofs ------------------------
(***************************************************************************)
(* Proofs about TransferQueue for every set of jobs, runs and callers,     *)
(* every bound and every Environment.                                      *)
(***************************************************************************)
EXTENDS TransferQueue, FiniteSetTheorems, TLAPS

(***************************************************************************)
(* What the goroutines in flight carry.  A run or a call that waits for    *)
(* the store names a job, and the rollback of a retry restores a status    *)
(* that can be retried.                                                    *)
(***************************************************************************)
RunsNameJobs == \A r \in Runs : run[r].phase # "idle" => run[r].job \in Jobs
CallsNameJobs ==
  \A c \in Callers :
    /\ call[c].op \in {"enqueue", "retry", "settle", "delete"}
         => call[c].job \in Jobs
    /\ call[c].op = "retry" => call[c].previous \in Retryable

\* runningJobs counts the live runs; what keeps its decrements above zero.
Shape == TypeOK /\ RunsNameJobs /\ CallsNameJobs
IInv == Shape /\ SlotAccounting

USE QueueAssumption

LEMMA LiveRunsFinite == IsFiniteSet(LiveRuns)
  BY FS_Subset DEF LiveRuns

LEMMA StatusFacts ==
  /\ Active \subseteq Status /\ Terminal \subseteq Status
  /\ Retryable \subseteq Status /\ Status \subseteq StatusOrAbsent
  /\ "absent" \in StatusOrAbsent
  BY DEF Active, Terminal, Retryable, Status, StatusOrAbsent

LEMMA NullFacts ==
  /\ NoEntry \in JobEntry /\ IdleRun \in RunEntry /\ IdleCall \in CallEntry
  BY DEF NoEntry, IdleRun, IdleCall, JobEntry, RunEntry, CallEntry, StatusOrAbsent

LEMMA InitShape == Init => IInv
<1> SUFFICES ASSUME Init PROVE IInv
  OBVIOUS
<1>1. TypeOK
  BY NullFacts, StatusFacts DEF Init, TypeOK
<1>2. RunsNameJobs /\ CallsNameJobs
  BY DEF Init, RunsNameJobs, CallsNameJobs, IdleRun, IdleCall
<1>3. LiveRuns = {}
  BY DEF Init, LiveRuns, IdleRun
<1>4. SlotAccounting
  BY <1>3, FS_EmptySet DEF Init, SlotAccounting
<1> QED
  BY <1>1, <1>2, <1>4 DEF IInv, Shape

\* The calls of the API leave the transfers alone.
LEMMA EnqueueShape ==
  ASSUME Shape, NEW c \in Callers, NEW j \in Jobs, NEW password \in BOOLEAN,
         Enqueue(c, j, password)
  PROVE  Shape' /\ UNCHANGED <<run, runningJobs>>
<1>1. job' \in [Jobs -> JobEntry]
  BY DEF Shape, TypeOK, Enqueue, NoEntry, JobEntry, StatusOrAbsent, Status
<1>2. ticket' \in [Jobs -> Nat]
  <2>1. Cardinality({k \in Jobs : ticket[k] > 0}) \in Nat
    BY FS_Subset, FS_CardinalityType
  <2> QED
    BY <2>1 DEF Shape, TypeOK, Enqueue
<1>3. call' \in [Callers -> CallEntry]
  BY DEF Shape, TypeOK, Enqueue, Await, CallEntry, StatusOrAbsent, Status
<1>4. CallsNameJobs'
  BY DEF Shape, TypeOK, CallsNameJobs, Enqueue, Await, CallEntry
<1> QED
  BY <1>1, <1>2, <1>3, <1>4 DEF Shape, TypeOK, RunsNameJobs, Enqueue

LEMMA RequeuedType ==
  ASSUME NEW entry \in JobEntry, NEW password \in BOOLEAN
  PROVE  Requeued(entry, password) \in JobEntry
  BY DEF Requeued, JobEntry, StatusOrAbsent, Status

LEMMA RetryShape ==
  ASSUME Shape, NEW c \in Callers, NEW j \in Jobs, NEW password \in BOOLEAN,
         Retry(c, j, password)
  PROVE  Shape' /\ UNCHANGED <<run, runningJobs>>
<1>1. job' \in [Jobs -> JobEntry]
  <2>1. job[j] \in JobEntry
    BY DEF Shape, TypeOK
  <2>2. Requeued(job[j], password) \in JobEntry
    BY <2>1, RequeuedType
  <2> QED
    BY <2>2 DEF Shape, TypeOK, Retry
<1>2. job[j].status \in StatusOrAbsent /\ job[j].status \in Retryable
  BY DEF Shape, TypeOK, Retry, JobEntry
<1>3. call' \in [Callers -> CallEntry]
  BY <1>2 DEF Shape, TypeOK, Retry, Await, CallEntry, StatusOrAbsent, Status
<1>4. CallsNameJobs'
  BY <1>2 DEF Shape, TypeOK, CallsNameJobs, Retry, Await, CallEntry
<1> QED
  BY <1>1, <1>3, <1>4 DEF Shape, TypeOK, RunsNameJobs, Retry

LEMMA WithdrawnType ==
  ASSUME NEW entry \in JobEntry, NEW s \in StatusOrAbsent
  PROVE  Withdrawn(entry, s) \in JobEntry
  BY DEF Withdrawn, JobEntry

LEMMA WithdrawShape ==
  ASSUME Shape, NEW c \in Callers, NEW j \in Jobs, NEW from,
         NEW to \in {"canceled", "paused"}, Withdraw(c, j, from, to)
  PROVE  Shape' /\ UNCHANGED <<run, runningJobs>>
<1>1. job' \in [Jobs -> JobEntry]
  BY WithdrawnType DEF Shape, TypeOK, Withdraw, StatusOrAbsent, Status
<1>2. call' \in [Callers -> CallEntry]
  BY DEF Shape, TypeOK, Withdraw, Await, CallEntry, StatusOrAbsent, Status
<1>3. CallsNameJobs'
  BY DEF Shape, TypeOK, CallsNameJobs, Withdraw, Await, CallEntry
<1> QED
  BY <1>1, <1>2, <1>3 DEF Shape, TypeOK, RunsNameJobs, Withdraw

LEMMA ForgetShape ==
  ASSUME Shape, NEW c \in Callers, NEW j \in Jobs, NEW todo \in SUBSET Jobs,
         Forget(c, j, todo)
  PROVE  /\ job' \in [Jobs -> JobEntry] /\ call' \in [Callers -> CallEntry]
         /\ CallsNameJobs'
<1>1. job' \in [Jobs -> JobEntry]
  BY NullFacts DEF Shape, TypeOK, Forget
<1>2. call' \in [Callers -> CallEntry]
  BY DEF Shape, TypeOK, Forget, CallEntry, IdleCall, StatusOrAbsent
<1>3. CallsNameJobs'
  BY DEF Shape, TypeOK, CallsNameJobs, Forget, CallEntry, IdleCall
<1> QED
  BY <1>1, <1>2, <1>3

LEMMA RemoveShape ==
  ASSUME Shape, NEW c \in Callers, NEW j \in Jobs, Remove(c, j)
  PROVE  Shape' /\ UNCHANGED <<run, runningJobs>>
  BY ForgetShape DEF Shape, TypeOK, RunsNameJobs, Remove

LEMMA ReturnShape ==
  ASSUME Shape, NEW c \in Callers, Return(c)
  PROVE  call' \in [Callers -> CallEntry] /\ CallsNameJobs'
<1>1. call' \in [Callers -> CallEntry]
  BY NullFacts DEF Shape, TypeOK, Return
<1>2. CallsNameJobs'
  BY DEF Shape, TypeOK, CallsNameJobs, Return, CallEntry, IdleCall
<1> QED
  BY <1>1, <1>2

LEMMA ClearFinishedShape ==
  ASSUME Shape, NEW c \in Callers, ClearFinished(c)
  PROVE  Shape' /\ UNCHANGED <<run, runningJobs>>
<1>1. call' \in [Callers -> CallEntry]
  BY DEF Shape, TypeOK, ClearFinished, CallEntry, IdleCall, StatusOrAbsent
<1>2. CallsNameJobs'
  BY DEF Shape, TypeOK, CallsNameJobs, ClearFinished, CallEntry, IdleCall
<1> QED
  BY <1>1, <1>2 DEF Shape, TypeOK, RunsNameJobs, ClearFinished

LEMMA ClearNextShape ==
  ASSUME Shape, NEW c \in Callers, NEW j \in Jobs, ClearNext(c, j)
  PROVE  Shape' /\ UNCHANGED <<run, runningJobs>>
<1> DEFINE rest == call[c].todo \ {j}
<1>1. rest \in SUBSET Jobs
  BY DEF Shape, TypeOK, CallEntry
<1>2. /\ job' \in [Jobs -> JobEntry] /\ call' \in [Callers -> CallEntry]
      /\ CallsNameJobs'
  <2>1. CASE Forget(c, j, rest)
    BY <1>1, <2>1, ForgetShape
  <2>2. CASE /\ call' = [call EXCEPT ![c] = IF rest = {} THEN IdleCall
                                             ELSE [@ EXCEPT !.todo = rest]]
             /\ UNCHANGED job
    <3>1. call' \in [Callers -> CallEntry]
      BY <1>1, <2>2, NullFacts DEF Shape, TypeOK, CallEntry
    <3>2. CallsNameJobs'
      BY <2>2 DEF Shape, TypeOK, CallsNameJobs, ClearNext, CallEntry, IdleCall
    <3> QED
      BY <2>2, <3>1, <3>2 DEF Shape, TypeOK
  <2>3. CASE Return(c) /\ UNCHANGED job
    BY <2>3, ReturnShape DEF Shape, TypeOK
  <2> QED
    BY <2>1, <2>2, <2>3 DEF ClearNext
<1> QED
  BY <1>2 DEF Shape, TypeOK, RunsNameJobs, ClearNext

LEMMA SaveType ==
  ASSUME Shape, NEW j \in Jobs, NEW s \in StatusOrAbsent, Save(j, s)
  PROVE  disk' \in [Jobs -> StatusOrAbsent]
  BY DEF Shape, TypeOK, Save

LEMMA SpawnType ==
  ASSUME Shape, SpawnDispatcher PROVE dispatchers' \in Nat
  BY DEF Shape, TypeOK, SpawnDispatcher

\* Whatever the store answers, the transfers are left alone.
LEMMA StoreAnswersShape ==
  ASSUME Shape, NEW c \in Callers, StoreAnswers(c)
  PROVE  Shape' /\ UNCHANGED <<run, runningJobs>>
<1>1. CASE \E j \in Jobs : ClearNext(c, j)
  BY <1>1, ClearNextShape
<1>2. CASE EnqueueSaved(c) \/ RetrySaved(c)
  <2>1. call[c].job \in Jobs
    BY <1>2 DEF Shape, CallsNameJobs, EnqueueSaved, RetrySaved
  <2>2. disk' \in [Jobs -> StatusOrAbsent]
    BY <1>2 DEF Shape, TypeOK, EnqueueSaved, RetrySaved, StatusOrAbsent, Status
  <2>3. call' \in [Callers -> CallEntry] /\ CallsNameJobs'
    BY <1>2, ReturnShape DEF EnqueueSaved, RetrySaved
  <2>4. dispatchers' \in Nat
    BY <1>2, SpawnType DEF EnqueueSaved, RetrySaved
  <2> QED
    BY <1>2, <2>2, <2>3, <2>4
    DEF Shape, TypeOK, RunsNameJobs, EnqueueSaved, RetrySaved
<1>3. CASE EnqueueSaveFailed(c)
  <2>1. job' \in [Jobs -> JobEntry]
    BY <1>3, NullFacts DEF Shape, TypeOK, EnqueueSaveFailed
  <2>2. call' \in [Callers -> CallEntry] /\ CallsNameJobs'
    BY <1>3, ReturnShape DEF EnqueueSaveFailed
  <2> QED
    BY <1>3, <2>1, <2>2 DEF Shape, TypeOK, RunsNameJobs, EnqueueSaveFailed
<1>4. CASE RetrySaveFailed(c)
  <2>1. call[c].job \in Jobs /\ call[c].previous \in StatusOrAbsent
    BY <1>4 DEF Shape, TypeOK, CallsNameJobs, RetrySaveFailed, CallEntry
  <2>2. Withdrawn(job[call[c].job], call[c].previous) \in JobEntry
    BY <2>1, WithdrawnType DEF Shape, TypeOK
  <2>3. job' \in [Jobs -> JobEntry]
    BY <1>4, <2>1, <2>2 DEF Shape, TypeOK, RetrySaveFailed
  <2>4. call' \in [Callers -> CallEntry] /\ CallsNameJobs'
    BY <1>4, ReturnShape DEF RetrySaveFailed
  <2> QED
    BY <1>4, <2>3, <2>4 DEF Shape, TypeOK, RunsNameJobs, RetrySaveFailed
<1>5. CASE SettleSaved(c)
  <2>1. call[c].job \in Jobs /\ call[c].saved \in StatusOrAbsent
    BY <1>5 DEF Shape, TypeOK, CallsNameJobs, SettleSaved, CallEntry
  <2>2. disk' \in [Jobs -> StatusOrAbsent]
    BY <1>5, <2>1, SaveType DEF SettleSaved
  <2>3. call' \in [Callers -> CallEntry] /\ CallsNameJobs'
    BY <1>5, ReturnShape DEF SettleSaved
  <2> QED
    BY <1>5, <2>2, <2>3 DEF Shape, TypeOK, RunsNameJobs, SettleSaved
<1>6. CASE Deleted(c)
  <2>1. call[c].job \in Jobs /\ call[c].todo \in SUBSET Jobs
    BY <1>6 DEF Shape, TypeOK, CallsNameJobs, Deleted, CallEntry
  <2>2. disk' \in [Jobs -> StatusOrAbsent]
    BY <1>6, <2>1 DEF Shape, TypeOK, Deleted, StatusOrAbsent
  <2>3. call' \in [Callers -> CallEntry]
    <3>1. CASE Return(c)
      BY <3>1, ReturnShape
    <3>2. CASE call' = [call EXCEPT ![c] =
             [IdleCall EXCEPT !.op = IF call[c].todo = {} THEN "idle" ELSE "clear",
                              !.todo = call[c].todo]]
      BY <2>1, <3>2 DEF Shape, TypeOK, CallEntry, IdleCall, StatusOrAbsent
    <3> QED
      BY <1>6, <3>1, <3>2 DEF Deleted
  <2>4. CallsNameJobs'
    <3>1. CASE Return(c)
      BY <3>1, ReturnShape
    <3>2. CASE call' = [call EXCEPT ![c] =
             [IdleCall EXCEPT !.op = IF call[c].todo = {} THEN "idle" ELSE "clear",
                              !.todo = call[c].todo]]
      <4>1. call'[c].op \in {"idle", "clear"}
        BY <3>2 DEF Shape, TypeOK, IdleCall
      <4>2. \A d \in Callers : d # c => call'[d] = call[d]
        BY <3>2 DEF Shape, TypeOK
      <4> QED
        BY <4>1, <4>2 DEF Shape, CallsNameJobs
    <3> QED
      BY <1>6, <3>1, <3>2 DEF Deleted
  <2> QED
    BY <1>6, <2>2, <2>3, <2>4 DEF Shape, TypeOK, RunsNameJobs, Deleted
<1> QED
  BY <1>1, <1>2, <1>3, <1>4, <1>5, <1>6 DEF StoreAnswers

LEMMA UserShape ==
  ASSUME Shape, NEW c \in Callers, User(c)
  PROVE  Shape' /\ UNCHANGED <<run, runningJobs>>
<1>1. ASSUME NEW j \in Jobs, CancelWaiting(c, j)
      PROVE  Shape' /\ UNCHANGED <<run, runningJobs>>
  BY <1>1, WithdrawShape DEF CancelWaiting
<1>2. ASSUME NEW j \in Jobs, PauseWaiting(c, j)
      PROVE  Shape' /\ UNCHANGED <<run, runningJobs>>
  BY <1>2, WithdrawShape DEF PauseWaiting
<1> QED
  BY <1>1, <1>2, EnqueueShape, RetryShape, RemoveShape, ClearFinishedShape
  DEF User

-----------------------------------------------------------------------------
(***************************************************************************)
(* Steps that touch the transfers.                                         *)
(***************************************************************************)
LEMMA CancelledType ==
  ASSUME NEW entry \in RunEntry
  PROVE  [entry EXCEPT !.cancelled = TRUE] \in RunEntry
  BY DEF RunEntry

LEMMA StopRunningShape ==
  ASSUME Shape, NEW j \in Jobs, NEW from, NEW entry \in JobEntry,
         StopRunning(j, from, entry)
  PROVE  Shape' /\ LiveRuns' = LiveRuns /\ UNCHANGED runningJobs
<1>1. job' \in [Jobs -> JobEntry]
  BY DEF Shape, TypeOK, StopRunning
<1>2. \A r \in Runs : [run[r] EXCEPT !.cancelled = TRUE] \in RunEntry
  BY CancelledType DEF Shape, TypeOK
<1>3. /\ run' \in [Runs -> RunEntry]
      /\ \A r \in Runs : run'[r].phase = run[r].phase /\ run'[r].job = run[r].job
  <2>1. CASE job[j].cancel \in Runs
    BY <1>2, <2>1 DEF Shape, TypeOK, StopRunning, CancelContext, RunEntry
  <2>2. CASE job[j].cancel \notin Runs
    BY <2>2 DEF Shape, TypeOK, StopRunning, CancelContext
  <2> QED
    BY <2>1, <2>2
<1>4. LiveRuns' = LiveRuns
  BY <1>3 DEF LiveRuns
<1> QED
  BY <1>1, <1>3, <1>4
  DEF Shape, TypeOK, RunsNameJobs, CallsNameJobs, StopRunning

LEMMA StopShape ==
  ASSUME Shape, NEW j \in Jobs, CancelRunning(j) \/ PauseRunning(j)
  PROVE  Shape' /\ LiveRuns' = LiveRuns /\ UNCHANGED runningJobs
<1>1. job[j] \in JobEntry
  BY DEF Shape, TypeOK
<1>2. Cancelling(job[j]) \in JobEntry /\ Pausing(job[j]) \in JobEntry
  BY <1>1 DEF Cancelling, Pausing, JobEntry, StatusOrAbsent, Status
<1> QED
  BY <1>2, StopRunningShape DEF CancelRunning, PauseRunning

LEMMA CloseShape ==
  ASSUME Shape, Close
  PROVE  Shape' /\ LiveRuns' = LiveRuns /\ UNCHANGED runningJobs
<1>1. job' \in [Jobs -> JobEntry]
  <2>1. ASSUME NEW entry \in JobEntry
        PROVE  [entry EXCEPT !.password = FALSE] \in JobEntry
    BY DEF JobEntry
  <2> QED
    BY <2>1 DEF Shape, TypeOK, Close
<1>2. run' \in [Runs -> RunEntry]
  BY CancelledType DEF Shape, TypeOK, Close
<1>3. \A r \in Runs : run'[r].phase = run[r].phase /\ run'[r].job = run[r].job
  BY DEF Shape, TypeOK, Close, RunEntry
<1>4. LiveRuns' = LiveRuns
  BY <1>3 DEF LiveRuns
<1> QED
  BY <1>1, <1>2, <1>3, <1>4
  DEF Shape, TypeOK, RunsNameJobs, CallsNameJobs, Close

\* The goroutine goes on without giving back its slot.
LEMMA RunAdvancesShape ==
  ASSUME Shape, NEW r \in Runs, RunSaved(r) \/ BeginRun(r) \/ RunRecorded(r)
  PROVE  Shape' /\ LiveRuns' = LiveRuns /\ UNCHANGED runningJobs
<1>1. run[r].job \in Jobs /\ run[r].saved \in StatusOrAbsent
  BY DEF Shape, TypeOK, RunsNameJobs, RunSaved, BeginRun, RunRecorded, RunEntry
<1>2. disk' \in [Jobs -> StatusOrAbsent]
  BY <1>1, SaveType DEF Shape, TypeOK, RunSaved, BeginRun, RunRecorded
<1>3. dispatchers' \in Nat
  BY SpawnType DEF Shape, TypeOK, RunSaved, BeginRun, RunRecorded
<1>4. run' \in [Runs -> RunEntry]
  BY NullFacts DEF Shape, TypeOK, RunSaved, BeginRun, RunRecorded, RunEntry
<1>5. RunsNameJobs'
  BY <1>1 DEF Shape, TypeOK, RunsNameJobs, RunSaved, BeginRun, RunRecorded,
              RunEntry, IdleRun
<1>6. LiveRuns' = LiveRuns
  BY DEF Shape, TypeOK, LiveRuns, RunSaved, BeginRun, RunRecorded, RunEntry,
         IdleRun
<1> QED
  BY <1>2, <1>3, <1>4, <1>5, <1>6
  DEF Shape, TypeOK, CallsNameJobs, RunSaved, BeginRun, RunRecorded

\* A dispatch adds one live run.
LEMMA DispatchInv ==
  ASSUME IInv, NEW r \in Runs, NEW j \in Jobs, Dispatch(r, j)
  PROVE  IInv'
<1>1. job' \in [Jobs -> JobEntry]
  <2>1. ASSUME NEW entry \in JobEntry PROVE Started(entry, r) \in JobEntry
    BY DEF Started, JobEntry, StatusOrAbsent, Status
  <2> QED
    BY <2>1 DEF IInv, Shape, TypeOK, Dispatch
<1>2. run' \in [Runs -> RunEntry]
  BY DEF IInv, Shape, TypeOK, Dispatch, RunEntry, StatusOrAbsent, Status
<1>3. RunsNameJobs'
  BY DEF IInv, Shape, TypeOK, RunsNameJobs, Dispatch, RunEntry
<1>4. LiveRuns' = LiveRuns \cup {r} /\ r \notin LiveRuns
  BY DEF IInv, Shape, TypeOK, LiveRuns, Dispatch, IdleRun
<1>5. Cardinality(LiveRuns') = Cardinality(LiveRuns) + 1
  BY <1>4, LiveRunsFinite, FS_AddElement
<1>6. SlotAccounting'
  BY <1>5 DEF IInv, Shape, TypeOK, SlotAccounting, Dispatch, MayDispatch
<1>7. dispatchers' \in Nat /\ runningJobs' \in Nat /\ wakeLock' \in BOOLEAN
  BY DEF IInv, Shape, TypeOK, Dispatch
<1> QED
  BY <1>1, <1>2, <1>3, <1>6, <1>7
  DEF IInv, Shape, TypeOK, CallsNameJobs, Dispatch

\* Giving a slot back: one live run fewer, one off the counter.
LEMMA ReleaseCounts ==
  ASSUME IInv, NEW r \in LiveRuns, LiveRuns' = LiveRuns \ {r},
         \/ ReleaseSlot
         \/ runningJobs' = runningJobs - 1
  PROVE  SlotAccounting' /\ runningJobs' \in Nat
<1>1. Cardinality(LiveRuns') = Cardinality(LiveRuns) - 1
  BY LiveRunsFinite, FS_RemoveElement
<1>2. Cardinality(LiveRuns) \in Nat \ {0}
  BY LiveRunsFinite, FS_EmptySet, FS_CardinalityType
<1>3. runningJobs \in Nat \ {0} /\ runningJobs <= MaxConcurrent
  BY <1>2 DEF IInv, SlotAccounting
<1>4. runningJobs' = runningJobs - 1
  BY <1>3 DEF ReleaseSlot
<1> QED
  BY <1>1, <1>3, <1>4 DEF IInv, SlotAccounting

LEMMA AbandonRunInv ==
  ASSUME IInv, NEW r \in Runs, AbandonRun(r) \/ FinishForgotten(r)
  PROVE  IInv'
<1>1. r \in LiveRuns /\ LiveRuns' = LiveRuns \ {r}
  BY DEF IInv, Shape, TypeOK, LiveRuns, AbandonRun, FinishForgotten, IdleRun
<1>2. SlotAccounting' /\ runningJobs' \in Nat
  BY <1>1, ReleaseCounts DEF AbandonRun, FinishForgotten
<1>3. run' \in [Runs -> RunEntry] /\ RunsNameJobs'
  <2>1. run' = [run EXCEPT ![r] = IdleRun]
    BY DEF AbandonRun, FinishForgotten
  <2>2. run' \in [Runs -> RunEntry]
    BY <2>1, NullFacts DEF IInv, Shape, TypeOK
  <2>3. RunsNameJobs'
    BY <2>1 DEF IInv, Shape, TypeOK, RunsNameJobs, IdleRun
  <2> QED
    BY <2>2, <2>3
<1>4. dispatchers' \in Nat /\ wakeLock' \in BOOLEAN
  BY SpawnType DEF IInv, Shape, TypeOK, AbandonRun, FinishForgotten, ReleaseSlot
<1> QED
  BY <1>2, <1>3, <1>4
  DEF IInv, Shape, TypeOK, CallsNameJobs, AbandonRun, FinishForgotten

LEMMA FinalStatusType ==
  ASSUME NEW entry \in JobEntry, NEW outcome \in Outcomes
  PROVE  FinalStatus(entry, outcome) \in Status
<1>1. outcome \in {"ok", "interrupted", "failed"}
  OBVIOUS
<1>2. entry.pauseRequested \in BOOLEAN /\ entry.cancelRequested \in BOOLEAN
  BY DEF JobEntry
<1> QED
  BY <1>1, <1>2 DEF FinalStatus, Status

LEMMA FinishRunInv ==
  ASSUME IInv, NEW r \in Runs, NEW outcome \in Outcomes, FinishRun(r, outcome)
  PROVE  IInv'
<1> DEFINE j == run[r].job
<1>1. j \in Jobs /\ job[j] \in JobEntry
  BY DEF IInv, Shape, TypeOK, RunsNameJobs, FinishRun
<1>2. FinalStatus(job[j], outcome) \in StatusOrAbsent
  BY <1>1, FinalStatusType DEF StatusOrAbsent
<1>3. job' \in [Jobs -> JobEntry]
  <2>1. Finished(job[j], outcome) \in JobEntry
    BY <1>1, <1>2 DEF Finished, JobEntry
  <2> QED
    BY <2>1 DEF IInv, Shape, TypeOK, FinishRun
<1>4. run' \in [Runs -> RunEntry] /\ RunsNameJobs'
  BY <1>1, <1>2 DEF IInv, Shape, TypeOK, RunsNameJobs, FinishRun, RunEntry
<1>5. r \in LiveRuns /\ LiveRuns' = LiveRuns \ {r}
  BY DEF IInv, Shape, TypeOK, LiveRuns, FinishRun
<1>6. SlotAccounting' /\ runningJobs' \in Nat
  BY <1>5, ReleaseCounts DEF FinishRun
<1>7. completed' \in SUBSET Jobs /\ wakeLock' \in BOOLEAN
  BY <1>1 DEF IInv, Shape, TypeOK, FinishRun, ReleaseSlot
<1> QED
  BY <1>3, <1>4, <1>6, <1>7 DEF IInv, Shape, TypeOK, CallsNameJobs, FinishRun

LEMMA DownInv ==
  ASSUME IInv, Down
  PROVE  IInv'
<1>1. /\ job' \in [Jobs -> JobEntry] /\ run' \in [Runs -> RunEntry]
      /\ call' \in [Callers -> CallEntry]
  BY NullFacts DEF Down
<1>2. RunsNameJobs' /\ CallsNameJobs'
  BY DEF Down, RunsNameJobs, CallsNameJobs, IdleRun, IdleCall
<1>3. LiveRuns' = {}
  BY DEF Down, LiveRuns, IdleRun
<1>4. SlotAccounting'
  BY <1>3, FS_EmptySet DEF Down, SlotAccounting
<1> QED
  BY <1>1, <1>2, <1>4 DEF IInv, Shape, TypeOK, Down

LEMMA RestartShape ==
  ASSUME Shape, Restart
  PROVE  Shape' /\ UNCHANGED <<run, runningJobs>>
<1>1. \A j \in Jobs : Restored(j) \in StatusOrAbsent
  BY DEF Shape, TypeOK, Restored, StatusOrAbsent, Status
<1>2. job' \in [Jobs -> JobEntry] /\ disk' \in [Jobs -> StatusOrAbsent]
  <2>1. \A j \in Jobs : [NoEntry EXCEPT !.status = Restored(j)] \in JobEntry
    BY <1>1 DEF NoEntry, JobEntry
  <2> QED
    BY <1>1, <2>1 DEF Shape, TypeOK, Restart
<1> QED
  BY <1>2 DEF Shape, TypeOK, RunsNameJobs, CallsNameJobs, Restart

LEMMA QuietStep ==
  ASSUME IInv, Shape', LiveRuns' = LiveRuns, UNCHANGED runningJobs
  PROVE  IInv'
  BY DEF IInv, SlotAccounting

LEMMA UnchangedRuns == ASSUME UNCHANGED run PROVE LiveRuns' = LiveRuns
  BY DEF LiveRuns

\* The inductive step: one case per disjunct of Next.
LEMMA NextInv == IInv /\ [Next]_vars => IInv'
<1> SUFFICES ASSUME IInv, [Next]_vars PROVE IInv'
  OBVIOUS
<1>0. Shape
  BY DEF IInv
<1>1. ASSUME NEW c \in Callers, User(c) \/ StoreAnswers(c) PROVE IInv'
  BY <1>0, <1>1, UserShape, StoreAnswersShape, UnchangedRuns, QuietStep
<1>2. ASSUME NEW j \in Jobs, CancelRunning(j) \/ PauseRunning(j) PROVE IInv'
  BY <1>0, <1>2, StopShape, QuietStep
<1>3. ASSUME NEW r \in Runs, TransferReturns(r) PROVE IInv'
  BY <1>3, FinishRunInv, AbandonRunInv DEF TransferReturns
<1>4. ASSUME NEW r \in Runs, RunAdvances(r) PROVE IInv'
  BY <1>0, <1>4, RunAdvancesShape, AbandonRunInv, QuietStep DEF RunAdvances
<1>5. CASE Dispatcher
  <2>1. ASSUME NEW r \in Runs, NEW j \in Jobs, Dispatch(r, j) PROVE IInv'
    BY <2>1, DispatchInv
  <2>2. ASSUME DispatcherReturns PROVE IInv'
    <3>1. Shape' /\ UNCHANGED <<run, runningJobs>>
      BY <1>0, <2>2
      DEF Shape, TypeOK, RunsNameJobs, CallsNameJobs, DispatcherReturns
    <3> QED
      BY <3>1, UnchangedRuns, QuietStep
  <2> QED
    BY <1>5, <2>1, <2>2 DEF Dispatcher
<1>6. CASE BeginLegacy \/ EndLegacy
  <2>1. Shape' /\ UNCHANGED <<run, runningJobs>>
    BY <1>0, <1>6
    DEF Shape, TypeOK, RunsNameJobs, CallsNameJobs, BeginLegacy, EndLegacy
  <2> QED
    BY <2>1, UnchangedRuns, QuietStep
<1>7. CASE Close
  BY <1>0, <1>7, CloseShape, QuietStep
<1>8. CASE Exit \/ Crash
  BY <1>8, DownInv DEF Exit, Crash
<1>9. CASE Restart
  BY <1>0, <1>9, RestartShape, UnchangedRuns, QuietStep
<1>10. CASE UNCHANGED vars
  <2>1. Shape' /\ UNCHANGED <<run, runningJobs>>
    BY <1>0, <1>10 DEF Shape, TypeOK, RunsNameJobs, CallsNameJobs, vars
  <2> QED
    BY <2>1, UnchangedRuns, QuietStep
<1> QED
  BY <1>1, <1>2, <1>3, <1>4, <1>5, <1>6, <1>7, <1>8, <1>9, <1>10 DEF Next

THEOREM Inductive == Spec => []IInv
  BY InitShape, NextInv, PTL DEF Spec

\* Every behaviour of the scheduler keeps its state well formed: in particular
\* runningJobs never drops below zero (jobs.go:490 decrements unguarded).
THEOREM TypeCorrect == Spec => []TypeOK
<1>1. IInv => TypeOK
  BY DEF IInv, Shape
<1> QED
  BY <1>1, Inductive, PTL

\* The counter of dispatchJobs and finishJob is exact and never exceeds
\* maxJobs, with any number of jobs and goroutines, and with crashes and store
\* failures at any point.
THEOREM SlotsExact == Spec => []SlotAccounting
<1>1. IInv => SlotAccounting
  BY DEF IInv
<1> QED
  BY <1>1, Inductive, PTL

-----------------------------------------------------------------------------
(***************************************************************************)
(* Secrets.  Every step that writes an entry leaves it disciplined; the    *)
(* rest of the proof is bookkeeping of which entries a step writes.        *)
(***************************************************************************)
Disciplined(j, entry, isClosed) ==
  /\ entry.password => entry.status = "queued"
  /\ (j \in PasswordJobs /\ entry.status = "queued" /\ ~isClosed)
       => entry.password

LEMMA DisciplineByEntry ==
  PasswordDiscipline <=> \A j \in Jobs : Disciplined(j, job[j], closed)
  BY DEF PasswordDiscipline, Disciplined

\* One entry is written, Service.closed is not.
LEMMA OneEntryWritten ==
  ASSUME Shape, PasswordDiscipline, NEW j \in Jobs, NEW entry,
         job' = [job EXCEPT ![j] = entry], UNCHANGED closed,
         Disciplined(j, entry, closed)
  PROVE  PasswordDiscipline'
<1>1. \A k \in Jobs : job'[k] = IF k = j THEN entry ELSE job[k]
  BY DEF Shape, TypeOK
<1> QED
  BY <1>1 DEF PasswordDiscipline, Disciplined

LEMMA NotQueuedNoSecret ==
  ASSUME NEW j, NEW entry, NEW isClosed,
         entry.password = FALSE, entry.status # "queued"
  PROVE  Disciplined(j, entry, isClosed)
  BY DEF Disciplined

LEMMA NoEntryFields == NoEntry.password = FALSE /\ NoEntry.status = "absent"
  BY DEF NoEntry

LEMMA WithdrawnFields ==
  ASSUME NEW entry \in JobEntry, NEW s
  PROVE  Withdrawn(entry, s).password = FALSE /\ Withdrawn(entry, s).status = s
  BY DEF Withdrawn, JobEntry

LEMMA UserDiscipline ==
  ASSUME Shape, PasswordDiscipline, NEW c \in Callers, User(c)
  PROVE  PasswordDiscipline'
<1>0. ASSUME NEW j \in Jobs PROVE job[j] \in JobEntry
  BY DEF Shape, TypeOK
<1>1. ASSUME NEW j \in Jobs, NEW password \in BOOLEAN, Enqueue(c, j, password)
      PROVE  PasswordDiscipline'
  <2> DEFINE entry == [NoEntry EXCEPT !.status = "queued", !.password = password]
  <2>1. entry.status = "queued" /\ entry.password = password
    BY DEF NoEntry
  <2>2. Disciplined(j, entry, closed)
    BY <1>1, <2>1 DEF Disciplined, Enqueue
  <2> QED
    BY <1>1, <2>2, OneEntryWritten DEF Enqueue
<1>2. ASSUME NEW j \in Jobs, NEW password \in BOOLEAN, Retry(c, j, password)
      PROVE  PasswordDiscipline'
  <2> DEFINE entry == Requeued(job[j], password)
  <2>1. entry.status = "queued" /\ entry.password = password
    BY <1>0 DEF Requeued, JobEntry
  <2>2. Disciplined(j, entry, closed)
    BY <1>2, <2>1 DEF Disciplined, Retry
  <2> QED
    BY <1>2, <2>2, OneEntryWritten DEF Retry
<1>3. ASSUME NEW j \in Jobs, CancelWaiting(c, j) \/ PauseWaiting(c, j)
      PROVE  PasswordDiscipline'
  <2>1. PICK to \in {"canceled", "paused"} :
          job' = [job EXCEPT ![j] = Withdrawn(job[j], to)] /\ UNCHANGED closed
    BY <1>3 DEF CancelWaiting, PauseWaiting, Withdraw
  <2>2. Disciplined(j, Withdrawn(job[j], to), closed)
    BY <1>0, WithdrawnFields, NotQueuedNoSecret
  <2> QED
    BY <2>1, <2>2, OneEntryWritten
<1>4. ASSUME NEW j \in Jobs, Remove(c, j)
      PROVE  PasswordDiscipline'
  <2>1. Disciplined(j, NoEntry, closed)
    BY NoEntryFields, NotQueuedNoSecret
  <2> QED
    BY <1>4, <2>1, OneEntryWritten DEF Remove, Forget
<1>5. CASE ClearFinished(c)
  BY <1>5 DEF ClearFinished, PasswordDiscipline
<1> QED
  BY <1>1, <1>2, <1>3, <1>4, <1>5 DEF User

LEMMA StoreAnswersDiscipline ==
  ASSUME Shape, PasswordDiscipline, NEW c \in Callers, StoreAnswers(c)
  PROVE  PasswordDiscipline'
<1>1. ASSUME NEW j \in Jobs, ClearNext(c, j) PROVE PasswordDiscipline'
  <2>1. CASE Forget(c, j, call[c].todo \ {j})
    <3>1. Disciplined(j, NoEntry, closed)
      BY NoEntryFields, NotQueuedNoSecret
    <3> QED
      BY <1>1, <2>1, <3>1, OneEntryWritten DEF ClearNext, Forget
  <2>2. CASE UNCHANGED job
    BY <1>1, <2>2 DEF ClearNext, PasswordDiscipline
  <2> QED
    BY <1>1, <2>1, <2>2 DEF ClearNext
<1>2. CASE EnqueueSaved(c) \/ RetrySaved(c) \/ SettleSaved(c) \/ Deleted(c)
  BY <1>2
  DEF EnqueueSaved, RetrySaved, SettleSaved, Deleted, PasswordDiscipline
<1>3. CASE EnqueueSaveFailed(c)
  <2>1. call[c].job \in Jobs
    BY <1>3 DEF Shape, CallsNameJobs, EnqueueSaveFailed
  <2>2. Disciplined(call[c].job, NoEntry, closed)
    BY NoEntryFields, NotQueuedNoSecret
  <2> QED
    BY <1>3, <2>1, <2>2, OneEntryWritten DEF EnqueueSaveFailed
<1>4. CASE RetrySaveFailed(c)
  <2> DEFINE j == call[c].job
  <2>1. j \in Jobs /\ call[c].previous \in Retryable
    BY <1>4 DEF Shape, CallsNameJobs, RetrySaveFailed
  <2>2. CASE job[j].status = "absent"
    <3>1. job' = job
      BY <1>4, <2>1, <2>2 DEF Shape, TypeOK, RetrySaveFailed
    <3> QED
      BY <1>4, <3>1 DEF RetrySaveFailed, PasswordDiscipline
  <2>3. CASE job[j].status # "absent"
    <3>1. job' = [job EXCEPT ![j] = Withdrawn(job[j], call[c].previous)]
      BY <1>4, <2>1, <2>3 DEF Shape, TypeOK, RetrySaveFailed
    <3>2. call[c].previous # "queued"
      BY <2>1 DEF Retryable
    <3>3. job[j] \in JobEntry
      BY <2>1 DEF Shape, TypeOK
    <3>4. Disciplined(j, Withdrawn(job[j], call[c].previous), closed)
      BY <3>2, <3>3, WithdrawnFields, NotQueuedNoSecret
    <3> QED
      BY <1>4, <2>1, <3>1, <3>4, OneEntryWritten DEF RetrySaveFailed
  <2> QED
    BY <2>2, <2>3
<1> QED
  BY <1>1, <1>2, <1>3, <1>4 DEF StoreAnswers

LEMMA TransferDiscipline ==
  ASSUME Shape, PasswordDiscipline, NEW r \in Runs,
         TransferReturns(r) \/ RunAdvances(r)
  PROVE  PasswordDiscipline'
<1>1. ASSUME NEW outcome \in Outcomes, FinishRun(r, outcome)
      PROVE  PasswordDiscipline'
  <2> DEFINE j == run[r].job
  <2>1. j \in Jobs /\ job[j] \in JobEntry
    BY <1>1 DEF Shape, TypeOK, RunsNameJobs, FinishRun
  <2>2. FinalStatus(job[j], outcome) # "queued"
    <3>1. outcome \in {"ok", "interrupted", "failed"}
      OBVIOUS
    <3> QED
      BY <2>1, <3>1 DEF FinalStatus, JobEntry
  <2>3. Disciplined(j, Finished(job[j], outcome), closed)
    BY <2>1, <2>2 DEF Disciplined, Finished, JobEntry
  <2> QED
    BY <1>1, <2>1, <2>3, OneEntryWritten DEF FinishRun
<1>2. CASE FinishForgotten(r) \/ RunAdvances(r)
  BY <1>2 DEF FinishForgotten, RunAdvances, RunSaved, BeginRun, AbandonRun,
              RunRecorded, PasswordDiscipline
<1> QED
  BY <1>1, <1>2 DEF TransferReturns

LEMMA DispatchDiscipline ==
  ASSUME Shape, PasswordDiscipline, Dispatcher
  PROVE  PasswordDiscipline'
<1>1. ASSUME NEW r \in Runs, NEW j \in Jobs, Dispatch(r, j)
      PROVE  PasswordDiscipline'
  <2>1. job[j] \in JobEntry
    BY DEF Shape, TypeOK
  <2>2. Disciplined(j, Started(job[j], r), closed)
    BY <2>1 DEF Disciplined, Started, JobEntry
  <2> QED
    BY <1>1, <2>2, OneEntryWritten DEF Dispatch
<1> QED
  BY <1>1 DEF Dispatcher, DispatcherReturns, PasswordDiscipline

LEMMA StopDiscipline ==
  ASSUME Shape, PasswordDiscipline, NEW j \in Jobs,
         CancelRunning(j) \/ PauseRunning(j)
  PROVE  PasswordDiscipline'
<1>0. job[j] \in JobEntry
  BY DEF Shape, TypeOK
<1>1. job[j].password = FALSE
  BY <1>0 DEF PasswordDiscipline, CancelRunning, PauseRunning, StopRunning,
              Active, JobEntry
<1>2. PICK entry \in {Cancelling(job[j]), Pausing(job[j])} :
        job' = [job EXCEPT ![j] = entry] /\ UNCHANGED closed
  BY DEF CancelRunning, PauseRunning, StopRunning
<1>3. entry.password = FALSE /\ entry.status # "queued"
  BY <1>0, <1>1, <1>2 DEF Cancelling, Pausing, JobEntry
<1>4. Disciplined(j, entry, closed)
  BY <1>3, NotQueuedNoSecret
<1> QED
  BY <1>2, <1>4, OneEntryWritten

\* The whole map is written: Close clears every secret, the end of the process
\* forgets them, and nothing that is restored is queued.
LEMMA ProcessDiscipline ==
  ASSUME Shape, PasswordDiscipline, Close \/ Exit \/ Crash \/ Restart
  PROVE  PasswordDiscipline'
<1>1. CASE Close
  BY <1>1 DEF Shape, TypeOK, Close, PasswordDiscipline, JobEntry
<1>2. CASE Exit \/ Crash
  BY <1>2, NoEntryFields DEF Exit, Crash, Down, PasswordDiscipline
<1>3. CASE Restart
  <2>1. CASE UNCHANGED <<job, disk>>
    BY <1>3, <2>1 DEF Restart, PasswordDiscipline
  <2>2. CASE job' = [j \in Jobs |-> [NoEntry EXCEPT !.status = Restored(j)]]
    <3>1. \A j \in Jobs : Restored(j) # "queued"
      BY DEF Restored, Unfinished
    <3>2. \A j \in Jobs : job'[j].password = FALSE /\ job'[j].status # "queued"
      BY <2>2, <3>1 DEF NoEntry
    <3> QED
      BY <3>2 DEF PasswordDiscipline
  <2> QED
    BY <1>3, <2>1, <2>2 DEF Restart
<1> QED
  BY <1>1, <1>2, <1>3

LEMMA DisciplineStep ==
  Shape /\ PasswordDiscipline /\ [Next]_vars => PasswordDiscipline'
<1> SUFFICES ASSUME Shape, PasswordDiscipline, [Next]_vars
             PROVE  PasswordDiscipline'
  OBVIOUS
<1>1. CASE UNCHANGED vars \/ BeginLegacy \/ EndLegacy
  BY <1>1 DEF vars, BeginLegacy, EndLegacy, PasswordDiscipline
<1> QED
  BY <1>1, UserDiscipline, StoreAnswersDiscipline, TransferDiscipline,
     DispatchDiscipline, StopDiscipline, ProcessDiscipline
  DEF Next

\* A password is in memory only while its job waits in the queue, and a
\* password job in an open queue has one; Cancel, Pause, the rollback of a
\* retry, Close, crashes and restarts included.
THEOREM SecretsDisciplined == Spec => []PasswordDiscipline
<1>1. Init => PasswordDiscipline
  BY NoEntryFields DEF Init, PasswordDiscipline
<1>2. IInv => Shape
  BY DEF IInv
<1> QED
  BY <1>1, <1>2, DisciplineStep, Inductive, PTL DEF Spec

=============================================================================
