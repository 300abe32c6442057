--------------------------- MODULE TransferQueue ---------------------------
(***************************************************************************)
(* The desktop transfer scheduler: src/internal/desktop/jobs.go, with the  *)
(* parts of service.go that share its mutex (the legacy StartTransfer path *)
(* and Close) and the job list of state.go it persists to.                 *)
(*                                                                         *)
(* Every critical section of Service.mu is one step.  What the code does   *)
(* after it unlocks is a later step of the same goroutine: the call that   *)
(* entered the scheduler waits for its store write in call[c], a           *)
(* dispatched transfer waits in run[r].  A store write is atomic (a fsynced *)
(* temporary file renamed over the old one), so it is one step too.        *)
(***************************************************************************)
EXTENDS Naturals, FiniteSets

CONSTANTS
  Jobs,            \* job identifiers; randomID never returns one twice
  PasswordJobs,    \* the jobs that authenticate with a password
  Runs,            \* names for the goroutines that carry a dispatched job
  Callers,         \* names for the API calls that are in flight at one time
  NoJob, NoRun,    \* null values
  MaxConcurrent,   \* Service.maxJobs
  MaxJobs,         \* maxTransferJobs
  MaxDispatchers,  \* bound of the model: dispatcher goroutines told apart
  Outcomes,        \* how the executor of an instance may end
  Environment      \* what user, program and machine may do in an instance:
                   \* quit the program, pause jobs, remove finished ones, use
                   \* the legacy StartTransfer, crash, fail a store write

ASSUME QueueAssumption ==
  /\ PasswordJobs \subseteq Jobs
  /\ IsFiniteSet(Jobs) /\ IsFiniteSet(Runs)
  /\ NoJob \notin Jobs
  /\ NoRun \notin Runs
  /\ MaxConcurrent \in Nat \ {0}
  /\ MaxJobs \in Nat
  /\ MaxDispatchers \in Nat \ {0}
  /\ Environment \subseteq {"quit", "pause", "cleanup", "legacy", "crash",
                     "store_failure"}
  /\ Outcomes \subseteq {"ok", "interrupted", "failed"}

(***************************************************************************)
(* Job statuses.  "absent" stands for a job that is in no map or file.     *)
(***************************************************************************)
Status == {"queued", "running", "cancelling", "pausing", "paused",
           "needs_password", "verified", "interrupted", "failed", "canceled"}
Active    == {"running", "cancelling", "pausing"}
Terminal  == {"verified", "interrupted", "failed", "canceled"}
\* Faults: a verified job, or one whose transfer is still ending, can be retried.
RetryableVerified == {"paused", "needs_password", "interrupted", "failed",
                      "canceled", "verified"}
RetryablePausing == {"paused", "needs_password", "interrupted", "failed",
                     "canceled", "pausing"}
Retryable == {"paused", "needs_password", "interrupted", "failed", "canceled"}
StatusOrAbsent == Status \cup {"absent"}

VARIABLES
  up,           \* the desktop process exists
  job,          \* Service.jobs: one runtimeJob per identifier
  ticket,       \* creation order of the jobs ever created, 0 for the others
  runningJobs, wakeLock, active, closed,      \* fields of Service
  dispatchers,  \* dispatchJobs goroutines at the head of their loop
  run,          \* one record per dispatched transfer
  call,         \* one record per API call waiting for the store
  disk,         \* status of each job in desktop-state.json
  completed     \* history: the jobs one of whose transfers succeeded

vars == <<up, job, ticket, runningJobs, wakeLock, active, closed,
          dispatchers, run, call, disk, completed>>

NoEntry == [status |-> "absent", password |-> FALSE, cancelRequested |-> FALSE,
            pauseRequested |-> FALSE, cancel |-> NoRun]
IdleRun == [phase |-> "idle", job |-> NoJob, cancelled |-> FALSE,
            saved |-> "absent"]
IdleCall == [op |-> "idle", job |-> NoJob, saved |-> "absent",
             previous |-> "absent", todo |-> {}]

JobEntry == [status : StatusOrAbsent, password : BOOLEAN,
             cancelRequested : BOOLEAN, pauseRequested : BOOLEAN,
             cancel : Runs \cup {NoRun}]
RunEntry == [phase : {"idle", "saving", "starting", "executing", "recording"},
             job : Jobs \cup {NoJob}, cancelled : BOOLEAN,
             saved : StatusOrAbsent]
CallEntry == [op : {"idle", "enqueue", "retry", "settle", "delete", "clear"},
              job : Jobs \cup {NoJob}, saved : StatusOrAbsent,
              previous : StatusOrAbsent, todo : SUBSET Jobs]

Init ==
  /\ up = TRUE
  /\ job = [j \in Jobs |-> NoEntry]
  /\ ticket = [j \in Jobs |-> 0]
  /\ runningJobs = 0
  /\ wakeLock = FALSE
  /\ active = FALSE
  /\ closed = FALSE
  /\ dispatchers = 0
  /\ run = [r \in Runs |-> IdleRun]
  /\ call = [c \in Callers |-> IdleCall]
  /\ disk = [j \in Jobs |-> "absent"]
  /\ completed = {}

-----------------------------------------------------------------------------
(***************************************************************************)
(* Helpers.                                                                *)
(***************************************************************************)
InMap(j) == job[j].status # "absent"
Queued == {j \in Jobs : job[j].status = "queued"}

\* A transfer holds its slot until the critical section of finishJob.
LiveRuns == {r \in Runs : run[r].phase \in {"saving", "starting", "executing"}}

\* One write of the store: it lands or, if the store may fail, nothing changes.
Save(j, s) ==
  \/ disk' = [disk EXCEPT ![j] = s]
  \/ "store_failure" \in Environment /\ UNCHANGED disk

\* go dispatchJobs(), or the loop of one coming round again.
SpawnDispatcher ==
  dispatchers' = IF dispatchers < MaxDispatchers THEN dispatchers + 1
                                                 ELSE dispatchers

\* Fault: the captured cancel function is never called.
CancelContextForgotten(r) == UNCHANGED run

CancelContext(r) ==
  run' = IF r \in Runs THEN [run EXCEPT ![r].cancelled = TRUE] ELSE run

\* Fault: the wake lock is tested before the slot is given back.
ReleaseSlotTestsFirst ==
  /\ runningJobs' = IF runningJobs > 0 THEN runningJobs - 1 ELSE 0
  /\ wakeLock' = (wakeLock /\ runningJobs # 0)

\* runningJobs-- under its guard, then releaseWakeLockIfIdleLocked.
ReleaseSlot ==
  /\ runningJobs' = IF runningJobs > 0 THEN runningJobs - 1 ELSE 0
  /\ wakeLock' = (wakeLock /\ runningJobs' # 0)

-----------------------------------------------------------------------------
(***************************************************************************)
(* API calls.  c is the goroutine of the call; it blocks in the store.     *)
(***************************************************************************)
Await(c, op, j, saved, previous) ==
  call' = [call EXCEPT ![c] = [op |-> op, job |-> j, saved |-> saved,
                               previous |-> previous, todo |-> {}]]
Return(c) == call' = [call EXCEPT ![c] = IdleCall]

Ready(c) == up /\ call[c].op = "idle"

\* EnqueueTransfer up to its unlock: the job is in the map before it is saved.
Enqueue(c, j, password) ==
  /\ Ready(c)
  /\ ticket[j] = 0
  /\ j \in PasswordJobs => password
  /\ ~closed
  /\ Cardinality({k \in Jobs : InMap(k)}) < MaxJobs
  /\ job' = [job EXCEPT ![j] = [NoEntry EXCEPT !.status = "queued",
                                               !.password = password]]
  /\ ticket' = [ticket EXCEPT ![j] = Cardinality({k \in Jobs : ticket[k] > 0}) + 1]
  /\ Await(c, "enqueue", j, "queued", "absent")
  /\ UNCHANGED <<up, runningJobs, wakeLock, active, closed, dispatchers, run,
                 disk, completed>>

\* What RetryTransferJob leaves in the entry; pauseRequested is not reset.
Requeued(entry, password) ==
  [entry EXCEPT !.status = "queued", !.password = password,
                !.cancelRequested = FALSE]

Retry(c, j, password) ==
  /\ Ready(c)
  /\ job[j].status \in Retryable
  /\ j \in PasswordJobs => password
  /\ job' = [job EXCEPT ![j] = Requeued(@, password)]
  /\ Await(c, "retry", j, "queued", job[j].status)
  /\ UNCHANGED <<up, ticket, runningJobs, wakeLock, active, closed,
                 dispatchers, run, disk, completed>>

\* The branch of CancelTransferJob and PauseTransferJob for waiting jobs.
Withdrawn(entry, s) == [entry EXCEPT !.status = s, !.password = FALSE]

Withdraw(c, j, from, to) ==
  /\ Ready(c)
  /\ job[j].status \in from
  /\ job' = [job EXCEPT ![j] = Withdrawn(@, to)]
  /\ Await(c, "settle", j, to, "absent")
  /\ UNCHANGED <<up, ticket, runningJobs, wakeLock, active, closed,
                 dispatchers, run, disk, completed>>

CancelWaiting(c, j) == Withdraw(c, j, {"queued", "paused", "needs_password"}, "canceled")
PauseWaiting(c, j)  == /\ "pause" \in Environment
                       /\ Withdraw(c, j, {"queued", "needs_password"}, "paused")

\* The branch for active jobs saves nothing.  The captured cancel function is
\* called after the unlock; it ends one context for good and no later dispatch
\* shares that context, so calling it in the same step loses no behaviour.
StopRunning(j, from, entry) ==
  /\ up
  /\ job[j].status \in from
  /\ job' = [job EXCEPT ![j] = entry]
  /\ CancelContext(job[j].cancel)
  /\ UNCHANGED <<up, ticket, runningJobs, wakeLock, active, closed,
                 dispatchers, call, disk, completed>>

\* Fault: cancelling a pausing job leaves the request to pause standing.
CancellingKeepsPause(entry) ==
  [entry EXCEPT !.status = "cancelling", !.cancelRequested = TRUE]

Cancelling(entry) == [entry EXCEPT !.status = "cancelling",
                      !.cancelRequested = TRUE, !.pauseRequested = FALSE]
Pausing(entry)    == [entry EXCEPT !.status = "pausing",
                      !.cancelRequested = FALSE, !.pauseRequested = TRUE]

CancelRunning(j) == StopRunning(j, Active, Cancelling(job[j]))
PauseRunning(j)  == /\ "pause" \in Environment
                    /\ StopRunning(j, {"running", "pausing"}, Pausing(job[j]))

\* RemoveTransferJob: out of memory under the lock, out of the file after it.
Forget(c, j, todo) ==
  /\ job' = [job EXCEPT ![j] = NoEntry]
  /\ call' = [call EXCEPT ![c] = [IdleCall EXCEPT !.op = "delete", !.job = j,
                                                  !.todo = todo]]

Remove(c, j) ==
  /\ "cleanup" \in Environment
  /\ Ready(c)
  /\ job[j].status \in Terminal
  /\ Forget(c, j, {})
  /\ UNCHANGED <<up, ticket, runningJobs, wakeLock, active, closed,
                 dispatchers, run, disk, completed>>

\* ClearFinishedTransferJobs collects identifiers under the lock and removes
\* them one by one; a job that became active in between ends it with an error.
ClearFinished(c) ==
  LET finished == {j \in Jobs : job[j].status \in Terminal}
  IN /\ "cleanup" \in Environment
     /\ Ready(c)
     /\ finished # {}
     /\ call' = [call EXCEPT ![c] = [IdleCall EXCEPT !.op = "clear",
                                                     !.todo = finished]]
     /\ UNCHANGED <<up, job, ticket, runningJobs, wakeLock, active, closed,
                    dispatchers, run, disk, completed>>

ClearNext(c, j) ==
  LET rest == call[c].todo \ {j}
  IN /\ call[c].op = "clear"
     /\ j \in call[c].todo
     /\ \/ /\ job[j].status \in Terminal
           /\ Forget(c, j, rest)
        \/ /\ ~InMap(j)
           /\ call' = [call EXCEPT ![c] = IF rest = {} THEN IdleCall
                                          ELSE [@ EXCEPT !.todo = rest]]
           /\ UNCHANGED job
        \/ /\ InMap(j) /\ job[j].status \notin Terminal
           /\ Return(c)
           /\ UNCHANGED job
     /\ UNCHANGED <<up, ticket, runningJobs, wakeLock, active, closed,
                    dispatchers, run, disk, completed>>

-----------------------------------------------------------------------------
(***************************************************************************)
(* The store answers a waiting call.                                       *)
(***************************************************************************)
EnqueueSaved(c) ==
  /\ call[c].op = "enqueue"
  /\ disk' = [disk EXCEPT ![call[c].job] = "queued"]
  /\ Return(c)
  /\ SpawnDispatcher
  /\ UNCHANGED <<up, job, ticket, runningJobs, wakeLock, active, closed, run,
                 completed>>

EnqueueSaveFailed(c) ==
  /\ "store_failure" \in Environment
  /\ call[c].op = "enqueue"
  /\ job' = [job EXCEPT ![call[c].job] = NoEntry]
  /\ Return(c)
  /\ UNCHANGED <<up, ticket, runningJobs, wakeLock, active, closed,
                 dispatchers, run, disk, completed>>

RetrySaved(c) ==
  /\ call[c].op = "retry"
  /\ disk' = [disk EXCEPT ![call[c].job] = "queued"]
  /\ Return(c)
  /\ SpawnDispatcher
  /\ UNCHANGED <<up, job, ticket, runningJobs, wakeLock, active, closed, run,
                 completed>>

\* The rollback restores the record whatever happened to the job meanwhile.
RetrySaveFailed(c) ==
  /\ "store_failure" \in Environment
  /\ call[c].op = "retry"
  /\ job' = [job EXCEPT ![call[c].job] =
               IF @.status = "absent" THEN @ ELSE Withdrawn(@, call[c].previous)]
  /\ Return(c)
  /\ UNCHANGED <<up, ticket, runningJobs, wakeLock, active, closed,
                 dispatchers, run, disk, completed>>

SettleSaved(c) ==
  /\ call[c].op = "settle"
  /\ Save(call[c].job, call[c].saved)
  /\ Return(c)
  /\ UNCHANGED <<up, job, ticket, runningJobs, wakeLock, active, closed,
                 dispatchers, run, completed>>

\* deleteTransferJob; an error ends ClearFinishedTransferJobs early.
Deleted(c) ==
  /\ call[c].op = "delete"
  /\ \/ /\ disk' = [disk EXCEPT ![call[c].job] = "absent"]
        /\ call' = [call EXCEPT ![c] =
             [IdleCall EXCEPT !.op = IF call[c].todo = {} THEN "idle" ELSE "clear",
                              !.todo = call[c].todo]]
     \/ /\ "store_failure" \in Environment
        /\ Return(c)
        /\ UNCHANGED disk
  /\ UNCHANGED <<up, job, ticket, runningJobs, wakeLock, active, closed,
                 dispatchers, run, completed>>

-----------------------------------------------------------------------------
(***************************************************************************)
(* The dispatcher and the goroutines it starts.                            *)
(***************************************************************************)
\* Faults: the legacy transfer or Close is not seen.
MayDispatchBesideLegacy == ~closed /\ runningJobs < MaxConcurrent
MayDispatchClosed == ~active /\ runningJobs < MaxConcurrent

MayDispatch == ~closed /\ ~active /\ runningJobs < MaxConcurrent

\* The first queued job of jobOrder, which is kept in creation order.
Selected(j) == j \in Queued /\ \A k \in Queued : ticket[j] <= ticket[k]

\* Fault: the dispatcher takes a copy of the secret and leaves the original.
StartedWithSecret(entry, r) ==
  [entry EXCEPT !.status = "running", !.cancelRequested = FALSE, !.cancel = r]

Started(entry, r) ==
  [entry EXCEPT !.status = "running", !.password = FALSE,
                !.cancelRequested = FALSE, !.cancel = r]

\* The critical section of one round of dispatchJobs.
Dispatch(r, j) ==
  /\ up
  /\ dispatchers > 0
  /\ MayDispatch
  /\ run[r] = IdleRun
  /\ Selected(j)
  /\ job' = [job EXCEPT ![j] = Started(@, r)]
  /\ run' = [run EXCEPT ![r] = [phase |-> "saving", job |-> j,
                                cancelled |-> FALSE, saved |-> "running"]]
  /\ runningJobs' = runningJobs + 1
  /\ wakeLock' = (wakeLock \/ runningJobs = 0)
  /\ dispatchers' = dispatchers - 1
  /\ UNCHANGED <<up, ticket, active, closed, call, disk, completed>>

DispatcherReturns ==
  /\ dispatchers > 0
  /\ ~MayDispatch \/ Queued = {}
  /\ dispatchers' = dispatchers - 1
  /\ UNCHANGED <<up, job, ticket, runningJobs, wakeLock, active, closed, run,
                 call, disk, completed>>

\* The dispatcher saves the running record, starts runJob and loops.
RunSaved(r) ==
  /\ run[r].phase = "saving"
  /\ Save(run[r].job, run[r].saved)
  /\ run' = [run EXCEPT ![r].phase = "starting"]
  /\ SpawnDispatcher
  /\ UNCHANGED <<up, job, ticket, runningJobs, wakeLock, active, closed, call,
                 completed>>

\* runJob finds its job and goes on to prepare and execute the transfer ...
BeginRun(r) ==
  /\ run[r].phase = "starting"
  /\ InMap(run[r].job)
  /\ run' = [run EXCEPT ![r].phase = "executing"]
  /\ UNCHANGED <<up, job, ticket, runningJobs, wakeLock, active, closed,
                 dispatchers, call, disk, completed>>

\* Fault: a run whose job was removed keeps its slot for ever.
AbandonRunKeepsSlot(r) ==
  /\ run[r].phase = "starting"
  /\ ~InMap(run[r].job)
  /\ run' = [run EXCEPT ![r] = IdleRun]
  /\ UNCHANGED <<up, job, ticket, runningJobs, wakeLock, active, closed,
                 dispatchers, call, disk, completed>>

\* ... or returns at once, giving back the slot and nothing else.
AbandonRun(r) ==
  /\ run[r].phase = "starting"
  /\ ~InMap(run[r].job)
  /\ run' = [run EXCEPT ![r] = IdleRun]
  /\ runningJobs' = runningJobs - 1
  /\ UNCHANGED <<up, job, ticket, wakeLock, active, closed, dispatchers, call,
                 disk, completed>>

\* Fault: an executor that was interrupted counts as one that succeeded.
FinalStatusTrusting(entry, outcome) ==
  IF outcome \in {"ok", "interrupted"} THEN "verified" ELSE outcome

\* The status finishJob decides on: "ok" is a nil error of the executor,
\* "interrupted" TransferInterrupted or a cancelled context, "failed" any other.
FinalStatus(entry, outcome) ==
  CASE outcome = "ok"                                  -> "verified"
    [] outcome # "ok" /\ entry.pauseRequested          -> "paused"
    [] outcome # "ok" /\ ~entry.pauseRequested
                      /\ entry.cancelRequested         -> "canceled"
    [] OTHER                                           -> outcome

Finished(entry, outcome) ==
  [entry EXCEPT !.status = FinalStatus(entry, outcome), !.password = FALSE,
                !.cancelRequested = FALSE, !.cancel = NoRun]

\* prepare and the executor return and finishJob runs its critical section.
FinishRun(r, outcome) ==
  LET j == run[r].job
  IN /\ run[r].phase = "executing"
     /\ InMap(j)
     /\ job' = [job EXCEPT ![j] = Finished(@, outcome)]
     /\ run' = [run EXCEPT ![r] = [phase |-> "recording", job |-> j,
                  cancelled |-> FALSE, saved |-> FinalStatus(job[j], outcome)]]
     /\ completed' = IF outcome = "ok" THEN completed \cup {j} ELSE completed
     /\ ReleaseSlot
     /\ UNCHANGED <<up, ticket, active, closed, dispatchers, call, disk>>

FinishForgotten(r) ==
  /\ run[r].phase = "executing"
  /\ ~InMap(run[r].job)
  /\ run' = [run EXCEPT ![r] = IdleRun]
  /\ ReleaseSlot
  /\ SpawnDispatcher
  /\ UNCHANGED <<up, job, ticket, active, closed, call, disk, completed>>

\* Fault: finishJob starts no dispatcher for the slot it gave back.
RunRecordedSilently(r) ==
  /\ run[r].phase = "recording"
  /\ Save(run[r].job, run[r].saved)
  /\ run' = [run EXCEPT ![r] = IdleRun]
  /\ UNCHANGED <<up, job, ticket, runningJobs, wakeLock, active, closed,
                 dispatchers, call, completed>>

\* finishJob saves the final record, then starts a dispatcher.
RunRecorded(r) ==
  /\ run[r].phase = "recording"
  /\ Save(run[r].job, run[r].saved)
  /\ run' = [run EXCEPT ![r] = IdleRun]
  /\ SpawnDispatcher
  /\ UNCHANGED <<up, job, ticket, runningJobs, wakeLock, active, closed, call,
                 completed>>

-----------------------------------------------------------------------------
(***************************************************************************)
(* StartTransfer, and the end and the start of the process.                *)
(***************************************************************************)
BeginLegacy ==
  /\ "legacy" \in Environment
  /\ up
  /\ ~active /\ runningJobs = 0
  /\ active' = TRUE
  /\ UNCHANGED <<up, job, ticket, runningJobs, wakeLock, closed, dispatchers,
                 run, call, disk, completed>>

\* The finish function of beginTransfer; it starts no dispatcher.
EndLegacy ==
  /\ active
  /\ active' = FALSE
  /\ UNCHANGED <<up, job, ticket, runningJobs, wakeLock, closed, dispatchers,
                 run, call, disk, completed>>

\* Close up to jobWG.Wait.  As for StopRunning, the collected cancel functions
\* take effect in the step that collects them.
Close ==
  /\ "quit" \in Environment
  /\ up /\ ~closed
  /\ closed' = TRUE
  /\ job' = [j \in Jobs |-> [job[j] EXCEPT !.password = FALSE]]
  /\ run' = [r \in Runs |->
       IF \E j \in Jobs : job[j].cancel = r
       THEN [run[r] EXCEPT !.cancelled = TRUE] ELSE run[r]]
  /\ UNCHANGED <<up, ticket, runningJobs, wakeLock, active, dispatchers, call,
                 disk, completed>>

\* All memory of the process is gone.
Down ==
  /\ up' = FALSE
  /\ job' = [j \in Jobs |-> NoEntry]
  /\ runningJobs' = 0
  /\ wakeLock' = FALSE
  /\ active' = FALSE
  /\ closed' = FALSE
  /\ dispatchers' = 0
  /\ run' = [r \in Runs |-> IdleRun]
  /\ call' = [c \in Callers |-> IdleCall]
  /\ UNCHANGED <<ticket, disk, completed>>

\* jobWG.Wait returns once every runJob has, and the process exits.
Exit ==
  /\ up /\ closed
  /\ \A r \in Runs : run[r].phase = "idle"
  /\ Down

Crash ==
  /\ "crash" \in Environment
  /\ up
  /\ Down

\* Fault: a job that was running at the exit is restored as running.
UnfinishedQueuedOnly == {"queued", "cancelling", "pausing"}

Unfinished == {"queued", "running", "cancelling", "pausing"}

\* restoreJobs: what a saved status becomes in the next process.
Restored(j) ==
  IF disk[j] \notin Unfinished THEN disk[j]
  ELSE IF j \in PasswordJobs THEN "needs_password" ELSE "paused"

\* A start that cannot read the file begins with no jobs.  The records it
\* rewrites are saved one by one and a failing save is ignored.
Restart ==
  /\ ~up
  /\ up' = TRUE
  /\ \/ \E unsaved \in SUBSET {j \in Jobs : disk[j] \in Unfinished} :
          /\ "store_failure" \in Environment \/ unsaved = {}
          /\ job' = [j \in Jobs |-> [NoEntry EXCEPT !.status = Restored(j)]]
          /\ disk' = [j \in Jobs |-> IF j \in unsaved THEN disk[j]
                                                      ELSE Restored(j)]
     \/ "store_failure" \in Environment /\ UNCHANGED <<job, disk>>
  /\ UNCHANGED <<ticket, runningJobs, wakeLock, active, closed, dispatchers,
                 run, call, completed>>

-----------------------------------------------------------------------------
User(c) ==
  \/ \E j \in Jobs : \/ \E password \in BOOLEAN : \/ Enqueue(c, j, password)
                                                  \/ Retry(c, j, password)
                     \/ CancelWaiting(c, j)
                     \/ PauseWaiting(c, j)
                     \/ Remove(c, j)
  \/ ClearFinished(c)

StoreAnswers(c) ==
  \/ \E j \in Jobs : ClearNext(c, j)
  \/ EnqueueSaved(c) \/ EnqueueSaveFailed(c)
  \/ RetrySaved(c) \/ RetrySaveFailed(c)
  \/ SettleSaved(c)
  \/ Deleted(c)

TransferReturns(r) ==
  \/ \E outcome \in Outcomes : FinishRun(r, outcome)
  \/ FinishForgotten(r)

RunAdvances(r) == RunSaved(r) \/ BeginRun(r) \/ AbandonRun(r) \/ RunRecorded(r)

Dispatcher ==
  \/ \E r \in Runs, j \in Jobs : Dispatch(r, j)
  \/ DispatcherReturns

Next ==
  \/ \E c \in Callers : User(c) \/ StoreAnswers(c)
  \/ \E j \in Jobs : CancelRunning(j) \/ PauseRunning(j)
  \/ \E r \in Runs : TransferReturns(r) \/ RunAdvances(r)
  \/ Dispatcher
  \/ BeginLegacy \/ EndLegacy
  \/ Close \/ Exit \/ Crash \/ Restart

Spec == Init /\ [][Next]_vars

(***************************************************************************)
(* Fairness.  Goroutines the runtime can schedule are scheduled, and store *)
(* writes return.  The user is never obliged to act.  Nor does a transfer  *)
(* ever have to come to an end: its context is tested between two reads of *)
(* a file and before some calls, but a call of SFTP or of a session waits  *)
(* for the server, and the connection is closed only after the executor    *)
(* has returned.                                                           *)
(***************************************************************************)
Fairness ==
  /\ \A c \in Callers : WF_vars(StoreAnswers(c))
  /\ \A r \in Runs : WF_vars(RunAdvances(r))
  /\ WF_vars(Dispatcher)
  /\ WF_vars(Exit)

FairSpec == Spec /\ Fairness

-----------------------------------------------------------------------------
(***************************************************************************)
(* Properties.                                                             *)
(***************************************************************************)
\* Every variable keeps the shape of the Go structure it stands for.
TypeOK ==
  /\ up \in BOOLEAN
  /\ job \in [Jobs -> JobEntry]
  /\ ticket \in [Jobs -> Nat]
  /\ runningJobs \in Nat
  /\ wakeLock \in BOOLEAN
  /\ active \in BOOLEAN
  /\ closed \in BOOLEAN
  /\ dispatchers \in Nat
  /\ run \in [Runs -> RunEntry]
  /\ call \in [Callers -> CallEntry]
  /\ disk \in [Jobs -> StatusOrAbsent]
  /\ completed \in SUBSET Jobs

\* runningJobs counts the transfers that hold a slot, through every path that
\* gives one back, so no more than maxJobs ever run at once.
SlotAccounting ==
  /\ runningJobs = Cardinality(LiveRuns)
  /\ runningJobs <= MaxConcurrent

\* The legacy transfer and the queue exclude each other, although each tests
\* the other's field in a critical section of its own.
LegacyExcludesQueue == active => LiveRuns = {}

\* A transfer that holds a slot belongs to a job that is shown as active and
\* whose cancel function reaches exactly that transfer; an active job has one.
RunOwnsJob ==
  /\ \A r \in LiveRuns : /\ job[run[r].job].status \in Active
                         /\ job[run[r].job].cancel = r
  /\ \A j \in Jobs : job[j].status \in Active =>
                       \E r \in LiveRuns : run[r].job = j

\* Once a stop was asked for, of one job or of the whole service, the context
\* of the transfer it concerns is cancelled.
StopReachesRun ==
  \A r \in LiveRuns :
    closed \/ job[run[r].job].status \in {"cancelling", "pausing"}
      => run[r].cancelled

\* A secret is in memory only while its job waits in the queue, and a password
\* job that waits in an open queue has the secret its dispatch will need.
PasswordDiscipline ==
  \A j \in Jobs :
    /\ job[j].password => job[j].status = "queued"
    /\ (j \in PasswordJobs /\ job[j].status = "queued" /\ ~closed)
         => job[j].password

\* Neither the manager, the file nor a write in flight shows a job as verified
\* unless one of its transfers succeeded, across crashes and restarts.
VerifiedIsEarned ==
  \A j \in Jobs : j \notin completed =>
    /\ job[j].status # "verified"
    /\ disk[j] # "verified"
    /\ \A r \in Runs : run[r].job = j => run[r].saved # "verified"
    /\ \A c \in Callers : call[c].job = j =>
         "verified" \notin {call[c].saved, call[c].previous}

\* The sleep-prevention lock is held exactly while a job is running.
WakeLockTracksRuns == wakeLock <=> runningJobs > 0

\* A new process never starts work by itself: no job is queued or active when
\* it comes up, whatever status was on disk.
RestartIsQuiet ==
  [][~up /\ up' => /\ \A j \in Jobs : job'[j].status \notin Active \cup {"queued"}
                   /\ dispatchers' = 0]_vars

\* A verified job stays verified until the user removes it.
VerifiedIsFinal ==
  [][\A j \in Jobs : job[j].status = "verified" /\ up'
       => job'[j].status \in {"verified", "absent"}]_vars

\* What the user asked last decides how a stopped transfer is shown, unless it
\* succeeded first.
StopIsHonoured ==
  [][\A j \in Jobs : up' =>
       /\ job[j].status = "cancelling"
            => job'[j].status \in {"cancelling", "canceled", "verified"}
       /\ job[j].status = "pausing"
            => job'[j].status \in {"pausing", "cancelling", "paused", "verified"}]_vars

\* HasActiveJobs, which decides whether closing the window asks first.
HasActiveJobs == runningJobs > 0 \/ Queued # {}

\* A queued job is dispatched, withdrawn or lost with its process, provided no
\* transfer executes for ever and the user does not retry other jobs for ever.
RetryAny == \E c \in Callers, j \in Jobs, password \in BOOLEAN : Retry(c, j, password)
QueueIsServed ==
  \/ []<><<RetryAny>>_vars
  \/ \E r \in Runs : <>[](run[r].phase = "executing")
  \/ \A j \in Jobs : (job[j].status = "queued") ~> (job[j].status # "queued")

\* A transfer that was told to stop and does not: its server says nothing more.
Stalled(r) == run[r].phase = "executing" /\ run[r].cancelled

\* Quitting ends: Close returns from jobWG.Wait and the process exits, unless one
\* of the transfers it has cancelled never returns.
CloseTerminates ==
  \/ \E r \in Runs : <>[]Stalled(r)
  \/ closed ~> ~up

\* A job stays on "Cancelling" or "Pausing" only where its own transfer has been
\* told to stop and never returns.
StopSettles ==
  \A j \in Jobs :
    \/ \E r \in Runs : <>[](Stalled(r) /\ run[r].job = j)
    \/ (job[j].status \in {"cancelling", "pausing"})
         ~> (job[j].status \notin {"cancelling", "pausing"})
=============================================================================
