# Formal models of vericopy

vericopy copies files to and from an SSH server, with resumable partial files,
SHA-256 verification and a final rename, from a command line or from a desktop
application that queues transfers. These modules model its stateful cores: the
desktop scheduler and the state file it keeps, the transfer engine for one file
and for directory trees, a command from its validation to its answer (its
connection, rsync, the policies it applies and the access check), and the page
of the desktop application. Paths below are relative to the repository.

## 1. Inventory

| component | state it keeps | operations | called by |
|---|---|---|---|
| desktop scheduler `internal/desktop/jobs.go` | `Service.jobs`, `jobOrder`, `runningJobs`, `wakeLock`, one goroutine per dispatched job | enqueue, retry, cancel, pause, remove, clear, dispatch, run, finish, restore | desktop shell |
| desktop service `internal/desktop/service.go` | `active`, `cancel`, `closed` | `StartTransfer` (legacy), `CancelTransfer`, `Close`, sessions, forms | desktop shell |
| state store `internal/desktop/state.go` | `desktop-state.json`: favourites, sessions, history, jobs | read-modify-write under a mutex, fsynced temporary file renamed over the old one | scheduler, service |
| upload engine `internal/transfer/engine.go` 111-743, `partial.go`, `verify.go` | a partial file and its metadata beside the destination | `Copy`, `copyFile`, `copyDirectory` | command line, scheduler |
| download engine `internal/transfer/engine.go` 746-1303 | the same, on the local disk | `Download`, `downloadFile`, `downloadDirectory` | command line, scheduler |
| remote digest `internal/remotehash` | none | digest computed on the server | engine |
| access check `internal/access`, `internal/permissions` | none | resolve an account and a group, compare permission bits along a path | command line, service |
| browser `internal/desktop/browse.go` | none | list, delete, rename for media servers, make thumbnails | desktop shell |
| credential store `internal/credentialstore` | the keyring of the operating system | save, load, delete | service |
| wake lock `internal/wakelock` | a lock of the operating system | acquire, release | scheduler |
| SSH client `internal/sshclient` | none | `Dial`: known hosts, host key preference, agent, key files, `.local` names | command line, service |
| SFTP backend `internal/backend/sftp` | a connection | file operations | engine, access check |
| rsync backend `internal/backend/rsync` | none; the program writes under the final name | one run of the program | command line |
| command line `internal/app`, `cmd/vericopy` | none | `copy`, `verify`, `check-access`; a signal cancels them | user |
| desktop shell `cmd/vericopy-desktop` | none | forwards to the service; asks `HasActiveJobs` before closing | user |
| desktop frontend `cmd/vericopy-desktop/frontend/dist/app.js` | the form, the review on show, the job a retry is for, views of jobs and sessions | review, start, retry, refresh and poll, migration of old profiles | user |
| paths, media names, thumbnails, errors, output | none | pure functions and formatting | all |

How they interact. Every field of the scheduler is guarded by `Service.mu`. An
API call changes the map in one critical section, unlocks, and only then writes
the store; a dispatcher (`go s.dispatchJobs()`) does the same and starts one
`runJob` goroutine per job, which calls the engine with a context of its own;
`finishJob` records the outcome in another critical section, then saves, then
starts a new dispatcher. The legacy `StartTransfer` shares the mutex, not the
queue. Two engine calls share nothing in memory, only the files they write. A
command dials, makes one call of the engine or one run of rsync and then checks
access; it works on names, so everything it looked at may have changed when it
acts. The page is one thread: a handler runs undisturbed up to an `await`, and
the rest of it finds the globals as other handlers have left them.

What is hard about it:

* store writes happen after the unlock and in any order;
* stop requests race with transfers that are ending, with removals and quits;
* no path may lose a slot, a wake-up, the wake lock or a secret;
* a crash at any step leaves a file from which the next process starts;
* an attempt of the engine may be cut short at every remote call, resumed
  later with other options, and run beside another one and beside the user's
  own edits of source and destination;
* a directory copy is a long sequence over a tree that changes on both sides;
* rsync decides again what the command has decided, and writes under the final
  name before anything is compared;
* answers of the bridge arrive after the form, the review or the job they are
  about has changed.

`PROJECT.json` lists each of these as a hazard with its line.

What makes each component correct, in a sentence: the scheduler shows what
happened, runs each job at most once at a time, never more than `maxJobs`, and
neither strands nor revives one; the store never goes back; the engine's
destination shows nothing, somebody else's file or one complete version of the
source, whatever else happens; an interrupted attempt can be resumed or
replaced; a directory copy that reports success left nothing out; sessions and
keyring agree; a command that reports success did what its flags say and talked
to a recorded server only; the page queues what it showed, once.

## 2. Modules

| module | what it is |
|---|---|
| `TransferQueue` | the scheduler with the parts of the service and the store it shares a mutex or a file with |
| `TransferQueue_proofs` | theorems about its slots and secrets |
| `TransferQueueOwnership_proofs` | theorems about its jobs, transfers and stop requests |
| `StateStore` | the state file and the keyring under concurrent calls, failures, crashes and loss of power |
| `AtomicStore` | what the state file promises: the abstract specification `StateStore` implements |
| `StateStore_proofs` | that it does, for every value of the constants, and that the keyring beside it has no password too many |
| `PartialFiles` | what uploads and downloads share: fingerprints, metadata, the resume test |
| `Upload` | `copyFile` step by step on a shared server |
| `Upload_proofs` | theorems about it, its refinement of `Publication` among them |
| `Download` | `downloadFile` step by step, its partial file on the local disk |
| `Download_proofs` | theorems about it, its refinement of `Publication` among them |
| `TreeCopy` | `copyDirectory` and `downloadDirectory` with the names, publication and thumbnail of each file, beside the browser |
| `TreeCopy_proofs` | theorems about it |
| `Publication` | what a file transfer promises: the abstract specification `Upload` and `Download` implement |
| `Commands` | one command from its flags to its answer, with the steps of rsync, while others use the same places |
| `Connection` | `Dial` as a relation between a site and its answers; used by `Commands` |
| `AccessCheck` | the bits that let an account through a component; used by `Commands` |
| `Commands_proofs` | theorems about it |
| `Frontend` | the form, its review and start, and the list of jobs of the page |
| `Frontend_proofs` | theorems about it |
| `MCTransferQueue`, `MCStateStore`, `MCUpload`, `MCDownload`, `MCTreeCopy`, `MCCommands`, `MCFrontend` | small instances for TLC |

`TransferQueue` writes the store in one step. `StateStore` is where that step
is justified: its refinement of `AtomicStore` says that a call of the store
takes effect in one step between its call and its return, or not at all. One
difference remains: a loss of power may take the file back to an older state,
which `TransferQueue` does not do to `disk`.

Definitions whose comment begins with *Fault* belong to no specification. Each
is a plausible bug of the definition below it, used to make sure that the
property it is paired with in `PROJECT.json` would notice.

### TransferQueue and the code

| model | code |
|---|---|
| `job[j]` | the `runtimeJob` of `Service.jobs`: status, whether a password is held, the two request flags, the transfer its `cancel` reaches |
| `ticket` | position in `jobOrder`. `queuedJobsLocked` picks the first queued entry of that order; identifiers are created and inserted in one order here |
| `runningJobs`, `wakeLock`, `active`, `closed` | the fields of the same names (`wakeLock # nil`) |
| `dispatchers` | goroutines at the head of the loop of `dispatchJobs`. More than `MaxDispatchers` behave like that many: each takes a job or returns |
| `run[r]` | a dispatched transfer: `saving` (line 479), `starting` (485), `executing` (prepare and engine), `recording` (579) |
| `call[c]` | an API call between its unlock and the answer of the store |
| `disk` | the status of each job in the state file |
| `up` | the process exists |
| `completed` | history only: jobs one of whose transfers returned without an error |

One critical section is one action. Two simplifications are argued in place:
the captured `cancel()` is called in the step that captures it (a context is
never reused, so later is the same as sooner), and a store write is one step
(the mutex of the store and the fsynced rename make it one). Progress updates,
events and the history entry of a finished job are left out: no guard reads
them. `Down` empties all memory; it is the end of the process for `Exit` and
`Crash`.

### StateStore and the code

| model | code |
|---|---|
| `shown` | `desktop-state.json` as the system shows it: its lists, and whether its data was synced |
| `stable` | what is on the disk. `Flush` may happen at any time or never: the directory is not synced, so a rename may be lost |
| `mu` | `StateStore.mu` |
| `call[c]` | a call of the service or the scheduler on a goroutine of its own: `forgetting` (keyring before the store, `DeleteSession`), `waiting` (for the mutex), `creating` to `renaming` (`writeLocked`), `removing` (its deferred removal), `remembering` (keyring after the store, `SaveSession`) |
| `temporary[c]` | its `.desktop-state-*` file |
| `secret` | sessions with a keyring entry |
| `disturbed` | history only: sessions whose last call overlapped another, failed somewhere or was cut short |

Sessions, jobs and history are in one file, so that a lost update of one list
by a call about another would show. Lists are functions of their keys, since
the code keeps one record for each and every reader sorts. Left out: reads,
validation, profiles (they behave like sessions) and the schema number.

### Upload, Download and the code

| model | code |
|---|---|
| `source` | the local file; an edit advances its modification time |
| `dest`, `partial[p]` | names on the server, pointing to inodes `file[f]` with content and mode. `p` is the fingerprint (size, prefix digest) the partial path is derived from |
| `sidecar[p]` | the `.json` beside the partial file: created empty, filled by the next step |
| `xfer[t]` | locals of one attempt: where it is, its options, first stat, fingerprint, offset, open handle and what went into the digest |
| `versions`, `decayed` | history only |

`Download` has the same variables with the sides exchanged: the source is on
the server, `dest`, `partial` and `sidecar` are local. Its differences are the
code's: `os.Rename` replaces a destination (so it implements `Publication`
with `Replacing <- TRUE`), the partial file is created with its restrictive mode
at once and gets no policy, and what was received is compared with the source
instead of with the partial file. Its `Stop` may be a machine that fails before
the partial file, which is never synced, reached the disk (`FilesAfter`).

A content is a sequence of blocks and stands for its own digest; `prefixLimit`
is one block. Every call that touches the source or the server is one action,
in the order of the code. Every error return, cancelled context, lost
connection and end of the process leaves files as they are: all are `Stop`.
The SFTP rename fails if the new name exists (version 3 of the protocol, which
the client library uses). The digest computed on the server and the read-back
compare the same thing and are one step. Left out: symbolic links and special
files (all refused by guards that change nothing), parent directories, media
renaming, thumbnails. Two edits never leave the same modification time: an
edit that also restores the time is a limitation the security model documents.

### TreeCopy and the code

| model | code |
|---|---|
| `uploading` | the direction: `copyDirectory`, or `downloadDirectory` with a local destination |
| `source` | paths of the source that exist; `Walk` is the order in which `filepath.WalkDir` and `walkRemoteDir` meet them |
| `dest[q]` | nothing, a directory, a file of others, a thumbnail (`Empty` between truncation and write), or the source file it is a copy of |
| `dirs[q]` | mode and modification time of a directory, by who gave it |
| `copy` | locals of one call: listed entries not yet visited (`pending`), the destination of the current file, whether its partial file is still there, `directories` (`visited`) |
| `stable`, `disturbed` | history only: what the guarantees of a copy that others disturb are about |

One file is six steps: the choice of its name, the partial file in its parent,
verification, the removal that overwrite asks for, the rename, the thumbnail.
What can go wrong inside the second and third is `Upload` and `Download`.
Deleting through the browser removes a whole subtree in one step. Left out:
counts, links and special files, and a directory whose own mode, applied by
`preserve` before its entries are copied, forbids creating them.

### Commands, Connection, AccessCheck and the code

| model | code |
|---|---|
| `cmd.request` | the flags of `copy`, `verify` or `check-access`, or the request of `prepare` and `PreviewDestination`, as far as a decision reads them |
| `cmd.site` | what `Dial` meets: known hosts, the host keys of the server, names and machines, agent and key files |
| `cmd.pc` | where the command is; `Stop` is every error return, lost connection and signal |
| `cmd.info`, `place`, `digest` | `sourceInfo`, the resolved destination and the local digest of `runRsync` and `Verify` |
| `cmd.aim`, `found` | where the rsync program writes and whether it found a file there, both decided by the program itself |
| `cmd.peer` | the machine the connection of the rsync program itself has reached |
| `cmd.at`, `blocked` | the component `Check` has come to, and whether an earlier one refused the account |
| `file[p]` | what the destination, its parent and the source's name in it hold |
| `touched` | history only: places others changed since their content was last looked at and a file was found |
| `stale` | history only: places others changed since the access check looked at them |

An engine call is one step here: `Upload` and `Download` show what may happen
inside it. The rsync program is not part of the repository: that it looks,
leaves what it must not replace, writes to a temporary name and renames, and
leaves a partial file where `--partial` asks for one, is taken from the flags
`BuildArgs` passes. Its own connection is the step `RsyncConnects`: ssh resolves
the name again, so that a `.local` name may lead to another machine than `Dial`
reached, and takes recorded keys only (known hosts files of the whole system,
which ssh reads as well, are not modelled). `Connection` keeps no state, since dialling changes nothing: it
says for each site which answers are possible, and the host key type the
library negotiates is the first of the client's list that the server signs with.
A mode is a model value and `Grants` says what it lets each class do. Left out:
timeouts, ports, host patterns, recursion (in `TreeCopy`), output.

### Frontend and the code

| model | code |
|---|---|
| `form`, `typed` | the fields of the form; its password field |
| `retryingJobID`, `reviewedRequest`, `startDisabled` | the globals of the first two names, `startButton.disabled` |
| `reviewing` | a `ReviewTransfer` that is not answered yet, with the request it was asked for |
| `fetching` | per job, the calls of `GetTransferJobRequest` that `retryJob` has made and that are not answered yet |
| `starts[i]` | one run of `startTransfer`, by the await it is at |
| `transferQueue`, `loading`, `answer` | the list on show, `loadingTransferJobs`, the answer under way |
| `job` | the queue behind the bridge: `TransferQueue` with two statuses; `Enqueued` and `Retried` are what `EnqueueTransfer` and `RetryTransferJob` accept, the password a retry needs included |
| `editedSince`, `reviews` | history only |

A handler is cut into one action per await. `LoadTransferJobs` reads the jobs
when the service does, and `ShowTransferJobs` shows them when the page does.

## 3. Runs

| run | instance | properties | size |
|---|---|---|---|
| `queue_lifecycle` | 1 key job, 2 calls in flight, quit, crash, removal, pause | `StopReachesRun`, `WakeLockTracksRuns`, `RunOwnsJob`, `RestartIsQuiet`, `VerifiedIsFinal`, `StopIsHonoured`, `StopSettles`, no deadlock | 0.4 M states |
| `queue_store_failures` | 1 password job, 2 calls in flight, legacy transfer, pause, crash, failing store | `SlotAccounting`, `LegacyExcludesQueue`, `PasswordDiscipline`, `VerifiedIsEarned` | 0.45 M |
| `queue_progress` | 2 password jobs, 1 slot, quit; the executor fails | `QueueIsServed`, `CloseTerminates` | 0.17 M |
| `upload_single` | 1 attempt at a time, 4 versions, 1 edit, every option set, others, decay | `TypeOK`, `PartialHasSidecar`, `ReplacementReady`, `ResumeIsSound`, `DestinationMatches`, `ImplementsPublication` | 0.9 M |
| `download_single` | 1 attempt at a time, 4 versions, 2 edits, every option set, others | `TypeOK`, `ReplacementReady`, `DestinationMatches`, `ImplementsPublication` | 2.0 M |
| `tree_copy` | 2 directories, 4 files, 3 destinations, 6 option sets, both directions, any number of attempts, 1 intervention | `TypeOK`, `TreeIsComplete`, `FoldersCarryPolicy`, `FolderTimesPreserved`, `OnlyAskedChanges` | 1.3 M |
| `store_calls` | 2 callers, 1 session, 1 job, 2 history entries of which 1 is kept, failures, crash, power | `StateSurvives`, `PasswordsAreWanted`, `ImplementsAtomicStore` | 0.6 M |
| `commands` | every command of one file, 5 initial trees, 2 versions of the source, 4 foreign entries, 2 interventions; every kind of site | `SuccessIsEarned`, `StrangersRefused`, `FamiliarServersAccepted`, `AgentKeySuffices`, `OnlyAskedChanges`, `PolicyFollowsVerification` | 0.9 M |
| `frontend` | 2 requests, 2 jobs of which one may be left by an earlier session, 5 deeds of the user, 3 starts | `ReviewIsOfTheForm`, `EachReviewStartsOnce`, `PhantomsEnd` | 0.5 M |

Why these bounds are enough. One job under two calls produces every late save:
a save waits for one call while the other changes the job. One slot and two
jobs (`queue_progress`) produce the competition for a slot. Two versions that agree in
size and prefix share a partial path, a third has another and a fourth is a
prefix of two others; the source may be any of them first and after each edit.
The tree has a file in a nested directory, two files with one fixed name and
one with the name of a thumbnail; the destination is empty, has files of others
at some names, or a directory where a file should go.
Two calls on the store are every race for its mutex and its keyring; one kept
entry makes the second one trim. `MaxMeddling` 2 lets others put an entry at a
place and take it away again, or change two of the places a command uses, at
any step; scripts of two commands show a retry after an interrupted rsync. Five
deeds are an edit, a review, a start and two others in between; three starts let
one overlap with two. The instances do not switch everything on at once, they
divide the environment by what the properties depend on.

`CHECK_DEADLOCK FALSE` stands where a service whose jobs are settled, a user
with no more commands, or a page whose jobs have ended has nothing left to do.

Fairness. In `queue_lifecycle` and `queue_progress`, goroutines that can run do
run, and a store write returns: weak fairness of `StoreAnswers`, `RunAdvances`,
`Dispatcher` and `Exit`. The user is never obliged to act, and no transfer, of
the queue or legacy, ever has to return, cancelled or not: a context is only
tested between two reads (`contextReader`) and before some calls, the dialler
uses it for the TCP connection alone, a call of SFTP or of a session waits for
the server, and the connection is closed by a deferred call after the engine has
returned. `QueueIsServed` therefore allows a transfer that executes for ever and
a user who retries other jobs for ever; `CloseTerminates` and `StopSettles` allow
a transfer that was cancelled and executes for ever, the second only where it is
that of the job in question. `StopSettles` is checked in `queue_lifecycle`, where
pauses, cancellations and quits meet, and liveness needs that run to do without
symmetry. In `frontend`, the bridge answers a list (`ShowTransferJobs`), with a
list or an error, and the interval of 1.5 seconds goes on (`Poll`); no event has
to arrive and no transfer has to end.

### Where the code and its documentation differ

Three runs expect a violation; each checks a sentence of the documentation, and
`PROJECT.json` quotes it.

| run | what TLC shows |
|---|---|
| `upload_same_destination` | two attempts share a partial file; the empty file of one is renamed by the other after its verification |
| `download_damaged_partial` | the lost tail of a partial file is resumed, renamed and reported as verified |
| `frontend_reviewed` | with two password requests, a review of one is started while the retry of a job with the other is set: the service has the password it asks for and runs that job's request, not the one on show |

Seen while modelling and not made into runs.

Scheduler and service:

* a dispatcher in its loop may start a job between the unlock of
  `EnqueueTransfer` and its save, although docs/architecture.md:159-160 says
  that a job is persisted before dispatch;
* the late save of a cancelled or paused job (`jobs.go`:296, 377) may land after
  its removal and put it back into the file, where the next start finds it;
* a retry whose save fails rolls back a job a dispatcher may have started; when
  the save of an enqueued job fails in the same moment, the run finds no job
  (`AbandonRun`) and leaves the wake lock held until the next run ends.
  `RunOwnsJob`, `StopIsHonoured` and `WakeLockTracksRuns` are therefore checked
  with a reliable store. With two slots, a job rolled back like this and retried
  once more runs twice, and a stop reaches the second transfer only
  (`StopReachesRun`);
* `RetryTransferJob` does not reset `pauseRequested`, so that a job once paused
  is shown as paused when a later transfer of it fails;
* a transfer that was cancelled while its server has gone silent never returns:
  its job stays on "Cancelling" or "Pausing", keeps its slot, and `Close` waits
  for it (`service.go`:726);
* while a legacy transfer is active an enqueued job gets no dispatcher at its
  end (`QueueIsServed` is checked without it), and `HasActiveJobs` does not
  count it;
* a session deleted while its save waits for the keyring leaves its password
  there, as does a keyring that refuses the removal (`PasswordsAreWanted` speaks
  of undisturbed sessions); a temporary state file left by a crash is never
  removed.

Engine:

* generating a thumbnail truncates a `.jpg` that was there (`engine.go`:443,
  1089), also with `--no-clobber`, against docs/desktop-ui.md:102;
  `OnlyAskedChanges` of `TreeCopy` excepts these names;
* two files of a tree with the same fixed name end as one file and count as two,
  and an overwriting copy that fixes names replaces an empty directory that has
  the fixed name of a file beside it (`engine.go`:343-349 looks at the
  destination only to remove it): the copy succeeds without that directory;
* a dry run of a directory reports `Verified`, one of a file does not; a
  `NoClobber` skip is reported as a verified job;
* the partial file of an upload has the default mode between its creation and
  the call that restricts it, and keeps it if the attempt ends there and is
  resumed; a download of one file ignores `PreserveTime`.

Commands and connections:

* an encrypted key file with a default name fails the connection although the
  agent holds a good key (`client.go`:255-263, against README.md:115-117);
  `AgentKeySuffices` excepts it;
* all key methods have one name, of which the library uses the first: with an
  agent a key file is never tried;
* a host recorded with an RSA key only is refused by a server that signs with
  SHA-2 only, since the preference names the SHA-1 algorithm (`client.go`:160);
* `--no-clobber` has no effect on rsync, which refuses an existing destination
  anyway; `--resume` without `--overwrite` refuses the partial file an earlier
  run left under the final name;
* a private policy is not applied if the verification or the group fails after
  rsync wrote the file; the calls that apply it follow a link put there
  meanwhile;
* `Verify` looks at the kind of the destination before it hashes the local file,
  and then follows a link put there meanwhile (`verify.go`:25-51): a success may
  leave a link (`SuccessIsEarned` speaks of entries others have not changed since
  they were seen as files);
* rsync may reach another recorded machine than the one that was inspected and is
  verified, where a name resolves differently for ssh;
* a relative destination with `--readable-by` is refused after the transfer,
  and a refused account leaves a verified file and a failed command.

Page:

* an edit between the click on review and its answer is not noticed: the old
  request is shown (`ReviewIsOfTheForm` excepts it);
* an edit between the click on start and its answer clears the review, and the
  answer reads it (`app.js`:706): a queued transfer is reported as not queued,
  and password and `retryingJobID` stay;
* the end of one start enables the button for the review on show by then
  (723), so that one review can be queued twice when starts overlap
  (`EachReviewStartsOnce` excepts it);
* a typed password stays when a session is loaded that also uses one, against
  docs/desktop-acceptance.md:42-43;
* the migration of old profiles (485-517) runs whenever no sessions are shown:
  deleted sessions come back, and a failed list lets it overwrite one.

## 4. Proofs

`TransferQueue_proofs` proves, for every number of jobs, runs, callers, slots
and every environment, under `QueueAssumption` alone:

* `TypeCorrect`: `Spec => []TypeOK`. `TypeOK` is inductive by itself; one lemma
  per group of actions.
* `SlotsExact`: `Spec => []SlotAccounting`. Inductive with `TypeOK`: each action
  that moves a run into or out of `LiveRuns` changes its cardinality by one and
  `runningJobs` with it (lemmas `LiveRuns` gains or loses an element), which
  also shows that the guard `runningJobs > 0` of `finishJob` never saves it.
* `SecretsDisciplined`: `Spec => []PasswordDiscipline`. Inductive with `TypeOK`;
  the interesting cases are the rollback of a retry and `Close`, which clears
  the secrets of jobs that stay queued.

`TransferQueueOwnership_proofs` proves the other safety properties of
`TransferQueue` for the same parameters. Three hold in every environment:

* `LegacyExcluded` (`LegacyExcludesQueue`): inductive over `Shape`, since each of
  the two fields is tested where the other one is set;
* `VerifiedAlwaysEarned` (`VerifiedIsEarned`): inductive because it covers the
  places a status may come back from, the disk and the saves under way;
* `RestartsAreQuiet` (`RestartIsQuiet`), from `Gone`: between two processes
  nothing is left but the file.

Six assume `Reliable`, that the environment has no `store_failure`:
`OwnershipKept` and what follows from it, `RunsOwnTheirJobs`, `StopsReachRuns`,
`WakeLockHeldExactly`, `VerifiedStaysVerified` and `StopsHonoured`. The
assumption cannot be dropped from any of them, as TLC shows with two slots: when
a save fails, `enqueueJob` and `RetryTransferJob` put the earlier entry back
although the job may have been started or finished since. The invariant is `OwnInv`:
`Shape`, `Gone`, `Known` (a job that was never created is in no call, transfer or
file; otherwise a new job could meet an old transfer) and `Owned`, which is
`RunOwnsJob`, `StopReachesRun`, `WakeLockTracksRuns` and `Requests` (a job that is
being stopped has the marks by which `finishJob` decides what to show).
`RunOwnsJob` needs both directions: without the second an active job that is
retried or removed could leave a transfer behind. The lemma `StatusChanges` lists
how the status of a job may change at all, from which both action properties
follow.

`StateStore_proofs` proves, for every set of callers, sessions, jobs and
entries, every `MaxHistory` and every environment, under `StoreAssumption` and
`TornAssumption` (the mark of an unreadable file is not a state):

* `StoreIsAtomic`: `Spec => ImplementsAtomicStore`, the refinement. The request
  of a call takes effect at `Rename`, or at `Acquire` when there is nothing to
  write; every other step maps to a stutter, a refusal or a return.
* `StateAlwaysSurvives`, `TemporaryAlwaysOwned` and `TypeCorrect`.

Those four rest on one inductive invariant, `IInv`: the holder of the mutex is
the only call inside it, what it is about to write is its request applied to
what the file shows now (`WorkIsCurrent`, which a second writer would break),
and a file that is ready to be renamed holds exactly that, synced. The lemma
`ChangedFacts` shows once that the list operations of the code and those of the
abstract store agree, trimming included.

The last part adds `PasswordsAlwaysWanted` (`PasswordsAreWanted`) for the same
parameters. A call about a session is `alone` while no other one about it is in
progress. The invariant `KeyringInv` says that two calls about
one session are both not alone and leave it `disturbed`, that a deletion which
is alone has removed the password before it reaches the store, and that a save
which is alone has stored the session before it turns to the keyring. The lemma
`CallerStep` reduces every action of a call to what it does to its own session.

`Upload_proofs` proves, for all sets of inodes, contents and options and every
environment, under `UploadAssumption` and `MetadataAssumption` (metadata that was
not written completely is unlike any that was):

* `TypeCorrect`: `Spec => []TypeOK`, for any number of transfers. It needs
  `TypeInv`, which also says that partial files and open handles lead to blocks
  and never to what others wrote, and that a file is open only while it is
  copied to.

Five more assume `OneAtATime`, that there is one transfer, which may be cut short
and started again at every step, with other options and an edited source:

* `PartialIsDescribed` (`PartialHasSidecar`) and `ResumeCorrect`
  (`ResumeIsSound`);
* `ReplacementIsReady` (`ReplacementReady`) and `DestinationIsVerified`
  (`DestinationMatches`), decaying storage included, since the upload reads the
  file back;
* `UploadPublishes`: `Spec => ImplementsPublication`, the refinement. `Rename` is
  the publication, `Clear` the removal that comes before it, what others do to the
  destination maps to what they may do there, and all else stutters.

The run `upload_same_destination` shows why: with two transfers of one source each
of the five properties is false, as TLC finds. The invariant is `IInv`. `Apart`
says that a partial file has no second name, so that what is written through a
handle changes nothing else. `TimesPassed` says that nobody knows a modification time the source
has not had, so that an edit makes all metadata old at once. `PartialIsPrefix`
is the heart of resuming: while the source is what it was when the metadata were
written, and storage has not decayed, the partial file is a beginning of it. It
is not a property of the runs, and `ResumeIsSound` is not inductive without it.
`Stage` says what an attempt knows at each place: whether its partial file and
metadata are there, that offset, file and hash agree in length, that the hash is
of the source as long as nobody edited it, and from the verification on that the
file is what was hashed.

`Download_proofs` proves the same for the other direction: `TypeCorrect` for any
number of transfers and every environment; `ReplacementIsReady`,
`DestinationIsVerified` and `DownloadPublishes` for one at a time and under
`NothingIsLost`, that the environment has no `decay`. A download does not read its
partial file back, so that the file equals what was hashed only as long as the
disk keeps it: the run `download_damaged_partial` is the counterexample.

`TreeCopy_proofs` proves, for every tree, every set of names with what they
become, every destination, set of options and number of interventions, under
`TreeAssumption` (the walk lists a tree: what is above a path is a directory of
it; the places cover where its files may come to; the marks of what a place
shows differ):

* `TypeCorrect`: `Spec => []TypeOK`, from `Shape` and `Focus`, which say what each
  step works on: a file's steps on the file the walk has come to, at one of its
  landings, a directory's on one that is recorded;
* `OnlyAskedEver` (`OnlyAskedChanges`), an action property. It needs `TargetFree`:
  between the look at a local destination and the rename nobody else makes files
  there;
* `FoldersAlwaysRestricted` (`FoldersCarryPolicy`) and
  `FolderTimesAlwaysPreserved` (`FolderTimesPreserved`), from `ModesSet` and
  `TimesSet`. The last loop goes backwards over the recorded directories, and no
  step after the walk gives one a new time;
* `TreesAlwaysComplete` (`TreeIsComplete`), under `NamesApart`.

`NamesApart` says that no directory of the tree has the fixed name of a file
beside it. Without it the property is false, as said in section 3, and TLC finds
the copy on a tree with an empty directory of that name. The invariant `TreeInv`
relates the walk to what is still pending: a directory is recorded or a directory
above it is pending (`FoldersReached`), and a file that was there all along has
its place or is reached later (`FilesReached`). `CurrentSettled` and `ThumbnailOpen` carry a file
through its thumbnail, whose creation truncates what has that name; what is
recorded stays (`FoldersShow`, `FoldersStand`) but for the moment between a removal
and its rename. `Effects` says once what any step may do to a place and a
directory, with a lemma for each kind of step.

`Commands_proofs` proves, for every script of commands, every kind of entry and
site and any number of interventions, under `CommandsAssumption`:

* `SuccessAlwaysEarned` and `TypeCorrect`, from `Inv`: which command may be where
  (`Phase`), what the steps so far have established at the destination unless
  others touched it (`Progress`: a file, then compared, then the group, then the
  mode, then the time; the order is what makes it inductive, since a change of
  the group takes bits of the mode away), and that each component passed so far
  lets the account through unless others changed it since (`Walk`);
* `OnlyAskedEver` and `PolicyAlwaysFollows`, the action properties, from `Inv`
  and a lemma for each action that writes;
* `StrangersAlwaysRefused`, from `Dialled` (a command that is past dialling was
  answered with a recorded key) and `Joined` (so was the connection of rsync):
  no step but `Connect` leaves the dialling, and no step goes on from a failure;
* `FamiliarServersAlwaysAccepted` and `AgentKeyAlwaysSuffices`, from `Answered`:
  whatever a command was answered is an answer of `Dial` for the site it was given.
  The rest is about `Dials` alone: of the recorded types a server signs with there
  is a first one, which a recorded key of this machine has, and the agent is the
  first method there is.

`Frontend_proofs` proves, for all sets of requests and jobs and any number of
deeds and starts, under `FrontendAssumption`:

* `ReviewsFollowTheForm` and `TypeCorrect`, from `FormInv`: a review that was
  asked for and not edited since is one of the form, and so is the one on show;
* `ReviewsStartOnce`, from `StartsInv`: of two starts of one review the first had
  ended, and failed, when the second was clicked, or they overlap; the button is
  disabled while a start is under way and no later review is on show.

Model-checked only: the liveness properties `QueueIsServed`, `CloseTerminates`,
`StopSettles` and `PhantomsEnd` (fairness and `ENABLED` are out of the prover's
reach). Every invariant and every action property of a run is also a theorem.
Two definitions are written so that they can be reasoned about: the preferred
types of host keys and the methods of authentication are functions with positions
instead of a fold and a selection, whose values for every input would need an
induction over data.

## 5. Not modelled

* The words of the system: parsing of flags, destinations, modes and the output
  of `id` and `getent`, quoting, path dialects, error texts, redaction, JSON.
  They are pure functions of strings; the models start from their results.
* Fixed names of media files and the pictures of thumbnails: `TreeCopy` takes
  which names coincide as given.
* Symbolic links and special files in the engine: refused by guards that change
  nothing. Progress events and counts: no decision reads them.
* Reads of the store, its validation, connection profiles (they behave like
  sessions) and the schema number.
* On the page: queueing of several sources, sessions and their migration, the
  history, the browse view, sorting and paging.
* Packets of the multicast query, timeouts and ports of a connection; the
  operating systems' ways of holding the wake lock.

## 6. Plan

1. Proofs: which of the theorems on ownership hold with one slot although the
   store fails; several uploads to different partial paths.
2. Sessions of the page with their migration, above `AtomicStore`.
3. `TreeCopy` with read-only directories and the counts of its result.
