------------------------------ MODULE Frontend ------------------------------
(***************************************************************************)
(* The page of the desktop application, frontend/dist/app.js: the form of  *)
(* a transfer, its review and its start, and the list of jobs.             *)
(*                                                                         *)
(* A handler runs undisturbed up to an await; a call of the bridge is then *)
(* served in its own time, and the rest of the handler finds the globals   *)
(* as others have left them.  The queue behind the bridge is TransferQueue;*)
(* here its jobs only have a request and a status: "active", where the     *)
(* page polls for it, or "stopped".  Progress events and the buttons of    *)
(* the list call for it at any time, so that nothing may depend on when.   *)
(***************************************************************************)
EXTENDS Naturals, Sequences

CONSTANTS
  Requests,     \* what the form may hold
  ByPassword,   \* those that authenticate with a password
  NoRequest,
  JobIDs, NoJob,
  Retained,     \* the jobs at startup: functions of JobIDs
  \* Bounds of the model: what the user does, the transfers that are started.
  MaxDeeds, MaxStarts

\* Nothing is no request and no job; every retained job has its request.
ASSUME FrontendAssumption ==
  /\ ByPassword \subseteq Requests /\ NoRequest \notin Requests
  /\ NoJob \notin JobIDs
  /\ MaxDeeds \in Nat
  /\ Retained \subseteq [JobIDs -> [status  : {"absent", "active", "stopped"},
                                  request : Requests \cup {NoRequest}]]

VARIABLES
  form,             \* the fields of the form, the password excepted
  typed,            \* whether its password field is filled
  retryingJobID,
  reviewing,        \* the request ReviewTransfer looks at, or NoRequest
  editedSince,      \* history: whether the form has changed since then
  reviewedRequest,  \* the review on show, or NoReview
  reviews,          \* history: how many have been shown
  startDisabled,    \* the attribute of the button
  fetching,         \* how often the request of each job is still to fill the form
  starts,           \* the runs of startTransfer, in order
  transferQueue,    \* the jobs the list shows as active
  loading,          \* whether a call of ListTransferJobs is under way
  answer,           \* the active jobs it tells of
  job,              \* the jobs as they are
  deeds             \* what the user may still do

formVars == <<form, typed, retryingJobID, reviewing, editedSince, reviewedRequest,
              reviews, startDisabled, fetching>>
listVars == <<transferQueue, loading, answer>>
vars == <<formVars, listVars, starts, job, deeds>>

NoReview == [number |-> 0, request |-> NoRequest, stale |-> FALSE]
Statuses == {"absent", "active", "stopped"}
Active   == {j \in JobIDs : job[j].status = "active"}

Init == /\ form \in Requests /\ typed = FALSE
        /\ retryingJobID = NoJob
        /\ reviewing = NoRequest /\ editedSince = FALSE
        /\ reviewedRequest = NoReview /\ reviews = 0
        /\ startDisabled = TRUE
        /\ fetching = [j \in JobIDs |-> 0]
        /\ starts = <<>>
        /\ transferQueue = {} /\ loading = FALSE /\ answer = {}
        /\ job \in Retained
        /\ deeds = MaxDeeds

-----------------------------------------------------------------------------
Deed == deeds > 0 /\ deeds' = deeds - 1
Invalidate == reviewedRequest' = NoReview /\ startDisabled' = TRUE

\* The fields hold request; the password does not outlive its panel.
Fill(request) == /\ form' = request
                 /\ typed' = (typed /\ request \in ByPassword)
                 /\ editedSince' = TRUE

-----------------------------------------------------------------------------
(***************************************************************************)
(* The form.                                                               *)
(***************************************************************************)
\* Fault: an edit leaves the review on show.
EditUnnoticed(request) ==
  /\ Deed
  /\ Fill(request)
  /\ retryingJobID' = NoJob
  /\ UNCHANGED <<reviewedRequest, startDisabled>>
  /\ UNCHANGED <<listVars, reviewing, reviews, starts, fetching, job>>

\* An input in a field, another way to authenticate, a session that is loaded.
Edit(request) ==
  /\ Deed
  /\ Fill(request)
  /\ retryingJobID' = NoJob
  /\ Invalidate
  /\ UNCHANGED <<listVars, reviewing, reviews, starts, fetching, job>>

\* A native picker sets a field; no input event tells of it.
Pick(request) ==
  /\ Deed
  /\ request \in ByPassword <=> form \in ByPassword
  /\ Fill(request)
  /\ Invalidate
  /\ UNCHANGED <<listVars, retryingJobID, reviewing, reviews, starts, fetching,
                 job>>

TypePassword ==
  /\ Deed
  /\ form \in ByPassword
  /\ typed' = TRUE
  /\ Invalidate
  /\ UNCHANGED <<listVars, form, retryingJobID, reviewing, editedSince, reviews, starts,
                 fetching, job>>

\* The buttons that open the form for another transfer.
NewTransfer ==
  /\ Deed
  /\ retryingJobID' = NoJob
  /\ UNCHANGED <<listVars, form, typed, reviewing, editedSince, reviewedRequest, reviews,
                 startDisabled, starts, fetching, job>>

-----------------------------------------------------------------------------
(***************************************************************************)
(* reviewTransfer.  Its button is disabled until the answer arrives.       *)
(***************************************************************************)
AskReview ==
  /\ Deed
  /\ reviewing = NoRequest
  /\ form \in ByPassword => typed
  /\ reviewing' = form /\ editedSince' = FALSE
  /\ UNCHANGED <<listVars, form, typed, retryingJobID, reviewedRequest, reviews,
                 startDisabled, starts, fetching, job>>

\* What was asked for is shown, whatever the form says by now.
Reviewed ==
  /\ reviewing # NoRequest
  /\ reviews' = reviews + 1
  /\ reviewedRequest' = [number |-> reviews', request |-> reviewing, stale |-> editedSince]
  /\ startDisabled' = FALSE
  /\ reviewing' = NoRequest
  /\ UNCHANGED <<listVars, form, typed, retryingJobID, editedSince, starts, fetching,
                 job, deeds>>

ReviewFails ==
  /\ reviewing # NoRequest
  /\ Invalidate
  /\ reviewing' = NoRequest
  /\ UNCHANGED <<listVars, form, typed, retryingJobID, editedSince, reviews, starts,
                 fetching, job, deeds>>

-----------------------------------------------------------------------------
(***************************************************************************)
(* startTransfer.                                                          *)
(***************************************************************************)
\* loadTransferJobs, as far as the answer of the service; a call is dropped while
\* another is under way.
LoadTransferJobs == /\ ~loading /\ loading' = TRUE
                    /\ answer' = Active
                    /\ UNCHANGED transferQueue

UnderWay(s) == s.stage \in {"sent", "accepted", "refused", "listing"}

Clicks ==
  /\ Deed
  /\ ~startDisabled /\ reviewedRequest # NoReview
  /\ reviewedRequest.request \in ByPassword => typed
  /\ Len(starts) < MaxStarts
  /\ starts' = Append(starts,
       [review |-> reviewedRequest, retry |-> retryingJobID, stage |-> "sent",
        job |-> NoJob, overlaps |-> \E i \in DOMAIN starts : UnderWay(starts[i])])
  /\ UNCHANGED <<listVars, form, typed, retryingJobID, reviewing, editedSince,
                 reviewedRequest, reviews, fetching, job>>

\* Fault: the button is not disabled.
StartAgainAndAgain == Clicks /\ UNCHANGED startDisabled

\* The request is copied before the call.
Start == Clicks /\ startDisabled' = TRUE

\* EnqueueTransfer, in the service: the request gets a job of its own.
Enqueued(j, request) ==
  /\ job[j].request = NoRequest
  /\ job' = [job EXCEPT ![j] = [status |-> "active", request |-> request]]

\* RetryTransferJob, in the service: the job runs the request it was made with,
\* and a job with a password needs one again.
Retried(j, password) ==
  /\ job[j].status = "stopped"
  /\ job[j].request \in ByPassword => password
  /\ job' = [job EXCEPT ![j].status = "active"]

\* A password is sent where the reviewed request asks for one.  The service may
\* refuse either call for reasons of its own.
StartServed(i) ==
  LET s == starts[i]
  IN /\ s.stage = "sent"
     /\ \/ \E j \in JobIDs :
             /\ \/ s.retry = NoJob /\ Enqueued(j, s.review.request)
                \/ s.retry = j /\ Retried(j, s.review.request \in ByPassword)
             /\ starts' = [starts EXCEPT ![i].stage = "accepted", ![i].job = j]
        \/ /\ starts' = [starts EXCEPT ![i].stage = "refused"]
           /\ UNCHANGED job
     /\ UNCHANGED <<formVars, listVars, deeds>>

\* The review is read again after the await: the answer clears the review that is
\* on show by then, and fails where there is none.
StartUnreported(i) ==
  /\ starts[i].stage = "accepted" /\ reviewedRequest = NoReview
  /\ starts' = [starts EXCEPT ![i].stage = "unreported"]
  /\ startDisabled' = TRUE
  /\ UNCHANGED <<listVars, form, typed, retryingJobID, reviewing, editedSince,
                 reviewedRequest, reviews, fetching, job, deeds>>

\* The handler then waits for the list, unless its call of it is dropped.
StartReported(i) ==
  /\ starts[i].stage = "accepted" /\ reviewedRequest # NoReview
  /\ typed' = (typed /\ reviewedRequest.request \notin ByPassword)
  /\ retryingJobID' = NoJob
  /\ reviewedRequest' = NoReview
  /\ \/ loading /\ UNCHANGED listVars
        /\ starts' = [starts EXCEPT ![i].stage = "reported"] /\ startDisabled' = TRUE
     \/ ~loading /\ LoadTransferJobs
        /\ starts' = [starts EXCEPT ![i].stage = "listing"] /\ UNCHANGED startDisabled
  /\ UNCHANGED <<form, reviewing, editedSince, reviews, fetching, job, deeds>>

StartRefused(i) ==
  /\ starts[i].stage = "refused"
  /\ starts' = [starts EXCEPT ![i].stage = "failed"]
  /\ startDisabled' = (reviewedRequest = NoReview)
  /\ UNCHANGED <<listVars, form, typed, retryingJobID, reviewing, editedSince,
                 reviewedRequest, reviews, fetching, job, deeds>>

-----------------------------------------------------------------------------
(***************************************************************************)
(* The list: retryJob of a job with a password fills the form.             *)
(***************************************************************************)
AskRequest(j) ==
  /\ Deed
  /\ job[j].request \in ByPassword
  /\ fetching' = [fetching EXCEPT ![j] = @ + 1]
  /\ UNCHANGED <<listVars, form, typed, retryingJobID, reviewing, editedSince,
                 reviewedRequest, reviews, startDisabled, starts, job>>

\* Several may be under way; the form is that of the one that is answered last.
RequestFetched(j) ==
  /\ fetching[j] > 0 /\ fetching' = [fetching EXCEPT ![j] = @ - 1]
  /\ Fill(job[j].request)
  /\ retryingJobID' = j
  /\ Invalidate
  /\ UNCHANGED <<listVars, reviewing, reviews, starts, job, deeds>>

\* A job that was removed in the meantime.
RequestMissing(j) ==
  /\ fetching[j] > 0 /\ fetching' = [fetching EXCEPT ![j] = @ - 1]
  /\ job[j].status = "absent"
  /\ UNCHANGED <<listVars, form, typed, retryingJobID, reviewing, editedSince,
                 reviewedRequest, reviews, startDisabled, starts, job, deeds>>

\* Fault: loadingTransferJobs is not reset.
ShowAndStayBusy ==
  /\ loading /\ transferQueue' = answer
  /\ UNCHANGED <<formVars, loading, answer, starts, job, deeds>>

\* A call that fails shows an empty list.  A startTransfer that waited for the list
\* ends with it.
ShowTransferJobs ==
  LET waits(i) == starts[i].stage = "listing"
  IN /\ loading /\ loading' = FALSE
     /\ transferQueue' \in {answer, {}} /\ answer' = {}
     /\ starts' = [i \in DOMAIN starts |->
                    IF waits(i) THEN [starts[i] EXCEPT !.stage = "reported"] ELSE starts[i]]
     /\ startDisabled' = IF \E i \in DOMAIN starts : waits(i)
                         THEN reviewedRequest = NoReview ELSE startDisabled
     /\ UNCHANGED <<form, typed, retryingJobID, reviewing, editedSince, reviewedRequest,
                    reviews, fetching, job, deeds>>

\* A progress event or a button of the list.
Refresh == LoadTransferJobs /\ UNCHANGED <<formVars, starts, job, deeds>>

\* The interval of 1.5 seconds looks again while the list shows work.
Poll == transferQueue # {} /\ Refresh

\* A job ends or is stopped; the buttons of the list remove it, or return it to
\* the queue where no password is needed.
JobChanges(j) ==
  /\ \/ job[j].status = "active"  /\ job' = [job EXCEPT ![j].status = "stopped"]
     \/ job[j].status = "stopped" /\ job' = [job EXCEPT ![j].status = "absent"]
     \/ job[j].status = "stopped" /\ job[j].request \notin ByPassword
        /\ job' = [job EXCEPT ![j].status = "active"]
  /\ UNCHANGED <<formVars, listVars, starts, deeds>>

-----------------------------------------------------------------------------
User == \/ \E request \in Requests : Edit(request) \/ Pick(request)
        \/ TypePassword \/ NewTransfer \/ AskReview \/ Start
        \/ \E j \in JobIDs : AskRequest(j)

Answers == \/ Reviewed \/ ReviewFails
           \/ \E i \in DOMAIN starts : \/ StartServed(i) \/ StartRefused(i)
                                        \/ StartUnreported(i) \/ StartReported(i)
           \/ \E j \in JobIDs : RequestFetched(j) \/ RequestMissing(j)
           \/ ShowTransferJobs

Next == User \/ Answers \/ Refresh \/ Poll \/ \E j \in JobIDs : JobChanges(j)

Spec == Init /\ [][Next]_vars

\* The bridge answers and the interval goes on; neither the user nor a transfer
\* has to act, and no event has to arrive.
FairSpec == Spec /\ WF_vars(ShowTransferJobs) /\ WF_vars(Poll)

-----------------------------------------------------------------------------
(***************************************************************************)
(* Properties.                                                             *)
(***************************************************************************)
Reviews == [number : Nat, request : Requests \cup {NoRequest}, stale : BOOLEAN]

Stages == {"sent", "accepted", "refused", "listing", "reported", "unreported", "failed"}

\* Every variable keeps the shape of what it stands for.
TypeOK ==
  /\ form \in Requests
  /\ typed \in BOOLEAN /\ startDisabled \in BOOLEAN
  /\ editedSince \in BOOLEAN /\ loading \in BOOLEAN
  /\ retryingJobID \in JobIDs \cup {NoJob} /\ fetching \in [JobIDs -> Nat]
  /\ reviewing \in Requests \cup {NoRequest}
  /\ reviewedRequest \in Reviews /\ reviews \in Nat
  /\ starts \in Seq([review : Reviews, retry : JobIDs \cup {NoJob}, stage : Stages,
                     job : JobIDs \cup {NoJob}, overlaps : BOOLEAN])
  /\ transferQueue \subseteq JobIDs /\ answer \subseteq JobIDs
  /\ job \in [JobIDs -> [status : Statuses, request : Requests \cup {NoRequest}]]
  /\ deeds \in 0..MaxDeeds

\* The review on show is one of the form as it is, unless the form was changed
\* while the review was being made.
ReviewIsOfTheForm ==
  reviewedRequest # NoReview /\ ~reviewedRequest.stale => reviewedRequest.request = form

\* One review puts one transfer in the queue, unless it is started while an earlier
\* start has not come to its end: the end of that one enables the button again.
EachReviewStartsOnce ==
  \A i, k \in DOMAIN starts :
    /\ i < k
    /\ starts[i].review.number = starts[k].review.number
    /\ starts[i].job # NoJob /\ starts[k].job # NoJob
    => starts[i].overlaps

\* The transfer that enters the queue is the one whose review was shown.
ReviewedIsQueued ==
  \A i \in DOMAIN starts :
    starts[i].job # NoJob => job[starts[i].job].request = starts[i].review.request

\* A job that has come to an end is not shown as active for ever.
PhantomsEnd ==
  \A j \in JobIDs : j \in transferQueue \ Active ~> j \notin transferQueue \/ j \in Active
=============================================================================
