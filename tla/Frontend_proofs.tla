-------------------------- MODULE Frontend_proofs --------------------------
(***************************************************************************)
(* Proofs about Frontend for every set of requests and jobs, whatever an   *)
(* earlier session has left and however often the user acts.               *)
(***************************************************************************)
EXTENDS Frontend, SequenceTheorems, TLAPS

USE FrontendAssumption

StartEntry == [review : Reviews, retry : JobIDs \cup {NoJob}, stage : Stages,
               job : JobIDs \cup {NoJob}, overlaps : BOOLEAN]

\* A start whose answer has not been handled yet, and one that came to nothing.
Pending(s) == s.stage \in {"sent", "accepted"}
Vain(s)    == s.stage \in {"refused", "failed"}

\* What a review is of is a request; its number is not that of a later one.
ReviewsAreKept ==
  /\ reviewedRequest # NoReview => /\ reviewedRequest.request \in Requests
                                   /\ reviewedRequest.number \in 1..reviews
  /\ \A i \in DOMAIN starts : /\ starts[i].review.request \in Requests
                              /\ starts[i].review.number \in 1..reviews
RequestsAreKept ==
  \A j \in JobIDs : fetching[j] > 0 => job[j].request \in Requests

\* The review that is being made is one of the form, as long as that stays.
ReviewingTheForm == reviewing # NoRequest /\ ~editedSince => reviewing = form

\* Only an accepted start has its job.
JobsAreAccepted ==
  \A i \in DOMAIN starts :
    starts[i].stage = "sent" \/ Vain(starts[i]) => starts[i].job = NoJob

\* What was under way at a click makes the start overlap.
EarlierIsOver ==
  \A i, k \in DOMAIN starts :
    i < k /\ ~starts[k].overlaps => ~UnderWay(starts[i])

OnShow(s) == s.review.number = reviewedRequest.number

\* The button is disabled for a lone start that is pending, unless another review is
\* on show; no start has been clicked since that shows the review.
LoneIsGuarded ==
  \A i \in DOMAIN starts :
    Pending(starts[i]) /\ ~starts[i].overlaps /\ OnShow(starts[i]) => startDisabled
LoneIsLast ==
  \A i, k \in DOMAIN starts :
    i < k /\ Pending(starts[i]) /\ ~starts[i].overlaps => ~OnShow(starts[i])

\* An accepted start that was handled has taken its review off the page.
HandledIsGone ==
  \A i \in DOMAIN starts :
    ~Pending(starts[i]) /\ ~Vain(starts[i]) => ~OnShow(starts[i])

\* Of two starts of one review the first overlaps or came to nothing.
FirstInVain ==
  \A i, k \in DOMAIN starts :
    i < k /\ starts[i].review.number = starts[k].review.number
    => starts[i].overlaps \/ Vain(starts[i])

FormInv   == /\ TypeOK /\ ReviewsAreKept /\ RequestsAreKept /\ ReviewingTheForm
             /\ ReviewIsOfTheForm
StartsInv == /\ JobsAreAccepted /\ EarlierIsOver /\ LoneIsGuarded /\ LoneIsLast
             /\ HandledIsGone /\ FirstInVain

-----------------------------------------------------------------------------
(* What the steps have in common *)

\* A step that only moves starts on keeps what relates them, if the button is
\* enabled by nothing but the end of a start that was handled.
Moves ==
  /\ DOMAIN starts' = DOMAIN starts
  /\ \A i \in DOMAIN starts :
       /\ starts'[i].review = starts[i].review
       /\ starts'[i].overlaps = starts[i].overlaps
       /\ UnderWay(starts'[i]) => UnderWay(starts[i])
       /\ Pending(starts'[i]) => Pending(starts[i])
       /\ Vain(starts[i]) => Vain(starts'[i])
       /\ ~Pending(starts'[i]) /\ ~Vain(starts'[i]) =>
            reviewedRequest' = NoReview \/ (~Pending(starts[i]) /\ ~Vain(starts[i]))
       /\ starts'[i].stage = "sent" \/ Vain(starts'[i]) =>
            /\ starts[i].stage = "sent" \/ Vain(starts[i])
            /\ starts'[i].job = starts[i].job

ButtonIsKept ==
  \/ reviewedRequest' = NoReview
  \/ /\ reviewedRequest' = reviewedRequest
     /\ \/ startDisabled' \in {startDisabled, TRUE}
        \/ \E k \in DOMAIN starts : UnderWay(starts[k]) /\ ~Pending(starts[k])

LEMMA MovesKeepStarts ==
  ASSUME StartsInv, ReviewsAreKept, starts \in Seq(StartEntry), Moves, ButtonIsKept
  PROVE  StartsInv'
<1>1. DOMAIN starts \subseteq Nat
  OBVIOUS
<1>2. ASSUME reviewedRequest' = NoReview, NEW i \in DOMAIN starts
      PROVE  ~OnShow(starts[i])'
  BY <1>2 DEF ReviewsAreKept, Moves, OnShow, NoReview
<1>3. ASSUME reviewedRequest' # NoReview, NEW i \in DOMAIN starts, OnShow(starts[i])'
      PROVE  OnShow(starts[i])
  BY <1>3 DEF ButtonIsKept, Moves, OnShow
<1>4. JobsAreAccepted'
  BY DEF StartsInv, JobsAreAccepted, Moves
<1>5. EarlierIsOver'
  BY DEF StartsInv, EarlierIsOver, Moves
<1>6. LoneIsLast'
  BY <1>2, <1>3 DEF StartsInv, LoneIsLast, Moves
<1>7. HandledIsGone'
  BY <1>2, <1>3 DEF StartsInv, HandledIsGone, Moves
<1>8. FirstInVain'
  BY DEF StartsInv, FirstInVain, Moves
<1>9. LoneIsGuarded'
  <2> SUFFICES ASSUME NEW i \in DOMAIN starts, Pending(starts[i]), ~starts[i].overlaps,
                      OnShow(starts[i]), reviewedRequest' = reviewedRequest
               PROVE  startDisabled'
    BY <1>2, <1>3 DEF LoneIsGuarded, Moves, ButtonIsKept
  <2>1. startDisabled
    BY DEF StartsInv, LoneIsGuarded
  <2>2. reviewedRequest' # NoReview
    BY DEF ReviewsAreKept, OnShow, NoReview
  <2>3. ASSUME NEW k \in DOMAIN starts, UnderWay(starts[k]), ~Pending(starts[k])
        PROVE  FALSE
    <3>1. k < i \/ i < k
      BY <1>1, <2>3
    <3>2. ~(k < i)
      BY <2>3 DEF StartsInv, EarlierIsOver
    <3>3. ~(i < k)
      BY DEF StartsInv, LoneIsLast
    <3> QED
      BY <3>1, <3>2, <3>3
  <2> QED
    BY <2>1, <2>2, <2>3 DEF ButtonIsKept
<1> QED
  BY <1>4, <1>5, <1>6, <1>7, <1>8, <1>9 DEF StartsInv

LEMMA StillMoves ==
  ASSUME starts' = starts
  PROVE  Moves
  BY DEF Moves, UnderWay, Pending, Vain

\* One start changes its stage, and its job where it is accepted.
LEMMA OneMoves ==
  ASSUME starts \in Seq(StartEntry), NEW i \in DOMAIN starts,
         NEW stage \in Stages, NEW j \in JobIDs \cup {NoJob},
         starts' = [starts EXCEPT ![i].stage = stage, ![i].job = j]
  PROVE  /\ starts' \in Seq(StartEntry) /\ DOMAIN starts' = DOMAIN starts
         /\ starts'[i] = [starts[i] EXCEPT !.stage = stage, !.job = j]
         /\ \A k \in DOMAIN starts : k # i => starts'[k] = starts[k]
<1>1. starts[i] \in StartEntry
  OBVIOUS
<1>2. [starts[i] EXCEPT !.stage = stage, !.job = j] \in StartEntry
  BY <1>1 DEF StartEntry
<1>3. starts' = [starts EXCEPT ![i] = [starts[i] EXCEPT !.stage = stage, !.job = j]]
  BY <1>1 DEF StartEntry
<1>4. i \in 1 .. Len(starts)
  OBVIOUS
<1>5. \A entry \in StartEntry : /\ [starts EXCEPT ![i] = entry] \in Seq(StartEntry)
                                /\ Len([starts EXCEPT ![i] = entry]) = Len(starts)
  BY <1>4, ExceptSeq
<1>6. starts' \in Seq(StartEntry) /\ DOMAIN starts' = DOMAIN starts
  BY <1>2, <1>3, <1>5
<1>7. starts'[i] = [starts[i] EXCEPT !.stage = stage, !.job = j]
  BY <1>3
<1>8. \A k \in DOMAIN starts : k # i => starts'[k] = starts[k]
  BY <1>3
<1> QED
  BY <1>6, <1>7, <1>8

\* One start changes its stage alone.
LEMMA OneAdvances ==
  ASSUME starts \in Seq(StartEntry), NEW i \in DOMAIN starts, NEW stage \in Stages,
         starts' = [starts EXCEPT ![i].stage = stage]
  PROVE  /\ starts' \in Seq(StartEntry) /\ DOMAIN starts' = DOMAIN starts
         /\ starts'[i] = [starts[i] EXCEPT !.stage = stage]
         /\ \A k \in DOMAIN starts : k # i => starts'[k] = starts[k]
<1>1. starts[i] \in StartEntry
  OBVIOUS
<1>2. [starts[i] EXCEPT !.stage = stage] \in StartEntry
  BY <1>1 DEF StartEntry
<1>3. starts' = [starts EXCEPT ![i] = [starts[i] EXCEPT !.stage = stage]]
  BY <1>1 DEF StartEntry
<1>4. i \in 1 .. Len(starts)
  OBVIOUS
<1>5. \A entry \in StartEntry : /\ [starts EXCEPT ![i] = entry] \in Seq(StartEntry)
                                /\ Len([starts EXCEPT ![i] = entry]) = Len(starts)
  BY <1>4, ExceptSeq
<1>6. starts' \in Seq(StartEntry) /\ DOMAIN starts' = DOMAIN starts
  BY <1>2, <1>3, <1>5
<1>7. starts'[i] = [starts[i] EXCEPT !.stage = stage]
  BY <1>3
<1>8. \A k \in DOMAIN starts : k # i => starts'[k] = starts[k]
  BY <1>3
<1> QED
  BY <1>6, <1>7, <1>8

LEMMA NoReviewIsReview == NoReview \in Reviews
  BY DEF NoReview, Reviews

LEMMA TypeOfStarts ==
  ASSUME TypeOK
  PROVE  starts \in Seq(StartEntry)
  BY DEF TypeOK, StartEntry

-----------------------------------------------------------------------------
(* Initially *)

LEMMA InitInv == Init => FormInv /\ StartsInv
<1> SUFFICES ASSUME Init
             PROVE  FormInv /\ StartsInv
  OBVIOUS
<1>1. starts = <<>> /\ DOMAIN starts = {}
  BY DEF Init
<1>2. starts \in Seq(StartEntry)
  BY <1>1
<1>3. TypeOK
  <2>1. job \in [JobIDs -> [status : Statuses, request : Requests \cup {NoRequest}]]
    BY DEF Init, Statuses, FrontendAssumption
  <2>2. reviewedRequest \in Reviews /\ reviews \in Nat /\ deeds \in 0..MaxDeeds
    BY NoReviewIsReview DEF Init, FrontendAssumption
  <2>3. /\ typed \in BOOLEAN /\ startDisabled \in BOOLEAN
        /\ editedSince \in BOOLEAN /\ loading \in BOOLEAN
    BY DEF Init
  <2>4. /\ form \in Requests /\ reviewing \in Requests \cup {NoRequest}
        /\ retryingJobID \in JobIDs \cup {NoJob} /\ fetching \in [JobIDs -> Nat]
        /\ transferQueue \subseteq JobIDs /\ answer \subseteq JobIDs
    BY DEF Init
  <2> QED
    BY <1>2, <2>1, <2>2, <2>3, <2>4 DEF TypeOK, StartEntry
<1>4. FormInv
  BY <1>1, <1>3 DEF Init, FormInv, ReviewsAreKept, RequestsAreKept, ReviewingTheForm,
                    ReviewIsOfTheForm, NoReview, FrontendAssumption
<1>5. StartsInv
  BY <1>1 DEF StartsInv, JobsAreAccepted, EarlierIsOver, LoneIsGuarded, LoneIsLast,
              HandledIsGone, FirstInVain
<1> QED
  BY <1>4, <1>5

-----------------------------------------------------------------------------
(* The form and its review *)

\* What the user does to the form, and the answers that fill or clear it.
FormStep == \/ \E request \in Requests : Edit(request) \/ Pick(request)
            \/ TypePassword \/ NewTransfer \/ AskReview \/ ReviewFails
            \/ \E j \in JobIDs : AskRequest(j) \/ RequestFetched(j) \/ RequestMissing(j)

LEMMA FormStepFacts ==
  ASSUME FormInv, FormStep
  PROVE  /\ starts' = starts /\ reviews' = reviews /\ job' = job
         /\ transferQueue' = transferQueue /\ loading' = loading /\ answer' = answer
         /\ deeds' \in 0..MaxDeeds
         /\ \/ reviewedRequest' = NoReview /\ startDisabled' = TRUE
            \/ reviewedRequest' = reviewedRequest /\ startDisabled' = startDisabled
               /\ form' = form
<1>1. ASSUME NEW request \in Requests, Edit(request) \/ Pick(request)
      PROVE  deeds' \in 0..MaxDeeds
  BY <1>1 DEF FormInv, TypeOK, Edit, Pick, Deed, FrontendAssumption
<1>2. CASE TypePassword \/ NewTransfer \/ AskReview \/ \E j \in JobIDs : AskRequest(j)
  BY <1>2 DEF FormInv, TypeOK, TypePassword, NewTransfer, AskReview, AskRequest, Deed,
              listVars, FrontendAssumption, Invalidate
<1>3. CASE ReviewFails \/ \E j \in JobIDs : RequestFetched(j) \/ RequestMissing(j)
  BY <1>3 DEF FormInv, TypeOK, ReviewFails, RequestFetched, RequestMissing, listVars, Invalidate
<1> QED
  BY <1>1, <1>2, <1>3 DEF FormStep, Edit, Pick, Invalidate, listVars

LEMMA FormStepKeepsFields ==
  ASSUME FormInv, FormStep
  PROVE  /\ form' \in Requests
         /\ typed' \in BOOLEAN /\ editedSince' \in BOOLEAN
         /\ retryingJobID' \in JobIDs \cup {NoJob} /\ fetching' \in [JobIDs -> Nat]
         /\ reviewing' \in Requests \cup {NoRequest}
         /\ RequestsAreKept' /\ ReviewingTheForm'
<1> USE DEF FormInv, TypeOK, RequestsAreKept, ReviewingTheForm, FrontendAssumption
<1> DEFINE Kept ==
             /\ form' \in Requests
             /\ typed' \in BOOLEAN /\ editedSince' \in BOOLEAN
             /\ retryingJobID' \in JobIDs \cup {NoJob} /\ fetching' \in [JobIDs -> Nat]
             /\ reviewing' \in Requests \cup {NoRequest}
             /\ RequestsAreKept' /\ ReviewingTheForm'
<1>1. ASSUME NEW request \in Requests, Edit(request) \/ Pick(request)
      PROVE  Kept
  BY <1>1 DEF Edit, Pick, Fill, Invalidate
<1>2. CASE TypePassword \/ NewTransfer
  BY <1>2 DEF TypePassword, NewTransfer
<1>3. CASE AskReview \/ ReviewFails
  BY <1>3 DEF AskReview, ReviewFails
<1>4. ASSUME NEW j \in JobIDs, RequestMissing(j)
      PROVE  Kept
  BY <1>4 DEF RequestMissing
<1>5. ASSUME NEW j \in JobIDs, RequestFetched(j)
      PROVE  Kept
  BY <1>5 DEF RequestFetched, Fill
<1>6. ASSUME NEW j \in JobIDs, AskRequest(j)
      PROVE  Kept
  BY <1>6 DEF AskRequest
<1> QED
  BY <1>1, <1>2, <1>3, <1>4, <1>5, <1>6 DEF FormStep

LEMMA FormStepInv ==
  ASSUME FormInv, StartsInv, FormStep
  PROVE  FormInv' /\ StartsInv'
<1>1. TypeOK'
  <2>1. reviewedRequest' \in Reviews /\ reviews' \in Nat /\ deeds' \in 0..MaxDeeds
    BY FormStepFacts, NoReviewIsReview DEF FormInv, TypeOK
  <2>2. /\ startDisabled' \in BOOLEAN /\ loading' \in BOOLEAN
        /\ transferQueue' \subseteq JobIDs /\ answer' \subseteq JobIDs
        /\ job' \in [JobIDs -> [status : Statuses, request : Requests \cup {NoRequest}]]
    BY FormStepFacts DEF FormInv, TypeOK
  <2>3. starts' \in Seq([review : Reviews, retry : JobIDs \cup {NoJob}, stage : Stages,
                         job : JobIDs \cup {NoJob}, overlaps : BOOLEAN])
    BY FormStepFacts DEF FormInv, TypeOK
  <2> QED
    BY <2>1, <2>2, <2>3, FormStepKeepsFields DEF TypeOK
<1>2. ReviewsAreKept'
  BY FormStepFacts DEF FormInv, ReviewsAreKept
<1>3. ReviewIsOfTheForm'
  BY FormStepFacts DEF FormInv, ReviewIsOfTheForm
<1>4. StartsInv'
  BY FormStepFacts, StillMoves, MovesKeepStarts, TypeOfStarts DEF FormInv, ButtonIsKept
<1> QED
  BY <1>1, <1>2, <1>3, <1>4, FormStepKeepsFields DEF FormInv

\* A new review has a number of its own.
LEMMA ReviewedInv ==
  ASSUME FormInv, StartsInv, Reviewed
  PROVE  FormInv' /\ StartsInv'
<1>1. /\ reviews' = reviews + 1 /\ reviews \in Nat /\ reviews' \in Nat
      /\ reviewedRequest'.number = reviews'
      /\ reviewedRequest'.request = reviewing /\ reviewing \in Requests
      /\ reviewedRequest'.stale = editedSince
      /\ reviewedRequest' \in Reviews
  BY DEF FormInv, TypeOK, Reviewed, Reviews
<1>2. /\ starts' = starts /\ startDisabled' = FALSE /\ reviewing' = NoRequest
      /\ form' = form /\ typed' = typed /\ editedSince' = editedSince
      /\ retryingJobID' = retryingJobID /\ fetching' = fetching /\ job' = job
      /\ deeds' = deeds /\ transferQueue' = transferQueue /\ loading' = loading
      /\ answer' = answer
  BY DEF Reviewed, listVars
<1>3. TypeOK'
  BY <1>1, <1>2 DEF FormInv, TypeOK
<1>4. ReviewsAreKept' /\ RequestsAreKept' /\ ReviewingTheForm' /\ ReviewIsOfTheForm'
  BY <1>1, <1>2 DEF FormInv, ReviewsAreKept, RequestsAreKept, ReviewingTheForm,
                    ReviewIsOfTheForm
<1>5. \A i \in DOMAIN starts : ~OnShow(starts[i])'
  BY <1>1, <1>2 DEF FormInv, ReviewsAreKept, OnShow
<1>6. StartsInv'
  BY <1>2, <1>5 DEF StartsInv, JobsAreAccepted, EarlierIsOver, LoneIsGuarded, LoneIsLast,
                    HandledIsGone, FirstInVain, Pending, Vain, UnderWay
<1> QED
  BY <1>3, <1>4, <1>6 DEF FormInv

-----------------------------------------------------------------------------
(* startTransfer *)

LEMMA StartInv ==
  ASSUME FormInv, StartsInv, Start
  PROVE  FormInv' /\ StartsInv'
<1> DEFINE entry == [review |-> reviewedRequest, retry |-> retryingJobID, stage |-> "sent",
                     job |-> NoJob, overlaps |-> \E i \in DOMAIN starts : UnderWay(starts[i])]
           last == Len(starts) + 1
<1>1. starts' = Append(starts, entry)
  BY DEF Start, Clicks
<1>2. /\ ~startDisabled /\ startDisabled' = TRUE /\ deeds' \in 0..MaxDeeds
      /\ reviewedRequest # NoReview /\ reviewedRequest' = reviewedRequest
  BY DEF Start, Clicks, Deed, FormInv, TypeOK
<1>3. /\ reviews' = reviews /\ form' = form /\ typed' = typed /\ editedSince' = editedSince
      /\ retryingJobID' = retryingJobID /\ fetching' = fetching /\ job' = job
      /\ reviewing' = reviewing /\ transferQueue' = transferQueue /\ loading' = loading
      /\ answer' = answer
  BY DEF Start, Clicks, listVars
<1>4. starts \in Seq(StartEntry) /\ Len(starts) \in Nat
  BY TypeOfStarts DEF FormInv
<1>5. entry \in StartEntry
  BY DEF FormInv, TypeOK, StartEntry, Stages
<1>6. /\ starts' \in Seq(StartEntry)
      /\ DOMAIN starts' = 1..last /\ DOMAIN starts = 1..Len(starts)
      /\ starts'[last] = entry
      /\ \A i \in DOMAIN starts : starts'[i] = starts[i]
  BY <1>1, <1>4, <1>5
<1>7. \A i \in DOMAIN starts' : i \in DOMAIN starts \/ i = last
  BY <1>4, <1>6
<1>8. entry.overlaps = \E i \in DOMAIN starts : UnderWay(starts[i])
  OBVIOUS
<1> HIDE DEF entry
<1>9. /\ entry.review = reviewedRequest /\ entry.stage = "sent" /\ entry.job = NoJob
  BY DEF entry
<1>10. TypeOK'
  <2>1. starts' \in Seq([review : Reviews, retry : JobIDs \cup {NoJob}, stage : Stages,
                         job : JobIDs \cup {NoJob}, overlaps : BOOLEAN])
    BY <1>6 DEF StartEntry
  <2> QED
    BY <2>1, <1>2, <1>3 DEF FormInv, TypeOK
<1>11. ReviewsAreKept'
  BY <1>2, <1>3, <1>6, <1>7, <1>9 DEF FormInv, ReviewsAreKept
<1>12. RequestsAreKept' /\ ReviewingTheForm' /\ ReviewIsOfTheForm'
  BY <1>2, <1>3 DEF FormInv, RequestsAreKept, ReviewingTheForm, ReviewIsOfTheForm
<1>13. \A i \in DOMAIN starts :
         OnShow(starts[i]) /\ ~starts[i].overlaps => Vain(starts[i])
  BY <1>2 DEF StartsInv, LoneIsGuarded, HandledIsGone
<1>14. \A i \in DOMAIN starts : OnShow(starts[i])' <=> OnShow(starts[i])
  BY <1>2, <1>6 DEF OnShow
<1>15. Pending(entry) /\ ~Vain(entry)
  BY <1>9 DEF Pending, Vain
<1>16. JobsAreAccepted'
  BY <1>6, <1>7, <1>9 DEF StartsInv, JobsAreAccepted, Vain
<1>17. EarlierIsOver'
  <2>1. \A i, k \in DOMAIN starts' : i < k => i \in DOMAIN starts
    BY <1>4, <1>6
  <2> QED
    BY <2>1, <1>6, <1>7, <1>8 DEF StartsInv, EarlierIsOver
<1>18. LoneIsGuarded'
  BY <1>2 DEF LoneIsGuarded
<1>19. LoneIsLast'
  <2>1. \A i, k \in DOMAIN starts' : i < k => i \in DOMAIN starts
    BY <1>4, <1>6
  <2>2. \A i \in DOMAIN starts : Pending(starts[i]) /\ Vain(starts[i]) => FALSE
    BY DEF Pending, Vain
  <2> QED
    BY <2>1, <2>2, <1>6, <1>13, <1>14 DEF LoneIsLast
<1>20. HandledIsGone'
  BY <1>6, <1>7, <1>14, <1>15 DEF StartsInv, HandledIsGone
<1>21. FirstInVain'
  <2>1. \A i, k \in DOMAIN starts' : i < k => i \in DOMAIN starts
    BY <1>4, <1>6
  <2>2. ASSUME NEW i \in DOMAIN starts, starts[i].review.number = entry.review.number
        PROVE  starts[i].overlaps \/ Vain(starts[i])
    BY <2>2, <1>9, <1>13 DEF OnShow
  <2> QED
    BY <2>1, <2>2, <1>6, <1>7 DEF StartsInv, FirstInVain
<1> QED
  BY <1>10, <1>11, <1>12, <1>16, <1>17, <1>18, <1>19, <1>20, <1>21 DEF FormInv, StartsInv

\* Where starts only move on and the form stays, little is left to show.
LEMMA MovesKeepForm ==
  ASSUME FormInv, Moves, starts' \in Seq(StartEntry),
         form' = form, reviewing' = reviewing, editedSince' = editedSince,
         fetching' = fetching, reviews' = reviews, deeds' = deeds,
         reviewedRequest' \in {reviewedRequest, NoReview},
         typed' \in BOOLEAN, startDisabled' \in BOOLEAN, loading' \in BOOLEAN,
         retryingJobID' \in {retryingJobID, NoJob},
         transferQueue' \subseteq JobIDs, answer' \subseteq JobIDs,
         job' \in [JobIDs -> [status : Statuses, request : Requests \cup {NoRequest}]],
         \A j \in JobIDs : job[j].request \in Requests => job'[j].request \in Requests
  PROVE  FormInv'
<1>1. TypeOK'
  <2>1. starts' \in Seq([review : Reviews, retry : JobIDs \cup {NoJob}, stage : Stages,
                         job : JobIDs \cup {NoJob}, overlaps : BOOLEAN])
    BY DEF StartEntry
  <2> QED
    BY <2>1, NoReviewIsReview DEF FormInv, TypeOK
<1>2. ReviewsAreKept'
  BY DEF FormInv, ReviewsAreKept, Moves
<1>3. RequestsAreKept' /\ ReviewingTheForm' /\ ReviewIsOfTheForm'
  BY DEF FormInv, TypeOK, RequestsAreKept, ReviewingTheForm, ReviewIsOfTheForm
<1> QED
  BY <1>1, <1>2, <1>3 DEF FormInv

LEMMA StartServedInv ==
  ASSUME FormInv, StartsInv, NEW i \in DOMAIN starts, StartServed(i)
  PROVE  FormInv' /\ StartsInv'
<1>1. starts \in Seq(StartEntry) /\ starts[i] \in StartEntry
  BY TypeOfStarts DEF FormInv
<1>2. /\ starts[i].stage = "sent"
      /\ UNCHANGED <<formVars, listVars, deeds>>
  BY DEF StartServed
<1>3. /\ form' = form /\ typed' = typed /\ retryingJobID' = retryingJobID
      /\ reviewing' = reviewing /\ editedSince' = editedSince
      /\ reviewedRequest' = reviewedRequest /\ reviews' = reviews
      /\ startDisabled' = startDisabled /\ fetching' = fetching
      /\ transferQueue' = transferQueue /\ loading' = loading /\ answer' = answer
      /\ deeds' = deeds
  BY <1>2 DEF formVars, listVars
<1>4. CASE starts' = [starts EXCEPT ![i].stage = "refused"] /\ job' = job
  <2>1. /\ starts' \in Seq(StartEntry) /\ DOMAIN starts' = DOMAIN starts
        /\ starts'[i] = [starts[i] EXCEPT !.stage = "refused"]
        /\ \A k \in DOMAIN starts : k # i => starts'[k] = starts[k]
    BY <1>1, <1>4, OneAdvances DEF Stages
  <2>2. Moves
    BY <1>1, <1>2, <2>1 DEF Moves, UnderWay, Pending, Vain, StartEntry
  <2>3. FormInv'
    BY <1>3, <1>4, <2>1, <2>2, MovesKeepForm DEF FormInv, TypeOK
  <2> QED
    BY <1>1, <1>3, <2>2, <2>3, MovesKeepStarts DEF FormInv, ButtonIsKept
<1>5. ASSUME NEW j \in JobIDs,
             starts' = [starts EXCEPT ![i].stage = "accepted", ![i].job = j],
             \/ job' = [job EXCEPT ![j] = [status |-> "active",
                                          request |-> starts[i].review.request]]
             \/ job' = [job EXCEPT ![j].status = "active"]
      PROVE  FormInv' /\ StartsInv'
  <2>1. /\ starts' \in Seq(StartEntry) /\ DOMAIN starts' = DOMAIN starts
        /\ starts'[i] = [starts[i] EXCEPT !.stage = "accepted", !.job = j]
        /\ \A k \in DOMAIN starts : k # i => starts'[k] = starts[k]
    BY <1>1, <1>5, OneMoves DEF Stages
  <2>2. Moves
    BY <1>1, <1>2, <2>1 DEF Moves, UnderWay, Pending, Vain, StartEntry
  <2>3. starts[i].review.request \in Requests
    BY DEF FormInv, ReviewsAreKept
  <2>4. /\ job' \in [JobIDs -> [status : Statuses, request : Requests \cup {NoRequest}]]
        /\ \A k \in JobIDs : job[k].request \in Requests => job'[k].request \in Requests
    <3>1. /\ job \in [JobIDs -> [status : Statuses, request : Requests \cup {NoRequest}]]
          /\ "active" \in Statuses
      BY DEF FormInv, TypeOK, Statuses
    <3>2. \A r \in [status : Statuses, request : Requests \cup {NoRequest}] :
            [r EXCEPT !.status = "active"]
              \in [status : Statuses, request : Requests \cup {NoRequest}]
      BY <3>1
    <3>3. CASE job' = [job EXCEPT ![j] = [status |-> "active",
                                          request |-> starts[i].review.request]]
      BY <3>1, <3>3, <2>3
    <3>4. CASE job' = [job EXCEPT ![j].status = "active"]
      <4>1. \A k \in JobIDs : job'[k] = IF k = j THEN [job[k] EXCEPT !.status = "active"]
                                        ELSE job[k]
        BY <3>1, <3>4
      <4>2. \A k \in JobIDs : job'[k].request = job[k].request
        BY <3>1, <4>1
      <4> QED
        BY <3>1, <3>2, <3>4, <4>1, <4>2
    <3> QED
      BY <3>3, <3>4, <1>5
  <2>5. FormInv'
    BY <1>3, <2>1, <2>2, <2>4, MovesKeepForm DEF FormInv, TypeOK
  <2> QED
    BY <1>1, <1>3, <2>2, <2>5, MovesKeepStarts DEF FormInv, ButtonIsKept
<1> QED
  BY <1>4, <1>5 DEF StartServed, Enqueued, Retried

LEMMA StartEndsInv ==
  ASSUME FormInv, StartsInv, NEW i \in DOMAIN starts,
         StartRefused(i) \/ StartUnreported(i) \/ StartReported(i)
  PROVE  FormInv' /\ StartsInv'
<1>1. starts \in Seq(StartEntry) /\ starts[i] \in StartEntry
  BY TypeOfStarts DEF FormInv
<1>2. /\ form' = form /\ reviewing' = reviewing /\ editedSince' = editedSince
      /\ fetching' = fetching /\ reviews' = reviews /\ deeds' = deeds /\ job' = job
      /\ transferQueue' = transferQueue
  BY DEF StartRefused, StartUnreported, StartReported, LoadTransferJobs, listVars
<1>3. /\ typed' \in BOOLEAN /\ startDisabled' \in BOOLEAN /\ loading' \in BOOLEAN
      /\ answer' \subseteq JobIDs /\ retryingJobID' \in {retryingJobID, NoJob}
      /\ reviewedRequest' \in {reviewedRequest, NoReview}
  BY DEF FormInv, TypeOK, StartRefused, StartUnreported, StartReported, LoadTransferJobs,
         listVars, Active
<1>4. PICK stage \in Stages :
        /\ starts' = [starts EXCEPT ![i].stage = stage]
        /\ \/ stage = "failed" /\ starts[i].stage = "refused"
           \/ /\ stage \in {"unreported", "reported", "listing"}
              /\ starts[i].stage = "accepted" /\ reviewedRequest' = NoReview
  BY DEF StartRefused, StartUnreported, StartReported, Stages
<1>5. /\ starts' \in Seq(StartEntry) /\ DOMAIN starts' = DOMAIN starts
      /\ starts'[i] = [starts[i] EXCEPT !.stage = stage]
      /\ \A k \in DOMAIN starts : k # i => starts'[k] = starts[k]
  BY <1>1, <1>4, OneAdvances
<1>6. Moves
  BY <1>1, <1>4, <1>5 DEF Moves, UnderWay, Pending, Vain, StartEntry
<1>7. ButtonIsKept
  <2>1. CASE starts[i].stage = "refused"
    BY <2>1, <1>3, <1>4 DEF ButtonIsKept, UnderWay, Pending
  <2> QED
    BY <2>1, <1>4 DEF ButtonIsKept
<1>8. FormInv'
  BY <1>2, <1>3, <1>5, <1>6, MovesKeepForm DEF FormInv, TypeOK
<1> QED
  BY <1>1, <1>6, <1>7, <1>8, MovesKeepStarts DEF FormInv

-----------------------------------------------------------------------------
(* The list *)

LEMMA ShowTransferJobsInv ==
  ASSUME FormInv, StartsInv, ShowTransferJobs
  PROVE  FormInv' /\ StartsInv'
<1>1. starts \in Seq(StartEntry) /\ Len(starts) \in Nat /\ DOMAIN starts = 1..Len(starts)
  BY TypeOfStarts DEF FormInv
<1>2. /\ form' = form /\ typed' = typed /\ retryingJobID' = retryingJobID
      /\ reviewing' = reviewing /\ editedSince' = editedSince
      /\ reviewedRequest' = reviewedRequest /\ reviews' = reviews
      /\ fetching' = fetching /\ deeds' = deeds /\ job' = job
      /\ transferQueue' \in {answer, {}} /\ loading' = FALSE /\ answer' = {}
  BY DEF ShowTransferJobs
<1>3. starts' = [i \in DOMAIN starts |->
                  IF starts[i].stage = "listing" THEN [starts[i] EXCEPT !.stage = "reported"]
                  ELSE starts[i]]
  BY DEF ShowTransferJobs
<1>4. /\ startDisabled' \in BOOLEAN
      /\ startDisabled' = startDisabled \/ \E k \in DOMAIN starts : starts[k].stage = "listing"
  BY DEF ShowTransferJobs, FormInv, TypeOK
<1>5. \A i \in DOMAIN starts : starts[i] \in StartEntry /\ starts'[i] \in StartEntry
  <2>1. \A s \in StartEntry : [s EXCEPT !.stage = "reported"] \in StartEntry
    BY DEF StartEntry, Stages
  <2>2. \A i \in DOMAIN starts : starts[i] \in StartEntry
    BY <1>1
  <2> QED
    BY <1>3, <2>1, <2>2
<1>6. starts' \in Seq(StartEntry) /\ DOMAIN starts' = DOMAIN starts
  <2>1. DOMAIN starts' = 1..Len(starts) /\ starts' \in [1..Len(starts) -> StartEntry]
    BY <1>1, <1>3, <1>5
  <2> QED
    BY <1>1, <2>1
<1>7. Moves
  BY <1>3, <1>5, <1>6 DEF Moves, UnderWay, Pending, Vain, StartEntry
<1>8. ButtonIsKept
  BY <1>2, <1>4 DEF ButtonIsKept, UnderWay, Pending
<1>9. FormInv'
  BY <1>2, <1>4, <1>6, <1>7, MovesKeepForm DEF FormInv, TypeOK
<1> QED
  BY <1>1, <1>7, <1>8, <1>9, MovesKeepStarts DEF FormInv

\* A call for the list, a change of a job, and a step that changes nothing.
LEMMA ListStepInv ==
  ASSUME FormInv, StartsInv,
         Refresh \/ Poll \/ (\E j \in JobIDs : JobChanges(j)) \/ UNCHANGED vars
  PROVE  FormInv' /\ StartsInv'
<1>1. /\ form' = form /\ typed' = typed /\ retryingJobID' = retryingJobID
      /\ reviewing' = reviewing /\ editedSince' = editedSince
      /\ reviewedRequest' = reviewedRequest /\ reviews' = reviews
      /\ startDisabled' = startDisabled /\ fetching' = fetching
      /\ starts' = starts /\ deeds' = deeds /\ transferQueue' = transferQueue
  BY DEF Refresh, Poll, JobChanges, LoadTransferJobs, vars, formVars, listVars
<1>2. /\ loading' \in BOOLEAN /\ answer' \subseteq JobIDs
  BY DEF Refresh, Poll, JobChanges, LoadTransferJobs, vars, listVars, Active, FormInv, TypeOK
<1>3. /\ job' \in [JobIDs -> [status : Statuses, request : Requests \cup {NoRequest}]]
      /\ \A k \in JobIDs : job'[k].request = job[k].request
  <2>1. CASE Refresh \/ Poll \/ UNCHANGED vars
    BY <2>1 DEF Refresh, Poll, vars, FormInv, TypeOK
  <2>2. ASSUME NEW j \in JobIDs, NEW status \in Statuses,
               job' = [job EXCEPT ![j].status = status]
        PROVE  /\ job' \in [JobIDs -> [status : Statuses, request : Requests \cup {NoRequest}]]
               /\ \A k \in JobIDs : job'[k].request = job[k].request
    <3>1. \A k \in JobIDs :
            job'[k] = IF k = j THEN [job[k] EXCEPT !.status = status] ELSE job[k]
      BY <2>2 DEF FormInv, TypeOK
    <3>2. \A k \in JobIDs :
            job[k] \in [status : Statuses, request : Requests \cup {NoRequest}]
      BY DEF FormInv, TypeOK
    <3>3. \A entry \in [status : Statuses, request : Requests \cup {NoRequest}] :
            /\ [entry EXCEPT !.status = status]
                 \in [status : Statuses, request : Requests \cup {NoRequest}]
            /\ [entry EXCEPT !.status = status].request = entry.request
      BY <2>2
    <3>4. job' = [k \in JobIDs |-> job'[k]]
      BY <2>2 DEF FormInv, TypeOK
    <3> QED
      BY <3>1, <3>2, <3>3, <3>4
  <2> QED
    BY <2>1, <2>2 DEF JobChanges, Statuses
<1>4. starts \in Seq(StartEntry)
  BY TypeOfStarts DEF FormInv
<1>5. FormInv'
  BY <1>1, <1>2, <1>3, <1>4, StillMoves, MovesKeepForm DEF FormInv, TypeOK
<1> QED
  BY <1>1, <1>4, <1>5, StillMoves, MovesKeepStarts DEF FormInv, ButtonIsKept

-----------------------------------------------------------------------------
(* The theorems *)

LEMMA NextInv ==
  ASSUME FormInv, StartsInv, [Next]_vars
  PROVE  FormInv' /\ StartsInv'
<1>1. CASE User
  BY <1>1, FormStepInv, StartInv DEF User, FormStep
<1>2. CASE Answers
  BY <1>2, FormStepInv, ReviewedInv, StartServedInv, StartEndsInv, ShowTransferJobsInv
  DEF Answers, FormStep
<1>3. CASE Refresh \/ Poll \/ (\E j \in JobIDs : JobChanges(j)) \/ UNCHANGED vars
  BY <1>3, ListStepInv
<1> QED
  BY <1>1, <1>2, <1>3 DEF Next

LEMMA InvAlways == Spec => [](FormInv /\ StartsInv)
<1>1. Init => FormInv /\ StartsInv
  BY InitInv
<1>2. (FormInv /\ StartsInv) /\ [Next]_vars => (FormInv /\ StartsInv)'
  BY NextInv
<1> QED
  BY <1>1, <1>2, PTL DEF Spec

\* Every variable keeps its shape.
THEOREM TypeCorrect == Spec => []TypeOK
<1>1. FormInv => TypeOK
  BY DEF FormInv
<1> QED
  BY <1>1, InvAlways, PTL

\* Whatever the order of edits and answers, the review on show is one of the form
\* as it is, unless the form was changed while the review was being made.
THEOREM ReviewsFollowTheForm == Spec => []ReviewIsOfTheForm
<1>1. FormInv => ReviewIsOfTheForm
  BY DEF FormInv
<1> QED
  BY <1>1, InvAlways, PTL

\* However many starts and reviews overlap, only a start that was clicked before an
\* earlier one had come to its end can put its review in the queue twice.
THEOREM ReviewsStartOnce == Spec => []EachReviewStartsOnce
<1>1. StartsInv => EachReviewStartsOnce
  BY DEF StartsInv, JobsAreAccepted, FirstInVain, EachReviewStartsOnce
<1> QED
  BY <1>1, InvAlways, PTL
=============================================================================
