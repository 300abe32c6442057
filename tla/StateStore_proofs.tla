-------------------------- MODULE StateStore_proofs --------------------------
(***************************************************************************)
(* Proofs about StateStore for every set of callers, sessions, jobs and    *)
(* history entries, every limit of the history and every Environment.      *)
(***************************************************************************)
EXTENDS StateStore, SequenceTheorems, TLAPS

USE StoreAssumption, TornAssumption

\* Places between taking the mutex and releasing it.
Preparing == {"creating", "writing", "syncing", "renaming"}
Holding   == Preparing \cup {"removing"}

FileIsWhole == /\ shown.state \in States /\ shown.whole = TRUE
               /\ stable \in States
MutexIsHeld == \A c \in Callers : call[c].at \in Holding <=> mu = c
RequestsAreKept ==
  \A c \in Callers :
    call[c].at \in {"forgetting", "waiting", "remembering"} \cup Holding
      => call[c].request \in Requests
WorkIsCurrent ==
  \A c \in Callers :
    call[c].at \in Preparing => call[c].state = Changed(call[c].request, shown.state)
ReadyIsSynced ==
  \A c \in Callers :
    call[c].at = "renaming" => temporary[c] = FileWith(call[c].state, TRUE)
TemporaryIsHeld ==
  \A c \in Callers :
    temporary[c] # NoTemporary => call[c].at \in Holding \ {"creating"}

IInv == /\ TypeOK /\ FileIsWhole /\ MutexIsHeld /\ RequestsAreKept
        /\ WorkIsCurrent /\ ReadyIsSynced /\ TemporaryIsHeld
-----------------------------------------------------------------------------
(* The operators *)

LEMMA RequestFacts ==
  ASSUME NEW r \in Requests
  PROVE  \/ /\ r.op \in {"save", "delete"} /\ r.list = "sessions"
            /\ r.key \in Names /\ r.value \in SessionValues \cup {Absent}
         \/ /\ r.op \in {"save", "delete"} /\ r.list = "jobs"
            /\ r.key \in JobIDs /\ r.value \in {"saved", Absent}
         \/ r.op = "record" /\ r.list = "history" /\ r.value \in Entries
         \/ r.op = "clear" /\ r.list = "history"
  BY DEF Requests, SessionRequests, Request, SessionValues

LEMMA EmptyFacts == EmptyState \in States /\ Len(EmptyState.history) = 0
  BY DEF EmptyState, States

\* The trimmed history is what the abstract store keeps of it.
LEMMA TrimmedFacts ==
  ASSUME NEW history \in Seq(Entries)
  PROVE  /\ Trimmed(history) \in Seq(Entries)
         /\ Len(Trimmed(history)) <= MaxHistory
         /\ Trimmed(history) = Promise!Newest(history)
<1>1. Len(history) \in Nat
  OBVIOUS
<1>2. CASE Len(history) > MaxHistory
  <2> DEFINE first == Len(history) - MaxHistory + 1
  <2>1. first \in 1 .. Len(history) + 1
    BY <1>1, <1>2
  <2>2. /\ SubSeq(history, first, Len(history)) \in Seq(Entries)
        /\ Len(SubSeq(history, first, Len(history))) = MaxHistory
    BY <1>1, <1>2, <2>1, SubSeqProperties
  <2> QED
    BY <1>2, <2>2 DEF Trimmed, Promise!Newest
<1>3. CASE ~(Len(history) > MaxHistory)
  <2>1. SubSeq(history, 1, Len(history)) = history
    BY SubSeqFull
  <2> QED
    BY <1>1, <1>3, <2>1 DEF Trimmed, Promise!Newest
<1> QED
  BY <1>2, <1>3

\* What the code does to the state is what the abstract store does to it.
LEMMA ChangedFacts ==
  ASSUME NEW r \in Requests, NEW s \in States
  PROVE  /\ Changed(r, s) \in States
         /\ Changed(r, s) = Promise!Applied(r, s)
<1>1. CASE r.op \in {"save", "delete"} /\ r.list = "sessions"
  <2>1. r.key \in Names /\ r.value \in SessionValues \cup {Absent}
    BY <1>1, RequestFacts
  <2>2. Changed(r, s) = [s EXCEPT !.sessions[r.key] = r.value]
    BY <1>1 DEF Changed
  <2>3. Promise!Applied(r, s) = [s EXCEPT !.sessions[r.key] = r.value]
    BY <1>1 DEF Promise!Applied
  <2> DEFINE list == [s.sessions EXCEPT ![r.key] = r.value]
  <2>4. list \in [Names -> SessionValues \cup {Absent}]
    BY <2>1 DEF States
  <2>5. [s EXCEPT !.sessions[r.key] = r.value] = [s EXCEPT !.sessions = list]
    OBVIOUS
  <2>6. [s EXCEPT !.sessions = list] \in States
    <3> HIDE DEF list
    <3> QED
      BY <2>4 DEF States
  <2> QED
    BY <2>2, <2>3, <2>5, <2>6
<1>2. CASE r.op \in {"save", "delete"} /\ r.list = "jobs"
  <2>1. r.key \in JobIDs /\ r.value \in {"saved", Absent}
    BY <1>2, RequestFacts
  <2>2. Changed(r, s) = [s EXCEPT !.jobs[r.key] = r.value]
    BY <1>2 DEF Changed
  <2>3. Promise!Applied(r, s) = [s EXCEPT !.jobs[r.key] = r.value]
    BY <1>2 DEF Promise!Applied
  <2> DEFINE list == [s.jobs EXCEPT ![r.key] = r.value]
  <2>4. list \in [JobIDs -> {"saved", Absent}]
    BY <2>1 DEF States
  <2>5. [s EXCEPT !.jobs[r.key] = r.value] = [s EXCEPT !.jobs = list]
    OBVIOUS
  <2>6. [s EXCEPT !.jobs = list] \in States
    <3> HIDE DEF list
    <3> QED
      BY <2>4 DEF States
  <2> QED
    BY <2>2, <2>3, <2>5, <2>6
<1>3. CASE r.op = "record" /\ r.list = "history"
  <2>1. Append(s.history, r.value) \in Seq(Entries)
    BY <1>3, RequestFacts, AppendProperties DEF States
  <2>2. Changed(r, s) = [s EXCEPT !.history = Trimmed(Append(s.history, r.value))]
    BY <1>3 DEF Changed
  <2>3. Promise!Applied(r, s)
          = [s EXCEPT !.history = Promise!Newest(Append(s.history, r.value))]
    BY <1>3 DEF Promise!Applied
  <2> QED
    BY <2>1, <2>2, <2>3, TrimmedFacts DEF States
<1>4. CASE r.op = "clear" /\ r.list = "history"
  <2>1. Changed(r, s) = [s EXCEPT !.history = <<>>]
    BY <1>4 DEF Changed
  <2>2. Promise!Applied(r, s) = [s EXCEPT !.history = <<>>]
    BY <1>4 DEF Promise!Applied
  <2>3. <<>> \in Seq(Entries) /\ Len(<<>>) <= MaxHistory
    OBVIOUS
  <2> QED
    BY <2>1, <2>2, <2>3 DEF States
<1> QED
  BY <1>1, <1>2, <1>3, <1>4, RequestFacts
-----------------------------------------------------------------------------
(* The invariant *)

LEMMA EndedFacts ==
  ASSUME NEW at \in Places
  PROVE  Ended(at) \in Calls /\ Ended(at).at = at /\ Ended(at).request = NoRequest
  BY EmptyFacts DEF Ended, Call, Calls

LEMMA InitInvariant == Init => IInv
<1> SUFFICES ASSUME Init PROVE IInv
  OBVIOUS
<1>1. NoCall \in Calls /\ NoCall.at = "idle"
  BY EndedFacts DEF NoCall, Places
<1>2. FileWith(EmptyState, TRUE) \in Files
  BY EmptyFacts DEF FileWith, Files
<1>3. TypeOK
  BY <1>1, <1>2, EmptyFacts DEF Init, TypeOK
<1>4. FileIsWhole
  BY EmptyFacts DEF Init, FileIsWhole, FileWith
<1>5. \A c \in Callers :
        call[c].at = "idle" /\ temporary[c] = NoTemporary /\ mu # c
  BY <1>1 DEF Init
<1>6. /\ MutexIsHeld /\ RequestsAreKept /\ WorkIsCurrent /\ ReadyIsSynced
      /\ TemporaryIsHeld
  BY <1>5 DEF MutexIsHeld, RequestsAreKept, WorkIsCurrent, ReadyIsSynced,
              TemporaryIsHeld, Holding, Preparing
<1> QED
  BY <1>3, <1>4, <1>6 DEF IInv

\* A call that stays away from the mutex disturbs nobody.
LEMMA OutsideStep ==
  ASSUME IInv, NEW c \in Callers, NEW entry \in Calls,
         call[c].at \notin Holding, entry.at \notin Holding,
         entry.at \in {"forgetting", "waiting", "remembering"} => entry.request \in Requests,
         call' = [call EXCEPT ![c] = entry],
         secret' \subseteq Names, disturbed' \subseteq Names,
         UNCHANGED <<shown, stable, mu, temporary>>
  PROVE  IInv'
<1>1. TypeOK' /\ FileIsWhole'
  BY DEF IInv, TypeOK, FileIsWhole
<1>2. call'[c] = entry /\ \A d \in Callers \ {c} : call'[d] = call[d]
  BY DEF IInv, TypeOK
<1>3. MutexIsHeld' /\ RequestsAreKept'
  BY <1>2 DEF IInv, MutexIsHeld, RequestsAreKept
<1>4. WorkIsCurrent' /\ ReadyIsSynced'
  BY <1>2 DEF IInv, WorkIsCurrent, ReadyIsSynced, Holding, Preparing
<1>5. TemporaryIsHeld'
  BY <1>2 DEF IInv, TemporaryIsHeld
<1> QED
  BY <1>1, <1>3, <1>4, <1>5 DEF IInv

LEMMA SessionFacts ==
  ASSUME IInv, NEW c \in Callers
  PROVE  SessionOf(c) \subseteq Names
<1>1. call[c].request \in Requests \cup {NoRequest}
  BY DEF IInv, TypeOK, Calls
<1>2. call[c].request.list = "sessions" => call[c].request.key \in Names
  BY <1>1, RequestFacts DEF NoRequest, Request
<1> QED
  BY <1>2 DEF SessionOf

LEMMA OverFacts ==
  ASSUME IInv, NEW c \in Callers, NEW at \in Places, NEW done \in BOOLEAN,
         Over(c, at, done)
  PROVE  /\ call' = [call EXCEPT ![c] = Ended(at)]
         /\ disturbed' \subseteq Names
  BY SessionFacts DEF Over, IInv, TypeOK

\* A step of the caller that holds the mutex: the file stays as it is.
LEMMA HolderStep ==
  ASSUME IInv, NEW c \in Callers, NEW to \in Holding \ {"creating"},
         NEW file \in Files \cup {NoTemporary},
         call[c].at \in Holding,
         to \in Preparing => call[c].at \in Preparing,
         to = "renaming" => file = FileWith(call[c].state, TRUE),
         call' = [call EXCEPT ![c].at = to],
         temporary' = [temporary EXCEPT ![c] = file],
         UNCHANGED <<shown, stable, mu, secret, disturbed>>
  PROVE  IInv'
<1>1. call[c] \in Calls /\ to \in Places
  BY DEF IInv, TypeOK, Holding, Preparing, Places
<1>2. [call[c] EXCEPT !.at = to] \in Calls
  BY <1>1 DEF Calls
<1>3. TypeOK' /\ FileIsWhole'
  BY <1>2 DEF IInv, TypeOK, FileIsWhole
<1>4. /\ call'[c].at = to /\ call'[c].state = call[c].state
      /\ call'[c].request = call[c].request
      /\ \A d \in Callers \ {c} : call'[d] = call[d]
  BY <1>1 DEF IInv, TypeOK, Calls
<1>5. temporary'[c] = file /\ \A d \in Callers \ {c} : temporary'[d] = temporary[d]
  BY DEF IInv, TypeOK
<1>6. MutexIsHeld' /\ RequestsAreKept'
  BY <1>4 DEF IInv, MutexIsHeld, RequestsAreKept
<1>7. WorkIsCurrent'
  BY <1>4 DEF IInv, WorkIsCurrent
<1>8. ReadyIsSynced' /\ TemporaryIsHeld'
  BY <1>4, <1>5 DEF IInv, ReadyIsSynced, TemporaryIsHeld
<1> QED
  BY <1>3, <1>6, <1>7, <1>8 DEF IInv

\* The caller that holds the mutex releases it: with a new file, or without.
LEMMA ReleaseStep ==
  ASSUME IInv, NEW c \in Callers, NEW entry \in Calls, NEW file \in Files,
         call[c].at \in Holding, entry.at \notin Holding,
         entry.at \in {"forgetting", "waiting", "remembering"} => entry.request \in Requests,
         call' = [call EXCEPT ![c] = entry],
         temporary' = [temporary EXCEPT ![c] = NoTemporary],
         shown' = file, file.state \in States, file.whole = TRUE,
         mu' = NoCaller, disturbed' \subseteq Names,
         UNCHANGED <<stable, secret>>
  PROVE  IInv'
<1>1. TypeOK' /\ FileIsWhole'
  BY DEF IInv, TypeOK, FileIsWhole
<1>2. /\ call'[c] = entry /\ temporary'[c] = NoTemporary
      /\ \A d \in Callers \ {c} : call'[d] = call[d] /\ temporary'[d] = temporary[d]
  BY DEF IInv, TypeOK
<1>3. mu = c /\ \A d \in Callers \ {c} : call[d].at \notin Holding
  BY DEF IInv, MutexIsHeld
<1>4. MutexIsHeld' /\ RequestsAreKept'
  BY <1>2, <1>3 DEF IInv, MutexIsHeld, RequestsAreKept
<1>5. \A d \in Callers : call'[d].at \notin Preparing
  BY <1>2, <1>3 DEF Holding
<1>6. WorkIsCurrent' /\ ReadyIsSynced'
  BY <1>5 DEF WorkIsCurrent, ReadyIsSynced, Preparing
<1>7. TemporaryIsHeld'
  BY <1>2 DEF IInv, TemporaryIsHeld
<1> QED
  BY <1>1, <1>4, <1>6, <1>7 DEF IInv

\* A new call changes what others know of theirs in nothing but alone.
LEMMA InvokeFacts ==
  ASSUME IInv, NEW c \in Callers, Invoke(c)
  PROVE  /\ call[c].at = "idle"
         /\ call'[c].at \in {"forgetting", "waiting"} /\ call'[c].request \in Requests
         /\ \A d \in Callers \ {c} :
              /\ call'[d].at = call[d].at /\ call'[d].request = call[d].request
              /\ call'[d].state = call[d].state
         /\ call' \in [Callers -> Calls]
         /\ disturbed' \subseteq Names
         /\ UNCHANGED <<shown, stable, temporary, mu, secret>>
<1>1. PICK r \in Requests :
        LET about  == IF r.list = "sessions" THEN {r.key} ELSE {}
            others == {d \in Callers : SessionOf(d) \cap about # {}}
        IN /\ call' = [d \in Callers |->
                         IF d = c
                           THEN Call(IF r.op = "delete" /\ about # {} THEN "forgetting"
                                                                      ELSE "waiting",
                                     r, EmptyState, others = {})
                           ELSE [call[d] EXCEPT !.alone = @ /\ d \notin others]]
           /\ disturbed' = IF others # {} THEN disturbed \cup about ELSE disturbed
  BY DEF Invoke
<1> DEFINE about  == IF r.list = "sessions" THEN {r.key} ELSE {}
           others == {d \in Callers : SessionOf(d) \cap about # {}}
           place  == IF r.op = "delete" /\ about # {} THEN "forgetting" ELSE "waiting"
<1>2. about \subseteq Names
  BY RequestFacts
<1>3. disturbed' \subseteq Names
  BY <1>1, <1>2 DEF IInv, TypeOK
<1>4. UNCHANGED <<shown, stable, temporary, mu, secret>> /\ call[c].at = "idle"
  BY DEF Invoke, InCall, fileVars
<1>5. Call(place, r, EmptyState, others = {}) \in Calls
  BY EmptyFacts DEF Call, Calls, Places
<1>6. /\ call'[c].at \in {"forgetting", "waiting"} /\ call'[c].request = r
      /\ call'[c] \in Calls
  BY <1>1, <1>5 DEF Call
<1>7. ASSUME NEW d \in Callers \ {c}
      PROVE  /\ call'[d] \in Calls /\ call'[d].at = call[d].at
             /\ call'[d].request = call[d].request /\ call'[d].state = call[d].state
  <2>1. call[d] \in Calls
    BY DEF IInv, TypeOK
  <2>2. call'[d] = [call[d] EXCEPT !.alone = call[d].alone /\ d \notin others]
    BY <1>1
  <2> HIDE DEF others
  <2> QED
    BY <2>1, <2>2 DEF Calls
<1>8. call' \in [Callers -> Calls]
  <2>1. \A d \in Callers : call'[d] \in Calls
    BY <1>6, <1>7
  <2> QED
    BY <1>1, <2>1
<1> QED
  BY <1>3, <1>4, <1>6, <1>7, <1>8

LEMMA InvokeInvariant ==
  ASSUME IInv, NEW c \in Callers, Invoke(c)
  PROVE  IInv'
<1>1. TypeOK' /\ FileIsWhole'
  BY InvokeFacts DEF IInv, TypeOK, FileIsWhole
<1>2. MutexIsHeld' /\ RequestsAreKept'
  BY InvokeFacts DEF IInv, MutexIsHeld, RequestsAreKept, Holding, Preparing
<1>3. WorkIsCurrent'
  BY InvokeFacts DEF IInv, WorkIsCurrent, Holding, Preparing
<1>4. call[c].at = "idle" /\ temporary[c] = NoTemporary /\ temporary' = temporary
  BY InvokeFacts DEF IInv, TemporaryIsHeld, Holding, Preparing
<1>5. ReadyIsSynced'
  <2>1. SUFFICES ASSUME NEW d \in Callers, call'[d].at = "renaming"
                 PROVE  temporary'[d] = FileWith(call'[d].state, TRUE)
    BY DEF ReadyIsSynced
  <2>2. d # c /\ call[d].at = "renaming" /\ call'[d].state = call[d].state
    BY <2>1, InvokeFacts
  <2> QED
    BY <1>4, <2>2 DEF IInv, ReadyIsSynced
<1>6. TemporaryIsHeld'
  <2>1. SUFFICES ASSUME NEW d \in Callers, temporary'[d] # NoTemporary
                 PROVE  call'[d].at \in Holding \ {"creating"}
    BY DEF TemporaryIsHeld
  <2>2. d # c /\ call[d].at \in Holding \ {"creating"}
    BY <1>4, <2>1 DEF IInv, TemporaryIsHeld
  <2> QED
    BY <2>2, InvokeFacts
<1> QED
  BY <1>1, <1>2, <1>3, <1>5, <1>6 DEF IInv

LEMMA ForgetFacts ==
  ASSUME IInv, NEW c \in Callers, ForgetPassword(c)
  PROVE  /\ call[c].at = "forgetting" /\ call[c].request \in Requests
         /\ \E entry \in Calls : /\ entry.at = "waiting" /\ entry.request = call[c].request
                                 /\ call' = [call EXCEPT ![c] = entry]
<1>1. call[c] \in Calls /\ call[c].at = "forgetting" /\ call[c].request \in Requests
  BY DEF ForgetPassword, IInv, TypeOK, RequestsAreKept
<1>2. PICK alone \in BOOLEAN :
        call' = [call EXCEPT ![c] = [call[c] EXCEPT !.at = "waiting", !.alone = alone]]
  <2>1. call[c].alone \in BOOLEAN
    BY <1>1 DEF Calls
  <2>2. [call[c] EXCEPT !.at = "waiting"]
          = [call[c] EXCEPT !.at = "waiting", !.alone = call[c].alone]
    BY <1>1 DEF Calls
  <2> QED
    BY <2>1, <2>2 DEF ForgetPassword
<1> DEFINE entry == [call[c] EXCEPT !.at = "waiting", !.alone = alone]
<1>3. entry \in Calls /\ entry.at = "waiting" /\ entry.request = call[c].request
  BY <1>1 DEF Calls, Places
<1> HIDE DEF entry
<1> QED
  BY <1>1, <1>2, <1>3 DEF entry

\* Steps before and after the mutex.
LEMMA OutsideInvariant ==
  ASSUME IInv, NEW c \in Callers,
         ForgetPassword(c) \/ SettlePassword(c) \/ SettleFails(c) \/ Return(c)
  PROVE  IInv'
<1>1. call[c] \in Calls /\ SessionOf(c) \subseteq Names
      /\ secret \subseteq Names /\ disturbed \subseteq Names
  BY SessionFacts DEF IInv, TypeOK
<1>2. CASE ForgetPassword(c)
  <2>1. PICK entry \in Calls :
          /\ entry.at = "waiting" /\ entry.request = call[c].request
          /\ call' = [call EXCEPT ![c] = entry]
    BY <1>2, ForgetFacts
  <2>2. call[c].request \in Requests /\ call[c].at \notin Holding /\ entry.at \notin Holding
    BY <1>2, <2>1, ForgetFacts DEF Holding, Preparing
  <2>3. /\ secret' \subseteq Names /\ disturbed' \subseteq Names
        /\ UNCHANGED <<shown, stable, mu, temporary>>
    BY <1>1, <1>2 DEF ForgetPassword, fileVars
  <2> QED
    BY <2>1, <2>2, <2>3, OutsideStep
<1>3. CASE SettlePassword(c) \/ SettleFails(c) \/ Return(c)
  <2>1. call' = [call EXCEPT ![c] = Ended("idle")]
    BY <1>3 DEF SettlePassword, SettleFails, Return, Over, NoCall
  <2>2. /\ Ended("idle") \in Calls /\ Ended("idle").at = "idle"
    BY EndedFacts DEF Places
  <2>3. /\ secret' \subseteq Names /\ disturbed' \subseteq Names
        /\ UNCHANGED <<shown, stable, mu, temporary>>
    BY <1>1, <1>3 DEF SettlePassword, SettleFails, Return, Over, fileVars
  <2>4. call[c].at \notin Holding /\ Ended("idle").at \notin Holding
    BY <1>3, <2>2 DEF SettlePassword, SettleFails, Return, Holding, Preparing
  <2> QED
    BY <2>1, <2>2, <2>3, <2>4, OutsideStep
<1> QED
  BY <1>2, <1>3

LEMMA AcquireInvariant ==
  ASSUME IInv, NEW c \in Callers, Acquire(c)
  PROVE  IInv'
<1>1. /\ call[c].at = "waiting" /\ mu = NoCaller /\ Read(c)
      /\ UNCHANGED <<secret, shown, stable, temporary>>
  BY DEF Acquire, fileVars
<1>2. call[c] \in Calls /\ call[c].request \in Requests
      /\ secret \subseteq Names /\ disturbed \subseteq Names
  BY <1>1 DEF IInv, TypeOK, RequestsAreKept
<1>3. CASE /\ mu' = c /\ UNCHANGED disturbed
           /\ call' = [call EXCEPT ![c].at = "creating",
                         ![c].state = Changed(call[c].request, shown.state)]
  <2> DEFINE entry == [call[c] EXCEPT !.at = "creating",
                         !.state = Changed(call[c].request, shown.state)]
  <2>1. Changed(call[c].request, shown.state) \in States
    BY <1>2, ChangedFacts DEF IInv, FileIsWhole
  <2>2. /\ entry \in Calls /\ entry.at = "creating" /\ entry.request = call[c].request
        /\ entry.state = Changed(call[c].request, shown.state)
    BY <1>2, <2>1 DEF Calls, Places
  <2>3. call' = [call EXCEPT ![c] = entry]
    BY <1>3
  <2> HIDE DEF entry
  <2>4. call'[c] = entry /\ \A d \in Callers \ {c} : call'[d] = call[d]
    BY <2>3 DEF IInv, TypeOK
  <2>5. TypeOK' /\ FileIsWhole'
    BY <1>1, <1>2, <1>3, <2>2, <2>3 DEF IInv, TypeOK, FileIsWhole
  <2>6. \A d \in Callers : call[d].at \notin Holding
    BY <1>1 DEF IInv, MutexIsHeld
  <2>7. MutexIsHeld' /\ RequestsAreKept'
    BY <1>2, <1>3, <2>2, <2>4, <2>6
       DEF IInv, MutexIsHeld, RequestsAreKept, Holding, Preparing
  <2>8. WorkIsCurrent' /\ ReadyIsSynced'
    BY <1>1, <2>2, <2>4, <2>6
       DEF IInv, WorkIsCurrent, ReadyIsSynced, Holding, Preparing
  <2>9. \A d \in Callers : temporary'[d] = NoTemporary
    BY <1>1, <2>6 DEF IInv, TemporaryIsHeld
  <2>10. TemporaryIsHeld'
    BY <2>9 DEF TemporaryIsHeld
  <2> QED
    BY <2>5, <2>7, <2>8, <2>10 DEF IInv
<1>4. CASE /\ UNCHANGED mu
           /\ \E at \in {"refused", "applied"}, done \in BOOLEAN : Over(c, at, done)
  <2>1. PICK at \in {"refused", "applied"}, done \in BOOLEAN : Over(c, at, done)
    BY <1>4
  <2>2. at \in Places
    BY DEF Places
  <2>3. call' = [call EXCEPT ![c] = Ended(at)] /\ disturbed' \subseteq Names
    BY <2>1, <2>2, OverFacts
  <2>4. Ended(at) \in Calls /\ Ended(at).at = at
    BY <2>2, EndedFacts
  <2>5. call[c].at \notin Holding /\ at \notin Holding
    BY <1>1 DEF Holding, Preparing
  <2> QED
    BY <1>1, <1>2, <1>4, <2>3, <2>4, <2>5, OutsideStep
<1> QED
  BY <1>1, <1>3, <1>4 DEF Read

LEMMA HoldingInvariant ==
  ASSUME IInv, NEW c \in Callers,
         CreateTemporary(c) \/ Write(c) \/ Sync(c) \/ WriteFails(c)
  PROVE  IInv'
<1>1. call[c] \in Calls /\ temporary[c] \in Files \cup {NoTemporary}
  BY DEF IInv, TypeOK
<1>2. /\ FileWith(Torn, FALSE) \in Files
      /\ FileWith(call[c].state, FALSE) \in Files
      /\ FileWith(call[c].state, TRUE) \in Files
  BY <1>1 DEF FileWith, Files, Calls
<1>3. CASE CreateTemporary(c)
  BY <1>2, <1>3, HolderStep DEF CreateTemporary, WriteStep, Holding, Preparing
<1>4. CASE Write(c)
  BY <1>2, <1>4, HolderStep DEF Write, WriteStep, Holding, Preparing
<1>5. CASE Sync(c)
  BY <1>2, <1>5, HolderStep DEF Sync, WriteStep, Holding, Preparing
<1>6. CASE WriteFails(c)
  <2>1. temporary' = [temporary EXCEPT ![c] = temporary[c]]
    BY <1>6 DEF WriteFails, fileVars, IInv, TypeOK
  <2> QED
    BY <1>1, <1>6, <2>1, HolderStep DEF WriteFails, fileVars, Holding, Preparing
<1> QED
  BY <1>3, <1>4, <1>5, <1>6

LEMMA ReleaseInvariant ==
  ASSUME IInv, NEW c \in Callers,
         Rename(c) \/ CreateFails(c) \/ RemoveTemporary(c)
  PROVE  IInv'
<1>1. call[c] \in Calls /\ shown \in Files /\ disturbed \subseteq Names
      /\ shown.state \in States /\ shown.whole = TRUE
  BY DEF IInv, TypeOK, FileIsWhole
<1>2. \A at \in {"idle", "applied", "refused"} :
        /\ Ended(at) \in Calls /\ Ended(at).at = at /\ at \notin Holding
  BY EndedFacts DEF Places, Holding, Preparing
<1>3. CASE Rename(c)
  <2>1. call[c].at = "renaming" /\ call[c].at \in Holding
    BY <1>3 DEF Rename, Holding, Preparing
  <2>2. call[c].request \in Requests
    BY <2>1 DEF IInv, RequestsAreKept
  <2>3. temporary[c] = FileWith(call[c].state, TRUE)
    BY <2>1 DEF IInv, ReadyIsSynced
  <2>4. /\ temporary[c] \in Files /\ temporary[c].state \in States
        /\ temporary[c].whole = TRUE
    BY <1>1, <2>3 DEF FileWith, Files, Calls
  <2>5. PICK entry \in Calls :
          /\ entry.at \in {"remembering", "applied"}
          /\ entry.at = "remembering" => entry.request \in Requests
          /\ call' = [call EXCEPT ![c] = entry]
          /\ disturbed' \subseteq Names
    <3>1. CASE ConcernsKeyring(call[c].request)
      <4> DEFINE entry == [call[c] EXCEPT !.at = "remembering", !.state = EmptyState]
      <4>1. entry \in Calls /\ entry.at = "remembering" /\ entry.request = call[c].request
        BY <1>1, EmptyFacts DEF Calls, Places
      <4>2. call' = [call EXCEPT ![c] = entry] /\ disturbed' = disturbed
        BY <1>3, <3>1 DEF Rename
      <4> HIDE DEF entry
      <4> QED
        BY <1>1, <2>2, <4>1, <4>2
    <3>2. CASE ~ConcernsKeyring(call[c].request)
      <4>1. Over(c, "applied", TRUE)
        BY <1>3, <3>2 DEF Rename
      <4>2. call' = [call EXCEPT ![c] = Ended("applied")] /\ disturbed' \subseteq Names
        BY <4>1, OverFacts DEF Places
      <4> QED
        BY <1>2, <4>2
    <3> QED
      BY <3>1, <3>2
  <2>6. entry.at \notin Holding
    BY <2>5 DEF Holding, Preparing
  <2> QED
    BY <1>3, <2>1, <2>4, <2>5, <2>6, ReleaseStep DEF Rename
<1>4. CASE CreateFails(c)
  <2>1. Over(c, "refused", FALSE) /\ call[c].at = "creating" /\ mu' = NoCaller
        /\ UNCHANGED <<secret, shown, stable, temporary>>
    BY <1>4 DEF CreateFails, fileVars
  <2>2. call' = [call EXCEPT ![c] = Ended("refused")] /\ disturbed' \subseteq Names
    BY <2>1, OverFacts DEF Places
  <2>3. temporary' = [temporary EXCEPT ![c] = NoTemporary]
    BY <2>1 DEF IInv, TypeOK, TemporaryIsHeld
  <2>4. call[c].at \in Holding
    BY <2>1 DEF Holding, Preparing
  <2> QED
    BY <1>1, <1>2, <2>1, <2>2, <2>3, <2>4, ReleaseStep
<1>5. CASE RemoveTemporary(c)
  <2>1. Over(c, "idle", FALSE) /\ call[c].at = "removing" /\ mu' = NoCaller
        /\ temporary' = [temporary EXCEPT ![c] = NoTemporary]
        /\ UNCHANGED <<secret, shown, stable>>
    BY <1>5 DEF RemoveTemporary
  <2>2. call' = [call EXCEPT ![c] = Ended("idle")] /\ disturbed' \subseteq Names
    BY <2>1, OverFacts DEF Places
  <2>3. call[c].at \in Holding
    BY <2>1 DEF Holding
  <2> QED
    BY <1>1, <1>2, <2>1, <2>2, <2>3, ReleaseStep
<1> QED
  BY <1>3, <1>4, <1>5

\* The system below: nothing is in progress after the process has ended.
LEMMA SystemInvariant ==
  ASSUME IInv, Flush \/ Crash \/ PowerLoss
  PROVE  IInv'
<1>1. CASE Flush
  <2>1. stable' = shown.state /\ UNCHANGED <<shown, mu, call, temporary, secret, disturbed>>
    BY <1>1 DEF Flush, IInv, FileIsWhole
  <2>2. TypeOK' /\ FileIsWhole'
    BY <2>1 DEF IInv, TypeOK, FileIsWhole
  <2> QED
    BY <2>1, <2>2 DEF IInv, MutexIsHeld, RequestsAreKept, WorkIsCurrent,
                      ReadyIsSynced, TemporaryIsHeld
<1>2. CASE Crash \/ PowerLoss
  <2>1. NoCall \in Calls /\ NoCall.at = "idle"
    BY EndedFacts DEF NoCall, Places
  <2>2. /\ Ends /\ UNCHANGED <<stable, secret>>
        /\ disturbed' \subseteq Names
        /\ shown' \in {shown, FileWith(stable, TRUE)}
    BY <1>2 DEF Crash, PowerLoss, IInv, TypeOK
  <2>3. FileWith(stable, TRUE) \in Files /\ FileWith(stable, TRUE).state \in States
        /\ FileWith(stable, TRUE).whole = TRUE
    BY DEF IInv, FileIsWhole, FileWith, Files
  <2>4. TypeOK' /\ FileIsWhole'
    BY <2>1, <2>2, <2>3 DEF Ends, IInv, TypeOK, FileIsWhole
  <2>5. mu' = NoCaller /\ \A c \in Callers : call'[c].at = "idle" /\ temporary'[c] = NoTemporary
    BY <2>1, <2>2 DEF Ends
  <2>6. MutexIsHeld' /\ RequestsAreKept' /\ WorkIsCurrent' /\ ReadyIsSynced'
        /\ TemporaryIsHeld'
    BY <2>5 DEF MutexIsHeld, RequestsAreKept, WorkIsCurrent, ReadyIsSynced,
                TemporaryIsHeld, Holding, Preparing
  <2> QED
    BY <2>4, <2>6 DEF IInv
<1> QED
  BY <1>1, <1>2

LEMMA StepInvariant == IInv /\ [Next]_vars => IInv'
<1> SUFFICES ASSUME IInv, [Next]_vars PROVE IInv'
  OBVIOUS
<1>1. CASE \E c \in Callers : Step(c)
  <2>1. PICK c \in Callers : Step(c)
    BY <1>1
  <2> QED
    BY <2>1, InvokeInvariant, OutsideInvariant, AcquireInvariant, HoldingInvariant,
       ReleaseInvariant DEF Step
<1>2. CASE Flush \/ Crash \/ PowerLoss
  BY <1>2, SystemInvariant
<1>3. CASE UNCHANGED vars
  BY <1>3 DEF vars, IInv, TypeOK, FileIsWhole, MutexIsHeld, RequestsAreKept,
              WorkIsCurrent, ReadyIsSynced, TemporaryIsHeld
<1> QED
  BY <1>1, <1>2, <1>3 DEF Next

LEMMA Invariance == Spec => []IInv
  BY InitInvariant, StepInvariant, PTL DEF Spec

\* Every state of the file has at most maxHistoryEntries entries in its
\* history (recordHistory trims before it writes).
THEOREM TypeCorrect == Spec => []TypeOK
<1>1. IInv => TypeOK
  BY DEF IInv
<1> QED
  BY <1>1, Invariance, PTL

\* However power is lost, the next start reads a whole state file
\* (writeLocked syncs the temporary file before the rename).
THEOREM StateAlwaysSurvives == Spec => []StateSurvives
<1>1. IInv => StateSurvives
  BY DEF IInv, FileIsWhole, StateSurvives
<1> QED
  BY <1>1, Invariance, PTL

\* Only the holder of StateStore.mu has a temporary file (defers of writeLocked).
THEOREM TemporaryAlwaysOwned == Spec => []TemporaryIsOwned
<1>1. IInv => TemporaryIsOwned
  BY DEF IInv, TemporaryIsHeld, MutexIsHeld, TemporaryIsOwned
<1> QED
  BY <1>1, Invariance, PTL
-----------------------------------------------------------------------------
(* The refinement of AtomicStore *)

LEMMA ViewFacts ==
  ASSUME NEW entry \in Calls
  PROVE  /\ entry.at \in {"forgetting", "waiting"} \cup Preparing
              => View(entry) = [stage |-> "pending", request |-> entry.request]
         /\ entry.at \in {"removing", "refused"}
              => View(entry) = [stage |-> "refused", request |-> NoRequest]
         /\ entry.at \in {"remembering", "applied"}
              => View(entry) = [stage |-> "applied", request |-> NoRequest]
         /\ entry.at = "idle" => View(entry) = Promise!Idle
  BY DEF View, Stage, Preparing, Promise!Idle

LEMMA KnownStep ==
  ASSUME IInv, NEW c \in Callers, NEW entry \in Calls,
         call' = [call EXCEPT ![c] = entry]
  PROVE  /\ Known' = [Known EXCEPT ![c] = View(entry)]
         /\ Known[c] = View(call[c])
         /\ View(entry) = View(call[c]) => Known' = Known
<1>1. call'[c] = entry /\ \A d \in Callers \ {c} : call'[d] = call[d]
  BY DEF IInv, TypeOK
<1>2. Known' = [d \in Callers |-> View(call'[d])]
  BY DEF Known, View
<1>3. \A d \in Callers : Known[d] = View(call[d])
  BY DEF Known
<1>4. Known' = [Known EXCEPT ![c] = View(entry)]
  <2>1. Known' = [d \in Callers |-> IF d = c THEN View(entry) ELSE View(call[d])]
    BY <1>1, <1>2
  <2> QED
    BY <2>1 DEF Known
<1>5. ASSUME View(entry) = View(call[c]) PROVE Known' = Known
  <2>1. \A d \in Callers : View(call'[d]) = View(call[d])
    BY <1>1, <1>5
  <2> QED
    BY <1>2, <2>1 DEF Known
<1> QED
  BY <1>3, <1>4, <1>5

\* A step of one caller is a step of the abstract store.
LEMMA PromiseNext ==
  ASSUME NEW c \in Callers,
         Promise!Invoke(c) \/ Promise!Apply(c) \/ Promise!Refuse(c) \/ Promise!Return(c)
  PROVE  Promise!Next
  BY DEF Promise!Next

LEMMA InitRefines == Init => Promise!Init
<1> SUFFICES ASSUME Init PROVE Promise!Init
  OBVIOUS
<1>1. NoCall \in Calls /\ NoCall.at = "idle"
  BY EndedFacts DEF NoCall, Places
<1>2. View(NoCall) = Promise!Idle
  BY <1>1, ViewFacts
<1>3. Known = [c \in Callers |-> Promise!Idle]
  BY <1>2 DEF Init, Known
<1>4. shown.state = EmptyState /\ stable = EmptyState
  BY DEF Init, FileWith
<1>5. EmptyState = Promise!Empty
  BY DEF EmptyState, Promise!Empty
<1> QED
  BY <1>3, <1>4, <1>5 DEF Promise!Init

LEMMA InvokeRefines ==
  ASSUME IInv, NEW c \in Callers, Invoke(c)
  PROVE  Promise!Invoke(c)
<1>1. call[c] \in Calls /\ call'[c] \in Calls
  BY InvokeFacts DEF IInv, TypeOK
<1>2. Known[c] = Promise!Idle
  BY <1>1, InvokeFacts, ViewFacts DEF Known
<1>3. View(call'[c]) = [stage |-> "pending", request |-> call'[c].request]
  BY <1>1, InvokeFacts, ViewFacts
<1>4. \A d \in Callers \ {c} : View(call'[d]) = View(call[d])
  BY InvokeFacts DEF View
<1>5. Known' = [d \in Callers |-> View(call'[d])]
  BY DEF Known, View
<1>6. Known' = [Known EXCEPT ![c] = [stage |-> "pending", request |-> call'[c].request]]
  BY <1>3, <1>4, <1>5 DEF Known
<1> QED
  BY <1>2, <1>6, InvokeFacts DEF Promise!Invoke

\* Steps its caller does not see, and the answer of the store.
LEMMA QuietStep ==
  ASSUME IInv, NEW c \in Callers, NEW entry \in Calls,
         call' = [call EXCEPT ![c] = entry], UNCHANGED <<shown, stable>>,
         \/ View(entry) = View(call[c])
         \/ View(call[c]).stage \in {"applied", "refused"} /\ entry.at = "idle"
         \/ /\ call[c].at \in {"waiting"} \cup Preparing
            /\ entry.at \in {"removing", "refused"}
  PROVE  Promise!Next \/ UNCHANGED Promise!vars
<1>1. /\ Known' = [Known EXCEPT ![c] = View(entry)]
      /\ Known[c] = View(call[c])
      /\ View(entry) = View(call[c]) => Known' = Known
  BY KnownStep
<1>2. CASE View(entry) = View(call[c])
  BY <1>1, <1>2 DEF Promise!vars
<1>3. CASE View(call[c]).stage \in {"applied", "refused"} /\ entry.at = "idle"
  <2>1. View(entry) = Promise!Idle
    BY <1>3, ViewFacts
  <2>2. Promise!Return(c)
    BY <1>1, <1>3, <2>1 DEF Promise!Return
  <2> QED
    BY <2>2, PromiseNext
<1>4. CASE /\ call[c].at \in {"waiting"} \cup Preparing
           /\ entry.at \in {"removing", "refused"}
  <2>1. call[c] \in Calls
    BY DEF IInv, TypeOK
  <2>2. View(call[c]) = [stage |-> "pending", request |-> call[c].request]
    BY <1>4, <2>1, ViewFacts
  <2>3. View(entry) = [stage |-> "refused", request |-> NoRequest]
    BY <1>4, ViewFacts
  <2>4. Known[c].stage = "pending"
        /\ Known' = [Known EXCEPT ![c] = [stage |-> "refused", request |-> NoRequest]]
    BY <1>1, <2>2, <2>3
  <2>5. Promise!Refuse(c)
    BY <2>4 DEF Promise!Refuse, Promise!Answered
  <2> QED
    BY <2>5, PromiseNext
<1> QED
  BY <1>2, <1>3, <1>4

\* The step in which a request takes effect.
LEMMA CommitStep ==
  ASSUME IInv, NEW c \in Callers, NEW entry \in Calls,
         call' = [call EXCEPT ![c] = entry],
         call[c].at \in {"waiting"} \cup Preparing, call[c].request \in Requests,
         entry.at \in {"remembering", "applied"},
         shown'.state = Changed(call[c].request, shown.state), UNCHANGED stable
  PROVE  Promise!Next
<1>1. call[c] \in Calls /\ shown.state \in States
  BY DEF IInv, TypeOK, FileIsWhole
<1>2. Known[c] = [stage |-> "pending", request |-> call[c].request]
  BY <1>1, KnownStep, ViewFacts
<1>3. View(entry) = [stage |-> "applied", request |-> NoRequest]
  BY ViewFacts
<1>4. Known' = [Known EXCEPT ![c] = [stage |-> "applied", request |-> NoRequest]]
  BY <1>3, KnownStep
<1>5. shown'.state = Promise!Applied(call[c].request, shown.state)
  BY <1>1, ChangedFacts
<1>6. Promise!Apply(c)
  BY <1>2, <1>4, <1>5 DEF Promise!Apply, Promise!Answered
<1> QED
  BY <1>6, PromiseNext

LEMMA NothingChanges ==
  ASSUME NEW r \in Requests, NEW s \in States, NothingToDo(r, s)
  PROVE  Changed(r, s) = s
<1>1. CASE r.op = "delete" /\ r.list = "sessions" /\ s.sessions[r.key] = Absent
  <2>1. r.value = Absent /\ r.key \in Names
    BY <1>1 DEF Requests, SessionRequests, Request
  <2>2. [s.sessions EXCEPT ![r.key] = Absent] = s.sessions
    BY <1>1, <2>1 DEF States
  <2>3. Changed(r, s) = [s EXCEPT !.sessions = [s.sessions EXCEPT ![r.key] = Absent]]
    BY <1>1, <2>1 DEF Changed
  <2> QED
    BY <2>2, <2>3 DEF States
<1>2. CASE r.op = "clear" /\ s.history = <<>>
  <2>1. r.list = "history"
    BY <1>2 DEF Requests, SessionRequests, Request
  <2>2. Changed(r, s) = [s EXCEPT !.history = s.history]
    BY <1>2, <2>1 DEF Changed
  <2> QED
    BY <2>2 DEF States
<1> QED
  BY <1>1, <1>2 DEF NothingToDo

LEMMA OutsideRefines ==
  ASSUME IInv, NEW c \in Callers,
         ForgetPassword(c) \/ SettlePassword(c) \/ SettleFails(c) \/ Return(c)
  PROVE  Promise!Next \/ UNCHANGED Promise!vars
<1>1. call[c] \in Calls
  BY DEF IInv, TypeOK
<1>2. CASE ForgetPassword(c)
  <2>1. PICK entry \in Calls :
          /\ entry.at = "waiting" /\ entry.request = call[c].request
          /\ call' = [call EXCEPT ![c] = entry]
    BY <1>2, ForgetFacts
  <2>2. View(entry) = View(call[c])
    BY <1>1, <1>2, <2>1, ForgetFacts, ViewFacts
  <2>3. UNCHANGED <<shown, stable>>
    BY <1>2 DEF ForgetPassword, fileVars
  <2> QED
    BY <2>1, <2>2, <2>3, QuietStep
<1>3. CASE SettlePassword(c) \/ SettleFails(c) \/ Return(c)
  <2>1. call' = [call EXCEPT ![c] = Ended("idle")] /\ UNCHANGED <<shown, stable>>
    BY <1>3 DEF SettlePassword, SettleFails, Return, Over, NoCall, fileVars
  <2>2. /\ Ended("idle") \in Calls /\ Ended("idle").at = "idle"
    BY EndedFacts DEF Places
  <2>3. call[c].at \in {"remembering", "applied", "refused"}
    BY <1>3 DEF SettlePassword, SettleFails, Return
  <2>4. View(call[c]).stage \in {"applied", "refused"}
    BY <1>1, <2>3, ViewFacts
  <2> QED
    BY <2>1, <2>2, <2>4, QuietStep
<1> QED
  BY <1>2, <1>3

LEMMA AcquireRefines ==
  ASSUME IInv, NEW c \in Callers, Acquire(c)
  PROVE  Promise!Next \/ UNCHANGED Promise!vars
<1>1. /\ call[c].at = "waiting" /\ Read(c) /\ UNCHANGED <<shown, stable>>
      /\ call[c] \in Calls /\ call[c].request \in Requests
      /\ shown.state \in States
  BY DEF Acquire, fileVars, IInv, TypeOK, RequestsAreKept, FileIsWhole
<1>2. CASE Over(c, "refused", FALSE)
  <2>1. call' = [call EXCEPT ![c] = Ended("refused")]
    BY <1>2 DEF Over
  <2>2. Ended("refused") \in Calls /\ Ended("refused").at = "refused"
    BY EndedFacts DEF Places
  <2> QED
    BY <1>1, <2>1, <2>2, QuietStep
<1>3. CASE NothingToDo(call[c].request, shown.state) /\ Over(c, "applied", TRUE)
  <2>1. call' = [call EXCEPT ![c] = Ended("applied")]
    BY <1>3 DEF Over
  <2>2. Ended("applied") \in Calls /\ Ended("applied").at = "applied"
    BY EndedFacts DEF Places
  <2>3. shown'.state = Changed(call[c].request, shown.state)
    BY <1>1, <1>3, NothingChanges
  <2> QED
    BY <1>1, <2>1, <2>2, <2>3, CommitStep
<1>4. CASE call' = [call EXCEPT ![c].at = "creating",
                      ![c].state = Changed(call[c].request, shown.state)]
  <2> DEFINE entry == [call[c] EXCEPT !.at = "creating",
                         !.state = Changed(call[c].request, shown.state)]
  <2>1. Changed(call[c].request, shown.state) \in States
    BY <1>1, ChangedFacts
  <2>2. entry \in Calls /\ entry.at = "creating" /\ entry.request = call[c].request
    BY <1>1, <2>1 DEF Calls, Places
  <2>3. call' = [call EXCEPT ![c] = entry]
    BY <1>4
  <2> HIDE DEF entry
  <2>4. View(entry) = View(call[c])
    BY <1>1, <2>2, ViewFacts DEF Preparing
  <2> QED
    BY <1>1, <2>2, <2>3, <2>4, QuietStep
<1> QED
  BY <1>1, <1>2, <1>3, <1>4 DEF Read

LEMMA HoldingRefines ==
  ASSUME IInv, NEW c \in Callers,
         CreateTemporary(c) \/ Write(c) \/ Sync(c) \/ WriteFails(c)
  PROVE  Promise!Next \/ UNCHANGED Promise!vars
<1>1. call[c] \in Calls
  BY DEF IInv, TypeOK
<1>2. PICK to \in {"writing", "syncing", "renaming", "removing"} :
        /\ call' = [call EXCEPT ![c].at = to]
        /\ call[c].at \in Preparing
        /\ UNCHANGED <<shown, stable>>
  BY DEF CreateTemporary, Write, Sync, WriteStep, WriteFails, fileVars, Preparing
<1> DEFINE entry == [call[c] EXCEPT !.at = to]
<1>3. entry \in Calls /\ entry.at = to /\ entry.request = call[c].request
  BY <1>1 DEF Calls, Places
<1>4. call' = [call EXCEPT ![c] = entry]
  BY <1>2
<1> HIDE DEF entry
<1>5. CASE to = "removing"
  BY <1>2, <1>3, <1>4, <1>5, QuietStep
<1>6. CASE to # "removing"
  <2>1. View(entry) = View(call[c])
    BY <1>1, <1>2, <1>3, <1>6, ViewFacts DEF Preparing
  <2> QED
    BY <1>2, <1>3, <1>4, <2>1, QuietStep
<1> QED
  BY <1>5, <1>6

LEMMA ReleaseRefines ==
  ASSUME IInv, NEW c \in Callers,
         Rename(c) \/ CreateFails(c) \/ RemoveTemporary(c)
  PROVE  Promise!Next \/ UNCHANGED Promise!vars
<1>1. call[c] \in Calls
  BY DEF IInv, TypeOK
<1>2. CASE Rename(c)
  <2>1. /\ call[c].at \in Preparing /\ call[c].request \in Requests
        /\ temporary[c] = FileWith(call[c].state, TRUE)
        /\ call[c].state = Changed(call[c].request, shown.state)
    BY <1>2 DEF Rename, IInv, RequestsAreKept, ReadyIsSynced, WorkIsCurrent,
                Holding, Preparing
  <2>2. shown'.state = Changed(call[c].request, shown.state) /\ UNCHANGED stable
    BY <1>2, <2>1 DEF Rename, FileWith
  <2>3. CASE ConcernsKeyring(call[c].request)
    <3> DEFINE entry == [call[c] EXCEPT !.at = "remembering", !.state = EmptyState]
    <3>1. entry \in Calls /\ entry.at = "remembering"
      BY <1>1, EmptyFacts DEF Calls, Places
    <3>2. call' = [call EXCEPT ![c] = entry]
      BY <1>2, <2>3 DEF Rename
    <3> HIDE DEF entry
    <3> QED
      BY <2>1, <2>2, <3>1, <3>2, CommitStep
  <2>4. CASE ~ConcernsKeyring(call[c].request)
    <3>1. call' = [call EXCEPT ![c] = Ended("applied")]
      BY <1>2, <2>4 DEF Rename, Over
    <3>2. Ended("applied") \in Calls /\ Ended("applied").at = "applied"
      BY EndedFacts DEF Places
    <3> QED
      BY <2>1, <2>2, <3>1, <3>2, CommitStep
  <2> QED
    BY <2>3, <2>4
<1>3. CASE CreateFails(c)
  <2>1. /\ call' = [call EXCEPT ![c] = Ended("refused")]
        /\ call[c].at \in Preparing /\ UNCHANGED <<shown, stable>>
    BY <1>3 DEF CreateFails, Over, fileVars, Preparing
  <2>2. Ended("refused") \in Calls /\ Ended("refused").at = "refused"
    BY EndedFacts DEF Places
  <2> QED
    BY <2>1, <2>2, QuietStep
<1>4. CASE RemoveTemporary(c)
  <2>1. /\ call' = [call EXCEPT ![c] = Ended("idle")]
        /\ call[c].at = "removing" /\ UNCHANGED <<shown, stable>>
    BY <1>4 DEF RemoveTemporary, Over
  <2>2. Ended("idle") \in Calls /\ Ended("idle").at = "idle"
    BY EndedFacts DEF Places
  <2>3. View(call[c]).stage \in {"applied", "refused"}
    BY <1>1, <2>1, ViewFacts
  <2> QED
    BY <2>1, <2>2, <2>3, QuietStep
<1> QED
  BY <1>2, <1>3, <1>4

LEMMA SystemRefines ==
  ASSUME IInv, Flush \/ Crash \/ PowerLoss
  PROVE  Promise!Next
<1>1. CASE Flush
  <2>1. stable' = shown.state /\ UNCHANGED <<shown, call>>
    BY <1>1 DEF Flush, IInv, FileIsWhole
  <2>2. UNCHANGED Known
    BY <2>1 DEF Known, View
  <2>3. Promise!Flush
    BY <2>1, <2>2 DEF Promise!Flush
  <2> QED
    BY <2>3 DEF Promise!Next
<1>2. CASE Crash \/ PowerLoss
  <2>1. NoCall \in Calls /\ NoCall.at = "idle"
    BY EndedFacts DEF NoCall, Places
  <2>2. View(NoCall) = Promise!Idle
    BY <2>1, ViewFacts
  <2>3. call' = [c \in Callers |-> NoCall] /\ UNCHANGED stable
    BY <1>2 DEF Crash, PowerLoss, Ends
  <2>4. Known' = [c \in Callers |-> View(call'[c])]
    BY DEF Known, View
  <2>5. Known' = [c \in Callers |-> Promise!Idle]
    BY <2>2, <2>3, <2>4
  <2>6. shown'.state = shown.state \/ shown'.state = stable
    BY <1>2 DEF Crash, PowerLoss, FileWith
  <2>7. Promise!Crash \/ Promise!PowerLoss
    BY <2>3, <2>5, <2>6 DEF Promise!Crash, Promise!PowerLoss
  <2> QED
    BY <2>7 DEF Promise!Next
<1> QED
  BY <1>1, <1>2

\* The whole file is read, changed and replaced in one atomic step of its
\* callers, exactly once for a call that succeeds and never for one that
\* fails, for any number of concurrent calls, failures and crashes.
THEOREM StoreIsAtomic == Spec => ImplementsAtomicStore
<1>1. IInv /\ [Next]_vars => Promise!Next \/ UNCHANGED Promise!vars
  <2> SUFFICES ASSUME IInv, [Next]_vars PROVE Promise!Next \/ UNCHANGED Promise!vars
    OBVIOUS
  <2>1. CASE \E c \in Callers : Step(c)
    <3>1. PICK c \in Callers : Step(c)
      BY <2>1
    <3>2. CASE Invoke(c)
      BY <3>2, InvokeRefines, PromiseNext
    <3> QED
      BY <3>1, <3>2, OutsideRefines, AcquireRefines, HoldingRefines, ReleaseRefines DEF Step
  <2>2. CASE Flush \/ Crash \/ PowerLoss
    BY <2>2, SystemRefines
  <2>3. CASE UNCHANGED vars
    <3>1. UNCHANGED <<shown, stable, call>>
      BY <2>3 DEF vars
    <3>2. UNCHANGED Known
      BY <3>1 DEF Known, View
    <3> QED
      BY <3>1, <3>2 DEF Promise!vars
  <2> QED
    BY <2>1, <2>2, <2>3 DEF Next
<1> QED
  BY <1>1, InitRefines, Invariance, PTL DEF Spec, ImplementsAtomicStore, Promise!Spec
-----------------------------------------------------------------------------
(***************************************************************************)
(* The keyring beside the state file: a password is kept only for a saved  *)
(* session that remembers it, for every set of callers and sessions and    *)
(* every Environment.                                                      *)
(***************************************************************************)

\* A call that is over is about no session.
OverIsAboutNothing ==
  \A c \in Callers : call[c].at \in {"idle", "applied", "refused"} => SessionOf(c) = {}

\* Two calls about one session know of each other,
CompanyIsNoticed ==
  \A c, d \in Callers : c # d /\ SessionOf(c) \cap SessionOf(d) # {} => ~call[c].alone

\* and so does the history of that session.
CompanyIsNoted ==
  \A c \in Callers : ~call[c].alone => SessionOf(c) \subseteq disturbed

\* DeleteSession has removed the password before it reaches the store,
PasswordGoesFirst ==
  \A c \in Callers :
    call[c].alone /\ call[c].request.op = "delete" /\ call[c].at \in {"waiting"} \cup Preparing
      => SessionOf(c) \cap secret = {}

\* and SaveSession has stored the session before it turns to the keyring.
SessionGoesFirst ==
  \A c \in Callers :
    call[c].alone /\ call[c].at = "remembering" /\ call[c].request.value = "remember"
      => \A n \in SessionOf(c) : shown.state.sessions[n] = "remember"

KeyringInv == /\ OverIsAboutNothing /\ CompanyIsNoticed /\ CompanyIsNoted
              /\ PasswordGoesFirst /\ SessionGoesFirst /\ PasswordsAreWanted
-----------------------------------------------------------------------------
(* The operators *)

\* A request about a session changes that session in the file and no other.
LEMMA ChangedSessions ==
  ASSUME NEW r \in Requests, NEW s \in States, NEW n \in Names
  PROVE  /\ r.list = "sessions" /\ r.key = n => Changed(r, s).sessions[n] = r.value
         /\ r.list # "sessions" \/ r.key # n => Changed(r, s).sessions[n] = s.sessions[n]
<1>1. CASE r.op \in {"save", "delete"} /\ r.list = "sessions"
  <2>1. Changed(r, s) = [s EXCEPT !.sessions[r.key] = r.value]
    BY <1>1 DEF Changed
  <2> QED
    BY <1>1, <2>1 DEF States
<1>2. CASE r.op \in {"save", "delete"} /\ r.list = "jobs"
  <2>1. Changed(r, s) = [s EXCEPT !.jobs[r.key] = r.value]
    BY <1>2 DEF Changed
  <2> QED
    BY <1>2, <2>1 DEF States
<1>3. CASE r.op = "record" /\ r.list = "history"
  <2>1. Changed(r, s) = [s EXCEPT !.history = Trimmed(Append(s.history, r.value))]
    BY <1>3 DEF Changed
  <2> QED
    BY <1>3, <2>1 DEF States
<1>4. CASE r.op = "clear" /\ r.list = "history"
  <2>1. Changed(r, s) = [s EXCEPT !.history = <<>>]
    BY <1>4 DEF Changed
  <2> QED
    BY <1>4, <2>1 DEF States
<1> QED
  BY <1>1, <1>2, <1>3, <1>4, RequestFacts

\* Requests about sessions save or delete one.
LEMMA SessionRequestFacts ==
  ASSUME NEW r \in Requests, r.list = "sessions"
  PROVE  \/ r.op = "save" /\ r.value \in SessionValues
         \/ r.op = "delete" /\ r.value = Absent
  BY DEF Requests, SessionRequests, Request, SessionValues

\* What a call is about depends on its request alone.
LEMMA AboutFacts ==
  ASSUME NEW c \in Callers
  PROVE  /\ \A n : n \in SessionOf(c) <=>
                     call[c].request.list = "sessions" /\ call[c].request.key = n
         /\ \A n : n \in SessionOf(c)' <=>
                     call'[c].request.list = "sessions" /\ call'[c].request.key = n
  BY DEF SessionOf

LEMMA BusyFacts ==
  /\ \A n : Busy(n) <=> \E c \in Callers : n \in SessionOf(c)
  /\ \A n : Busy(n)' <=> \E c \in Callers : n \in SessionOf(c)'
  BY DEF Busy
-----------------------------------------------------------------------------
(* The invariant *)

\* A call goes on with its request,
GoesOn(c, entry) ==
  /\ entry.request = call[c].request
  /\ entry.alone => call[c].alone
  /\ entry.at \notin {"idle", "applied", "refused"}
  /\ disturbed \subseteq disturbed'
  /\ ~entry.alone => SessionOf(c) \subseteq disturbed'
  /\ entry.alone /\ entry.request.op = "delete" /\ entry.at \in {"waiting"} \cup Preparing
       => SessionOf(c) \cap secret' = {}
  /\ entry.alone /\ entry.at = "remembering" /\ entry.request.value = "remember"
       => \A n \in SessionOf(c) : shown'.state.sessions[n] = "remember"

\* or it is over, and its session is settled or known to be disturbed.
IsOver(c, entry) ==
  /\ entry.request = NoRequest /\ entry.alone
  /\ entry.at \in {"idle", "applied", "refused"}
  /\ \A n \in SessionOf(c) \ disturbed' :
       call[c].alone /\ (n \in secret' => shown'.state.sessions[n] = "remember")

\* What it is not about, it leaves alone.
LeavesOthers(c) ==
  \A n \in Names \ SessionOf(c) :
    /\ n \in secret' <=> n \in secret
    /\ n \in disturbed' <=> n \in disturbed
    /\ shown'.state.sessions[n] = shown.state.sessions[n]

LEMMA CallerStep ==
  ASSUME IInv, IInv', KeyringInv, NEW c \in Callers, NEW entry \in Calls,
         call' = [call EXCEPT ![c] = entry],
         LeavesOthers(c), GoesOn(c, entry) \/ IsOver(c, entry)
  PROVE  KeyringInv'
<1> DEFINE About(d) == IF d = c /\ IsOver(c, entry) THEN {} ELSE SessionOf(d)
<1>1. /\ call'[c] = entry
      /\ \A d \in Callers \ {c} : call'[d] = call[d]
      /\ \A d \in Callers : SessionOf(d) \subseteq Names
      /\ shown'.state # Torn /\ shown.state # Torn
  BY SessionFacts DEF IInv, TypeOK, FileIsWhole
<1>2. ASSUME NEW d \in Callers PROVE SessionOf(d)' = About(d)
  <2>1. CASE d # c
    BY <1>1, <2>1 DEF SessionOf
  <2>2. CASE d = c /\ IsOver(c, entry)
    BY <1>1, <2>2 DEF SessionOf, IsOver, NoRequest, Request
  <2>3. CASE d = c /\ ~IsOver(c, entry)
    <3>1. call'[d].request = call[d].request
      BY <1>1, <2>3 DEF GoesOn
    <3>2. SessionOf(d)' = SessionOf(d)
      BY <3>1 DEF SessionOf
    <3> QED
      BY <2>3, <3>2
  <2> QED
    BY <2>1, <2>2, <2>3
<1>3. \A d \in Callers : About(d) \subseteq SessionOf(d)
  OBVIOUS
<1>4. OverIsAboutNothing'
  <2> SUFFICES ASSUME NEW d \in Callers, call'[d].at \in {"idle", "applied", "refused"}
               PROVE  SessionOf(d)' = {}
    BY DEF OverIsAboutNothing
  <2> QED
    BY <1>1, <1>2 DEF KeyringInv, OverIsAboutNothing, GoesOn
<1>5. CompanyIsNoticed'
  <2> SUFFICES ASSUME NEW d \in Callers, NEW e \in Callers,
                      d # e, SessionOf(d)' \cap SessionOf(e)' # {}
               PROVE  ~call'[d].alone
    BY DEF CompanyIsNoticed
  <2>1. SessionOf(d) \cap SessionOf(e) # {} /\ ~(d = c /\ IsOver(c, entry))
    BY <1>2, <1>3
  <2>2. ~call[d].alone
    BY <2>1 DEF KeyringInv, CompanyIsNoticed
  <2> QED
    BY <1>1, <2>1, <2>2 DEF GoesOn
<1>6. CompanyIsNoted'
  <2> SUFFICES ASSUME NEW d \in Callers, ~call'[d].alone, NEW n \in SessionOf(d)'
               PROVE  n \in disturbed'
    BY DEF CompanyIsNoted
  <2>1. n \in SessionOf(d) /\ ~(d = c /\ IsOver(c, entry))
    BY <1>2
  <2>2. CASE d = c
    BY <1>1, <2>1, <2>2 DEF GoesOn
  <2>3. CASE d # c
    <3>1. ~call[d].alone /\ n \in disturbed /\ n \in Names
      BY <1>1, <2>1, <2>3 DEF KeyringInv, CompanyIsNoted
    <3>2. CASE n \notin SessionOf(c)
      BY <3>1, <3>2 DEF LeavesOthers
    <3>3. CASE n \in SessionOf(c) /\ GoesOn(c, entry)
      BY <3>1, <3>3 DEF GoesOn
    <3>4. CASE n \in SessionOf(c) /\ IsOver(c, entry)
      <4>1. ~call[c].alone
        BY <2>1, <2>3, <3>4 DEF KeyringInv, CompanyIsNoticed
      <4> QED
        BY <3>4, <4>1 DEF IsOver
    <3> QED
      BY <3>2, <3>3, <3>4
  <2> QED
    BY <2>2, <2>3
<1>7. PasswordGoesFirst'
  <2> SUFFICES ASSUME NEW d \in Callers, call'[d].alone, call'[d].request.op = "delete",
                      call'[d].at \in {"waiting"} \cup Preparing, NEW n \in SessionOf(d)'
               PROVE  n \notin secret'
    BY DEF PasswordGoesFirst
  <2>1. n \in SessionOf(d) /\ ~(d = c /\ IsOver(c, entry))
    BY <1>2
  <2>2. CASE d = c
    BY <1>1, <2>1, <2>2 DEF GoesOn
  <2>3. CASE d # c
    <3>1. n \notin secret /\ n \in Names /\ call[d].alone
      BY <1>1, <2>1, <2>3 DEF KeyringInv, PasswordGoesFirst
    <3>2. n \notin SessionOf(c)
      BY <2>1, <2>3, <3>1 DEF KeyringInv, CompanyIsNoticed
    <3> QED
      BY <3>1, <3>2 DEF LeavesOthers
  <2> QED
    BY <2>2, <2>3
<1>8. SessionGoesFirst'
  <2> SUFFICES ASSUME NEW d \in Callers, call'[d].alone, call'[d].at = "remembering",
                      call'[d].request.value = "remember", NEW n \in SessionOf(d)'
               PROVE  shown'.state.sessions[n] = "remember"
    BY DEF SessionGoesFirst
  <2>1. n \in SessionOf(d) /\ ~(d = c /\ IsOver(c, entry))
    BY <1>2
  <2>2. CASE d = c
    BY <1>1, <2>1, <2>2 DEF GoesOn
  <2>3. CASE d # c
    <3>1. shown.state.sessions[n] = "remember" /\ n \in Names /\ call[d].alone
      BY <1>1, <2>1, <2>3 DEF KeyringInv, SessionGoesFirst
    <3>2. n \notin SessionOf(c)
      BY <2>1, <2>3, <3>1 DEF KeyringInv, CompanyIsNoticed
    <3> QED
      BY <3>1, <3>2 DEF LeavesOthers
  <2> QED
    BY <2>2, <2>3
<1>9. PasswordsAreWanted'
  <2> SUFFICES ASSUME NEW n, n \in secret', n \notin disturbed',
                      \A d \in Callers : n \notin SessionOf(d)'
               PROVE  shown'.state.sessions[n] = "remember"
    BY <1>1, BusyFacts DEF PasswordsAreWanted
  <2>1. \A d \in Callers \ {c} : n \notin SessionOf(d)
    BY <1>2
  <2>2. CASE n \in SessionOf(c)
    BY <1>2, <2>2 DEF IsOver
  <2>3. CASE n \notin SessionOf(c)
    <3>1. n \in Names
      BY DEF IInv, TypeOK
    <3>2. n \in secret /\ n \notin disturbed /\ ~Busy(n)
          /\ shown'.state.sessions[n] = shown.state.sessions[n]
      BY <2>1, <2>3, <3>1, BusyFacts DEF LeavesOthers
    <3> QED
      BY <3>2 DEF KeyringInv, PasswordsAreWanted
  <2> QED
    BY <2>2, <2>3
<1> QED
  BY <1>4, <1>5, <1>6, <1>7, <1>8, <1>9 DEF KeyringInv

\* The beginning of a call: it and the calls about the same session know of
\* each other.
LEMMA InvokeKeyring ==
  ASSUME IInv, KeyringInv, NEW c \in Callers, Invoke(c)
  PROVE  KeyringInv'
<1>1. PICK r \in Requests :
        LET about  == IF r.list = "sessions" THEN {r.key} ELSE {}
            others == {d \in Callers : SessionOf(d) \cap about # {}}
        IN /\ call' = [d \in Callers |->
                         IF d = c
                           THEN Call(IF r.op = "delete" /\ about # {} THEN "forgetting"
                                                                      ELSE "waiting",
                                     r, EmptyState, others = {})
                           ELSE [call[d] EXCEPT !.alone = @ /\ d \notin others]]
           /\ disturbed' = IF others # {} THEN disturbed \cup about ELSE disturbed
  BY DEF Invoke
<1> DEFINE about  == IF r.list = "sessions" THEN {r.key} ELSE {}
           others == {d \in Callers : SessionOf(d) \cap about # {}}
<1>2. /\ call[c].at = "idle" /\ SessionOf(c) = {}
      /\ UNCHANGED <<shown, secret>>
  BY InvokeFacts DEF KeyringInv, OverIsAboutNothing
<1>3. /\ call'[c].at = (IF r.op = "delete" /\ about # {} THEN "forgetting" ELSE "waiting")
      /\ call'[c].request = r
      /\ call'[c].alone <=> others = {}
  BY <1>1 DEF Call
<1>4. ASSUME NEW d \in Callers \ {c}
      PROVE  /\ call'[d].at = call[d].at /\ call'[d].request = call[d].request
             /\ call'[d].alone <=> call[d].alone /\ d \notin others
  <2>1. call[d] \in Calls
    BY DEF IInv, TypeOK
  <2>2. call'[d] = [call[d] EXCEPT !.alone = call[d].alone /\ d \notin others]
    BY <1>1
  <2> HIDE DEF others
  <2> QED
    BY <2>1, <2>2 DEF Calls
<1>5. disturbed' = IF others # {} THEN disturbed \cup about ELSE disturbed
  BY <1>1
<1>6. SessionOf(c)' = about
  BY <1>3 DEF SessionOf
<1>7. ASSUME NEW d \in Callers \ {c} PROVE SessionOf(d)' = SessionOf(d)
  BY <1>4 DEF SessionOf
<1>8. c \notin others
  BY <1>2
<1>9. about # {} => r.op \in {"save", "delete"}
  BY SessionRequestFacts
<1>10. \A d \in Callers : d \in others <=> SessionOf(d) \cap about # {}
  OBVIOUS
<1>11. others # {} => \E d \in Callers : SessionOf(d) \cap about # {}
  OBVIOUS
<1> HIDE DEF about, others
<1>12. OverIsAboutNothing'
  BY <1>3, <1>4, <1>7 DEF KeyringInv, OverIsAboutNothing
<1>13. CompanyIsNoticed'
  <2> SUFFICES ASSUME NEW d \in Callers, NEW e \in Callers,
                      d # e, SessionOf(d)' \cap SessionOf(e)' # {}
               PROVE  ~call'[d].alone
    BY DEF CompanyIsNoticed
  <2>1. CASE d = c
    BY <1>3, <1>6, <1>7, <1>10, <2>1
  <2>2. CASE e = c
    BY <1>4, <1>6, <1>7, <1>10, <2>2
  <2>3. CASE d # c /\ e # c
    BY <1>4, <1>7, <2>3 DEF KeyringInv, CompanyIsNoticed
  <2> QED
    BY <2>1, <2>2, <2>3
<1>14. CompanyIsNoted'
  <2> SUFFICES ASSUME NEW d \in Callers, ~call'[d].alone
               PROVE  SessionOf(d)' \subseteq disturbed'
    BY DEF CompanyIsNoted
  <2>1. CASE d = c
    BY <1>3, <1>5, <1>6, <2>1
  <2>2. CASE d # c /\ ~call[d].alone
    BY <1>5, <1>7, <2>2 DEF KeyringInv, CompanyIsNoted
  <2>3. CASE d # c /\ call[d].alone
    <3>1. d \in others
      BY <1>4, <2>3
    <3>2. SessionOf(d) \subseteq about
      BY <1>10, <3>1 DEF SessionOf, about
    <3> QED
      BY <1>5, <1>7, <2>3, <3>1, <3>2
  <2> QED
    BY <2>1, <2>2, <2>3
<1>15. PasswordGoesFirst'
  <2> SUFFICES ASSUME NEW d \in Callers, call'[d].alone, call'[d].request.op = "delete",
                      call'[d].at \in {"waiting"} \cup Preparing
               PROVE  SessionOf(d)' \cap secret' = {}
    BY DEF PasswordGoesFirst
  <2>1. CASE d = c
    BY <1>3, <1>6, <2>1 DEF Preparing
  <2>2. CASE d # c
    BY <1>2, <1>4, <1>7, <2>2 DEF KeyringInv, PasswordGoesFirst
  <2> QED
    BY <2>1, <2>2
<1>16. SessionGoesFirst'
  <2> SUFFICES ASSUME NEW d \in Callers, call'[d].alone, call'[d].at = "remembering",
                      call'[d].request.value = "remember", NEW n \in SessionOf(d)'
               PROVE  shown'.state.sessions[n] = "remember"
    BY DEF SessionGoesFirst
  <2>1. d # c
    BY <1>3
  <2> QED
    BY <1>2, <1>4, <1>7, <2>1 DEF KeyringInv, SessionGoesFirst
<1>17. PasswordsAreWanted'
  <2> SUFFICES ASSUME NEW n, n \in secret', n \notin disturbed',
                      \A d \in Callers : n \notin SessionOf(d)'
               PROVE  shown'.state # Torn /\ shown'.state.sessions[n] = "remember"
    BY BusyFacts DEF PasswordsAreWanted
  <2>1. n \notin disturbed
    BY <1>5
  <2>2. ~Busy(n)
    BY <1>2, <1>7, BusyFacts
  <2> QED
    BY <1>2, <2>1, <2>2 DEF KeyringInv, PasswordsAreWanted
<1> QED
  BY <1>12, <1>13, <1>14, <1>15, <1>16, <1>17 DEF KeyringInv

\* A call that is over, however it ends.
LEMMA OverStep ==
  ASSUME IInv, IInv', KeyringInv, NEW c \in Callers, NEW done \in BOOLEAN,
         NEW at \in {"idle", "applied", "refused"}, Over(c, at, done),
         \A n \in Names \ SessionOf(c) :
           /\ n \in secret' <=> n \in secret
           /\ shown'.state.sessions[n] = shown.state.sessions[n],
         done /\ call[c].alone =>
           \A n \in SessionOf(c) : n \in secret' => shown'.state.sessions[n] = "remember"
  PROVE  KeyringInv'
<1>1. /\ call' = [call EXCEPT ![c] = Ended(at)]
      /\ Ended(at) \in Calls /\ Ended(at).at = at
      /\ Ended(at).request = NoRequest /\ Ended(at).alone
  <2>1. at \in Places
    BY DEF Places
  <2>2. Ended(at).alone
    BY DEF Ended, Call
  <2> QED
    BY <2>1, <2>2, OverFacts, EndedFacts
<1>2. disturbed' = IF ~done THEN disturbed \cup SessionOf(c)
                   ELSE IF call[c].alone THEN disturbed \ SessionOf(c) ELSE disturbed
  BY DEF Over
<1>3. LeavesOthers(c)
  BY <1>2 DEF LeavesOthers
<1>4. \A n \in SessionOf(c) \ disturbed' :
        call[c].alone /\ (n \in secret' => shown'.state.sessions[n] = "remember")
  BY <1>2 DEF KeyringInv, CompanyIsNoted
<1>5. IsOver(c, Ended(at))
  BY <1>1, <1>4 DEF IsOver
<1> QED
  BY <1>1, <1>3, <1>5, CallerStep

\* A call that goes on where it does not leave the keyring or the store behind.
LEMMA QuietCall ==
  ASSUME IInv, IInv', KeyringInv, NEW c \in Callers, NEW entry \in Calls,
         call' = [call EXCEPT ![c] = entry], UNCHANGED <<shown, secret, disturbed>>,
         entry.request = call[c].request, entry.alone = call[c].alone,
         entry.at \notin {"idle", "applied", "refused", "remembering"},
         entry.at \in {"waiting"} \cup Preparing
           => call[c].at \in {"waiting"} \cup Preparing
  PROVE  KeyringInv'
<1>1. LeavesOthers(c)
  BY DEF LeavesOthers
<1>2. GoesOn(c, entry)
  BY DEF GoesOn, KeyringInv, CompanyIsNoted, PasswordGoesFirst
<1> QED
  BY <1>1, <1>2, CallerStep

LEMMA ForgetKeyring ==
  ASSUME IInv, IInv', KeyringInv, NEW c \in Callers, ForgetPassword(c)
  PROVE  KeyringInv'
<1>1. call[c] \in Calls
  BY DEF IInv, TypeOK
<1>2. CASE /\ secret' = secret \ SessionOf(c)
           /\ call' = [call EXCEPT ![c].at = "waiting"]
           /\ UNCHANGED <<shown, disturbed>>
  <2> DEFINE entry == [call[c] EXCEPT !.at = "waiting"]
  <2>1. /\ entry \in Calls /\ entry.at = "waiting" /\ entry.request = call[c].request
        /\ entry.alone = call[c].alone
    BY <1>1 DEF Calls, Places
  <2>2. call' = [call EXCEPT ![c] = entry]
    BY <1>2
  <2> HIDE DEF entry
  <2>3. LeavesOthers(c)
    BY <1>2 DEF LeavesOthers
  <2>4. GoesOn(c, entry)
    BY <1>2, <2>1 DEF GoesOn, KeyringInv, CompanyIsNoted
  <2> QED
    BY <2>1, <2>2, <2>3, <2>4, CallerStep
<1>3. CASE /\ call' = [call EXCEPT ![c].at = "waiting", ![c].alone = FALSE]
           /\ disturbed' = disturbed \cup SessionOf(c)
           /\ UNCHANGED <<shown, secret>>
  <2> DEFINE entry == [call[c] EXCEPT !.at = "waiting", !.alone = FALSE]
  <2>1. /\ entry \in Calls /\ entry.at = "waiting" /\ entry.request = call[c].request
        /\ entry.alone = FALSE
    BY <1>1 DEF Calls, Places
  <2>2. call' = [call EXCEPT ![c] = entry]
    BY <1>3
  <2> HIDE DEF entry
  <2>3. LeavesOthers(c)
    BY <1>3 DEF LeavesOthers
  <2>4. GoesOn(c, entry)
    BY <1>3, <2>1 DEF GoesOn
  <2> QED
    BY <2>1, <2>2, <2>3, <2>4, CallerStep
<1> QED
  BY <1>2, <1>3 DEF ForgetPassword, fileVars

\* A request that finds nothing to remove is one whose password is gone.
LEMMA AcquireKeyring ==
  ASSUME IInv, IInv', KeyringInv, NEW c \in Callers, Acquire(c)
  PROVE  KeyringInv'
<1>1. /\ call[c] \in Calls /\ call[c].at = "waiting" /\ call[c].request \in Requests
      /\ UNCHANGED <<secret, shown>> /\ shown.state \in States
  BY DEF Acquire, fileVars, IInv, TypeOK, RequestsAreKept, FileIsWhole
<1>2. CASE Over(c, "refused", FALSE)
  BY <1>1, <1>2, OverStep
<1>3. CASE NothingToDo(call[c].request, shown.state) /\ Over(c, "applied", TRUE)
  <2>1. SessionOf(c) # {} => call[c].request.op = "delete"
    BY <1>1, <1>3, SessionRequestFacts DEF NothingToDo, SessionOf
  <2>2. call[c].alone => SessionOf(c) \cap secret' = {}
    BY <1>1, <2>1 DEF KeyringInv, PasswordGoesFirst
  <2> QED
    BY <1>1, <1>3, <2>2, OverStep
<1>4. CASE /\ call' = [call EXCEPT ![c].at = "creating",
                         ![c].state = Changed(call[c].request, shown.state)]
           /\ UNCHANGED disturbed
  <2> DEFINE entry == [call[c] EXCEPT !.at = "creating",
                         !.state = Changed(call[c].request, shown.state)]
  <2>1. /\ entry \in Calls /\ entry.at = "creating" /\ entry.request = call[c].request
        /\ entry.alone = call[c].alone
    BY <1>1, ChangedFacts DEF Calls, Places
  <2>2. call' = [call EXCEPT ![c] = entry]
    BY <1>4
  <2> HIDE DEF entry
  <2> QED
    BY <1>1, <1>4, <2>1, <2>2, QuietCall
<1> QED
  BY <1>2, <1>3, <1>4 DEF Acquire, Read

LEMMA HoldingKeyring ==
  ASSUME IInv, IInv', KeyringInv, NEW c \in Callers,
         CreateTemporary(c) \/ Write(c) \/ Sync(c) \/ WriteFails(c)
  PROVE  KeyringInv'
<1>1. PICK to \in {"writing", "syncing", "renaming", "removing"} :
        call' = [call EXCEPT ![c].at = to]
  BY DEF CreateTemporary, Write, Sync, WriteFails, WriteStep
<1>2. /\ call[c] \in Calls /\ call[c].at \in Preparing
      /\ UNCHANGED <<shown, secret, disturbed>>
  BY DEF CreateTemporary, Write, Sync, WriteFails, WriteStep, fileVars, Preparing,
         IInv, TypeOK
<1> DEFINE entry == [call[c] EXCEPT !.at = to]
<1>3. /\ entry \in Calls /\ entry.at = to /\ entry.request = call[c].request
      /\ entry.alone = call[c].alone
  BY <1>2 DEF Calls, Places
<1>4. call' = [call EXCEPT ![c] = entry]
  BY <1>1
<1> HIDE DEF entry
<1> QED
  BY <1>2, <1>3, <1>4, QuietCall

\* A session that was saved is in the file when its call turns to the keyring or
\* is over; one that was deleted has no password left.
LEMMA RenameKeyring ==
  ASSUME IInv, IInv', KeyringInv, NEW c \in Callers, Rename(c)
  PROVE  KeyringInv'
<1>1. /\ call[c] \in Calls /\ call[c].at = "renaming" /\ call[c].request \in Requests
      /\ call[c].at \in Preparing /\ shown.state \in States /\ secret' = secret
  BY DEF Rename, IInv, TypeOK, RequestsAreKept, FileIsWhole, Holding, Preparing
<1>2. shown'.state = Changed(call[c].request, shown.state)
  <2>1. shown' = FileWith(call[c].state, TRUE)
    BY <1>1 DEF Rename, IInv, ReadyIsSynced
  <2>2. call[c].state = Changed(call[c].request, shown.state)
    BY <1>1 DEF IInv, WorkIsCurrent
  <2> QED
    BY <2>1, <2>2 DEF FileWith
<1>3. \A n \in Names \ SessionOf(c) : shown'.state.sessions[n] = shown.state.sessions[n]
  BY <1>1, <1>2, ChangedSessions, AboutFacts
<1>4. \A n \in SessionOf(c) : shown'.state.sessions[n] = call[c].request.value
  BY <1>1, <1>2, ChangedSessions, AboutFacts, SessionFacts
<1>5. CASE ConcernsKeyring(call[c].request)
  <2> DEFINE entry == [call[c] EXCEPT !.at = "remembering", !.state = EmptyState]
  <2>1. /\ entry \in Calls /\ entry.at = "remembering"
        /\ entry.request = call[c].request /\ entry.alone = call[c].alone
    BY <1>1, EmptyFacts DEF Calls, Places
  <2>2. call' = [call EXCEPT ![c] = entry] /\ disturbed' = disturbed
    BY <1>5 DEF Rename
  <2> HIDE DEF entry
  <2>3. LeavesOthers(c)
    BY <1>1, <1>3, <2>2 DEF LeavesOthers
  <2>4. GoesOn(c, entry)
    BY <1>4, <2>1, <2>2 DEF GoesOn, KeyringInv, CompanyIsNoted, Preparing
  <2> QED
    BY <2>1, <2>2, <2>3, <2>4, CallerStep
<1>6. CASE ~ConcernsKeyring(call[c].request)
  <2>1. Over(c, "applied", TRUE)
    BY <1>6 DEF Rename
  <2>2. ASSUME call[c].alone, NEW n \in SessionOf(c), n \in secret'
        PROVE  shown'.state.sessions[n] = "remember"
    <3>1. call[c].request.list = "sessions" /\ call[c].request.op # "delete"
      BY <1>1, <2>2, AboutFacts DEF KeyringInv, PasswordGoesFirst
    <3>2. call[c].request.value = "remember"
      BY <1>1, <1>6, <3>1, SessionRequestFacts DEF ConcernsKeyring, SessionValues
    <3> QED
      BY <1>4, <3>2
  <2> QED
    BY <1>1, <1>3, <2>1, <2>2, OverStep
<1> QED
  BY <1>5, <1>6

LEMMA EndingKeyring ==
  ASSUME IInv, IInv', KeyringInv, NEW c \in Callers,
         CreateFails(c) \/ RemoveTemporary(c) \/ SettleFails(c) \/ Return(c)
  PROVE  KeyringInv'
<1>1. CASE CreateFails(c) \/ RemoveTemporary(c) \/ SettleFails(c)
  <2>1. \/ Over(c, "idle", FALSE) \/ Over(c, "refused", FALSE)
    BY <1>1 DEF CreateFails, RemoveTemporary, SettleFails
  <2>2. UNCHANGED <<shown, secret>>
    BY <1>1 DEF CreateFails, RemoveTemporary, SettleFails, fileVars
  <2> QED
    BY <2>1, <2>2, OverStep
<1>2. CASE Return(c)
  <2>1. /\ call' = [call EXCEPT ![c] = Ended("idle")]
        /\ UNCHANGED <<shown, secret, disturbed>>
        /\ SessionOf(c) = {}
    BY <1>2 DEF Return, NoCall, fileVars, KeyringInv, OverIsAboutNothing
  <2>2. Over(c, "idle", TRUE)
    BY <2>1 DEF Over
  <2> QED
    BY <2>1, <2>2, OverStep
<1> QED
  BY <1>1, <1>2

LEMMA SettleKeyring ==
  ASSUME IInv, IInv', KeyringInv, NEW c \in Callers, SettlePassword(c)
  PROVE  KeyringInv'
<1>1. /\ call[c].at = "remembering" /\ Over(c, "idle", TRUE) /\ shown' = shown
      /\ secret' = IF call[c].request.value = "remember" THEN secret \cup SessionOf(c)
                                                         ELSE secret \ SessionOf(c)
  BY DEF SettlePassword, fileVars
<1>2. ASSUME call[c].alone, NEW n \in SessionOf(c), n \in secret'
      PROVE  shown'.state.sessions[n] = "remember"
  BY <1>1, <1>2 DEF KeyringInv, SessionGoesFirst
<1> QED
  BY <1>1, <1>2, OverStep

\* The system below: a process that ends leaves what it was doing disturbed.
LEMMA SystemKeyring ==
  ASSUME IInv, IInv', KeyringInv, Flush \/ Crash \/ PowerLoss
  PROVE  KeyringInv'
<1>1. CASE Flush
  <2>1. UNCHANGED <<shown, call, secret, disturbed>>
    BY <1>1 DEF Flush
  <2>2. \A c \in Callers : SessionOf(c)' = SessionOf(c)
    BY <2>1 DEF SessionOf
  <2> QED
    BY <2>1, <2>2, BusyFacts
    DEF KeyringInv, OverIsAboutNothing, CompanyIsNoticed, CompanyIsNoted,
        PasswordGoesFirst, SessionGoesFirst, PasswordsAreWanted
<1>2. CASE Crash \/ PowerLoss
  <2>1. \A c \in Callers : call'[c] = Ended("idle")
    BY <1>2 DEF Crash, PowerLoss, Ends, NoCall
  <2>2. \A c \in Callers : SessionOf(c)' = {} /\ call'[c].alone /\ call'[c].at = "idle"
    BY <2>1 DEF SessionOf, Ended, Call, NoRequest, Request
  <2>3. PasswordsAreWanted'
    <3>1. CASE Crash
      <4>1. /\ disturbed' = disturbed \cup {n \in Names : Busy(n)}
            /\ UNCHANGED <<shown, secret>> /\ secret \subseteq Names
        BY <3>1 DEF Crash, IInv, TypeOK
      <4> QED
        BY <4>1 DEF KeyringInv, PasswordsAreWanted
    <3>2. CASE PowerLoss
      BY <3>2 DEF PowerLoss, PasswordsAreWanted, IInv, TypeOK
    <3> QED
      BY <1>2, <3>1, <3>2
  <2> QED
    BY <2>2, <2>3
    DEF KeyringInv, OverIsAboutNothing, CompanyIsNoticed, CompanyIsNoted,
        PasswordGoesFirst, SessionGoesFirst, Preparing
<1> QED
  BY <1>1, <1>2

LEMMA KeyringStep == IInv /\ KeyringInv /\ [Next]_vars => KeyringInv'
<1> SUFFICES ASSUME IInv, KeyringInv, [Next]_vars PROVE KeyringInv'
  OBVIOUS
<1>1. IInv'
  BY StepInvariant
<1>2. CASE \E c \in Callers : Step(c)
  <2>1. PICK c \in Callers : Step(c)
    BY <1>2
  <2> QED
    BY <1>1, <2>1, InvokeKeyring, ForgetKeyring, AcquireKeyring, HoldingKeyring,
       RenameKeyring, EndingKeyring, SettleKeyring DEF Step
<1>3. CASE Flush \/ Crash \/ PowerLoss
  BY <1>1, <1>3, SystemKeyring
<1>4. CASE UNCHANGED vars
  <2>1. UNCHANGED <<shown, call, secret, disturbed>>
    BY <1>4 DEF vars
  <2>2. \A c \in Callers : SessionOf(c)' = SessionOf(c)
    BY <2>1 DEF SessionOf
  <2> QED
    BY <2>1, <2>2, BusyFacts
    DEF KeyringInv, OverIsAboutNothing, CompanyIsNoticed, CompanyIsNoted,
        PasswordGoesFirst, SessionGoesFirst, PasswordsAreWanted
<1> QED
  BY <1>2, <1>3, <1>4 DEF Next

\* SaveSession and DeleteSession: a session whose last call met no other about it, no
\* failure and no end of the process has a password only if it is saved and remembers it.
THEOREM PasswordsAlwaysWanted == Spec => []PasswordsAreWanted
<1>1. Init => KeyringInv
  <2> SUFFICES ASSUME Init PROVE KeyringInv
    OBVIOUS
  <2>1. secret = {} /\ \A c \in Callers : call[c] = Ended("idle")
    BY DEF Init, NoCall
  <2>2. \A c \in Callers : SessionOf(c) = {} /\ call[c].alone /\ call[c].at = "idle"
    <3>1. /\ Ended("idle").request.list # "sessions"
          /\ Ended("idle").alone = TRUE /\ Ended("idle").at = "idle"
      BY DEF Ended, Call, NoRequest, Request
    <3> QED
      BY <2>1, <3>1 DEF SessionOf
  <2> QED
    BY <2>1, <2>2
    DEF KeyringInv, OverIsAboutNothing, CompanyIsNoticed, CompanyIsNoted,
        PasswordGoesFirst, SessionGoesFirst, PasswordsAreWanted, Preparing
<1>2. KeyringInv => PasswordsAreWanted
  BY DEF KeyringInv
<1> QED
  BY <1>1, <1>2, KeyringStep, Invariance, PTL DEF Spec
=============================================================================
