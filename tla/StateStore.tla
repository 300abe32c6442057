----------------------------- MODULE StateStore -----------------------------
(***************************************************************************)
(* The state file of the desktop application (desktop/state.go) and the    *)
(* two service calls that keep the keyring beside it (SaveSession and      *)
(* DeleteSession of desktop/service.go).                                   *)
(*                                                                         *)
(* Calls of the window and of the scheduler arrive on goroutines of their  *)
(* own.  A call takes the mutex of the store, reads the whole file, changes*)
(* one of its lists and writes everything to a temporary file that is      *)
(* synced and renamed over the old one.  Any step of the file system may   *)
(* fail; the process may end between any two; a loss of power also drops   *)
(* what the system had not written yet.                                    *)
(*                                                                         *)
(* A list of the file is a function from its keys: the code keeps one      *)
(* record for each, and every reader sorts.  Connection profiles are saved *)
(* and deleted like sessions and are left out.                             *)
(***************************************************************************)
EXTENDS Naturals, Sequences

CONSTANTS Callers, NoCaller,
          Names,          \* of sessions
          JobIDs,
          Entries,        \* of the history
          Absent,         \* no value
          NoTemporary,    \* the caller has no temporary file
          Torn,           \* what is read from a file that was never synced
          MaxHistory,     \* maxHistoryEntries
          Environment     \* what else may happen: "failures", "crash", "power"

ASSUME StoreAssumption == /\ NoCaller \notin Callers
                          /\ MaxHistory \in Nat \ {0}
                          /\ Environment \subseteq {"failures", "crash", "power"}

VARIABLES shown,     \* desktop-state.json as the system shows it
          stable,    \* what a loss of power would leave of it
          mu,        \* the caller that holds StateStore.mu
          call,      \* the call each caller is in
          temporary, \* the temporary file of each caller
          secret,    \* keyring: sessions that have a stored password
          disturbed  \* history: sessions whose last call was not undisturbed

fileVars == <<shown, stable, temporary>>
vars == <<shown, stable, mu, call, temporary, secret, disturbed>>
-----------------------------------------------------------------------------
(* Requests and states of the file *)

\* What a session says about its password.
SessionValues == {"remember", "forget"}

Request(op, list, key, value, password) ==
  [op |-> op, list |-> list, key |-> key, value |-> value, password |-> password]

SessionRequests ==
  {Request("save", "sessions", n, "remember", p) : n \in Names, p \in BOOLEAN}
    \cup {Request("save", "sessions", n, "forget", FALSE) : n \in Names}
    \cup {Request("delete", "sessions", n, Absent, FALSE) : n \in Names}

Requests ==
  SessionRequests
    \cup {Request("save", "jobs", j, "saved", FALSE) : j \in JobIDs}
    \cup {Request("delete", "jobs", j, Absent, FALSE) : j \in JobIDs}
    \cup {Request("record", "history", Absent, e, FALSE) : e \in Entries}
    \cup {Request("clear", "history", Absent, Absent, FALSE)}

NoRequest == Request("none", "none", Absent, Absent, FALSE)

States == {s \in [sessions : [Names -> SessionValues \cup {Absent}],
                  jobs     : [JobIDs -> {"saved", Absent}],
                  history  : Seq(Entries)] : Len(s.history) <= MaxHistory}

\* A file is whole once its data is on the disk.
Files == [state : States \cup {Torn}, whole : BOOLEAN]

ASSUME TornAssumption == Torn \notin States

EmptyState == [sessions |-> [n \in Names |-> Absent],
               jobs     |-> [j \in JobIDs |-> Absent],
               history  |-> <<>>]

FileWith(state, whole) == [state |-> state, whole |-> whole]

\* The newest maxHistoryEntries of the history.
Trimmed(history) ==
  IF Len(history) > MaxHistory
    THEN SubSeq(history, Len(history) - MaxHistory + 1, Len(history)) ELSE history

\* What a request makes of the state it has read.
Changed(r, state) ==
  CASE r.op \in {"save", "delete"} /\ r.list = "sessions" ->
         [state EXCEPT !.sessions[r.key] = r.value]
    [] r.op \in {"save", "delete"} /\ r.list = "jobs" ->
         [state EXCEPT !.jobs[r.key] = r.value]
    [] r.op = "record" -> [state EXCEPT !.history = Trimmed(Append(@, r.value))]
    [] r.op = "clear"  -> [state EXCEPT !.history = <<>>]

\* Requests that return without writing: there is nothing to remove.
NothingToDo(r, state) ==
  \/ r.op = "delete" /\ r.list = "sessions" /\ state.sessions[r.key] = Absent
  \/ r.op = "clear" /\ state.history = <<>>
-----------------------------------------------------------------------------
(* Calls.  A call record holds where the call is, its request, the state   *)
(* it is about to write, and whether no other call about the same session  *)
(* has been in progress during it.                                         *)

Call(at, r, state, alone) == [at |-> at, request |-> r, state |-> state, alone |-> alone]
\* A call whose work is over.
Ended(at) == Call(at, NoRequest, EmptyState, TRUE)
NoCall == Ended("idle")

InCall(c) == call[c].at # "idle"
SessionOf(c) == IF call[c].request.list = "sessions" THEN {call[c].request.key} ELSE {}
Busy(n) == \E c \in Callers : n \in SessionOf(c)

Init == /\ shown = FileWith(EmptyState, TRUE)
        /\ stable = EmptyState
        /\ mu = NoCaller
        /\ call = [c \in Callers |-> NoCall]
        /\ temporary = [c \in Callers |-> NoTemporary]
        /\ secret = {}
        /\ disturbed = {}

\* A call of the service or the scheduler.  Deleting a session begins with
\* the keyring, every other request with the mutex of the store.
Invoke(c) ==
  /\ ~InCall(c)
  /\ \E r \in Requests :
       LET about  == IF r.list = "sessions" THEN {r.key} ELSE {}
           others == {d \in Callers : SessionOf(d) \cap about # {}}
       IN /\ call' = [d \in Callers |->
                        IF d = c
                          THEN Call(IF r.op = "delete" /\ about # {} THEN "forgetting"
                                                                     ELSE "waiting",
                                    r, EmptyState, others = {})
                          ELSE [call[d] EXCEPT !.alone = @ /\ d \notin others]]
          /\ disturbed' = IF others # {} THEN disturbed \cup about ELSE disturbed
  /\ UNCHANGED <<mu, secret>> /\ UNCHANGED fileVars

\* The work of c's call is over and leaves it at the given place.  A call
\* that was alone and succeeded in everything it did (done) settles its session.
Over(c, at, done) ==
  /\ call' = [call EXCEPT ![c] = Ended(at)]
  /\ disturbed' = IF ~done THEN disturbed \cup SessionOf(c)
                  ELSE IF call[c].alone THEN disturbed \ SessionOf(c) ELSE disturbed

\* The caller has the answer of the store.
Return(c) ==
  /\ call[c].at \in {"applied", "refused"}
  /\ call' = [call EXCEPT ![c] = NoCall]
  /\ UNCHANGED <<mu, secret, disturbed>> /\ UNCHANGED fileVars

\* DeleteSession removes the password first and ignores whether it could.
ForgetPassword(c) ==
  /\ call[c].at = "forgetting"
  /\ \/ /\ secret' = secret \ SessionOf(c)
        /\ call' = [call EXCEPT ![c].at = "waiting"]
        /\ UNCHANGED disturbed
     \/ /\ "failures" \in Environment
        /\ call' = [call EXCEPT ![c].at = "waiting", ![c].alone = FALSE]
        /\ disturbed' = disturbed \cup SessionOf(c)
        /\ UNCHANGED secret
  /\ UNCHANGED mu /\ UNCHANGED fileVars

\* What c does with the mutex once it has it: an unreadable file refuses
\* the request, one with nothing to remove returns, any other begins to write.
Read(c) ==
  LET r == call[c].request IN
  \/ /\ shown.state = Torn \/ "failures" \in Environment
     /\ Over(c, "refused", FALSE)
     /\ UNCHANGED mu
  \/ /\ shown.state # Torn
     /\ NothingToDo(r, shown.state)
     /\ Over(c, "applied", TRUE)
     /\ UNCHANGED mu
  \/ /\ shown.state # Torn
     /\ ~NothingToDo(r, shown.state)
     /\ mu' = c
     /\ call' = [call EXCEPT ![c].at = "creating", ![c].state = Changed(r, shown.state)]
     /\ UNCHANGED disturbed

\* Fault: the mutex is only taken by callers that find it free.
AcquireUnlocked(c) ==
  /\ call[c].at = "waiting"
  /\ Read(c)
  /\ UNCHANGED secret /\ UNCHANGED fileVars

Acquire(c) ==
  /\ call[c].at = "waiting"
  /\ mu = NoCaller
  /\ Read(c)
  /\ UNCHANGED secret /\ UNCHANGED fileVars

\* One step of writing the temporary file: it becomes file, and c goes on.
WriteStep(c, from, to, file) ==
  /\ call[c].at = from
  /\ temporary' = [temporary EXCEPT ![c] = file]
  /\ call' = [call EXCEPT ![c].at = to]
  /\ UNCHANGED <<shown, stable, mu, secret, disturbed>>

CreateTemporary(c) == WriteStep(c, "creating", "writing", FileWith(Torn, FALSE))

Write(c) == WriteStep(c, "writing", "syncing", FileWith(call[c].state, FALSE))

\* Fault: the file is renamed without having been synced.
SyncForgotten(c) == WriteStep(c, "syncing", "renaming", FileWith(call[c].state, FALSE))

Sync(c) == WriteStep(c, "syncing", "renaming", FileWith(call[c].state, TRUE))

\* A session that was saved goes on to the keyring, unless the password it
\* remembers was not given again.
ConcernsKeyring(r) ==
  /\ r.op = "save" /\ r.list = "sessions"
  /\ r.value = "forget" \/ r.password

\* The new file takes the place of the old one and the mutex is released.
Rename(c) ==
  /\ call[c].at = "renaming"
  /\ shown' = temporary[c]
  /\ temporary' = [temporary EXCEPT ![c] = NoTemporary]
  /\ mu' = NoCaller
  /\ IF ConcernsKeyring(call[c].request)
       THEN call' = [call EXCEPT ![c].at = "remembering", ![c].state = EmptyState] /\ UNCHANGED disturbed
       ELSE Over(c, "applied", TRUE)
  /\ UNCHANGED <<stable, secret>>

\* The directory or the temporary file could not be created.
CreateFails(c) ==
  /\ "failures" \in Environment
  /\ call[c].at = "creating"
  /\ mu' = NoCaller
  /\ Over(c, "refused", FALSE)
  /\ UNCHANGED secret /\ UNCHANGED fileVars

WriteFails(c) ==
  /\ "failures" \in Environment
  /\ call[c].at \in {"writing", "syncing", "renaming"}
  /\ call' = [call EXCEPT ![c].at = "removing"]
  /\ UNCHANGED <<mu, secret, disturbed>> /\ UNCHANGED fileVars

\* The deferred calls of a write that failed.
RemoveTemporary(c) ==
  /\ call[c].at = "removing"
  /\ temporary' = [temporary EXCEPT ![c] = NoTemporary]
  /\ mu' = NoCaller
  /\ Over(c, "idle", FALSE)
  /\ UNCHANGED <<shown, stable, secret>>

\* Fault: a session that no longer remembers its password keeps it stored.
SettlePasswordKept(c) ==
  /\ call[c].at = "remembering"
  /\ secret' = IF call[c].request.value = "remember" THEN secret \cup SessionOf(c) ELSE secret
  /\ Over(c, "idle", TRUE)
  /\ UNCHANGED mu /\ UNCHANGED fileVars

\* SaveSession after the store: the password is stored or removed.
SettlePassword(c) ==
  /\ call[c].at = "remembering"
  /\ secret' = IF call[c].request.value = "remember" THEN secret \cup SessionOf(c)
                                                     ELSE secret \ SessionOf(c)
  /\ Over(c, "idle", TRUE)
  /\ UNCHANGED mu /\ UNCHANGED fileVars

\* The keyring refuses: an error when storing, ignored when removing.
SettleFails(c) ==
  /\ "failures" \in Environment
  /\ call[c].at = "remembering"
  /\ Over(c, "idle", FALSE)
  /\ UNCHANGED <<mu, secret>> /\ UNCHANGED fileVars
-----------------------------------------------------------------------------
(* The system below *)

\* The system writes what it has to the disk; a file that was renamed but
\* never synced may arrive there without its data.
Flush ==
  /\ "power" \in Environment
  /\ stable # shown.state
  /\ stable' \in {shown.state} \cup (IF shown.whole THEN {} ELSE {Torn})
  /\ UNCHANGED <<shown, mu, call, temporary, secret, disturbed>>

\* The process ends.  A temporary file it leaves is never looked at again.
Ends == /\ call' = [c \in Callers |-> NoCall]
        /\ temporary' = [c \in Callers |-> NoTemporary]
        /\ mu' = NoCaller

Crash == /\ "crash" \in Environment
         /\ Ends
         /\ disturbed' = disturbed \cup {n \in Names : Busy(n)}
         /\ UNCHANGED <<shown, stable, secret>>

\* The keyring is another file: every session may now disagree with it.
PowerLoss == /\ "power" \in Environment
             /\ Ends
             /\ shown' = FileWith(stable, TRUE)
             /\ disturbed' = Names
             /\ UNCHANGED <<stable, secret>>

Step(c) == \/ Invoke(c) \/ ForgetPassword(c) \/ Acquire(c)
           \/ CreateTemporary(c) \/ Write(c) \/ Sync(c) \/ Rename(c)
           \/ CreateFails(c) \/ WriteFails(c) \/ RemoveTemporary(c)
           \/ SettlePassword(c) \/ SettleFails(c) \/ Return(c)

Next == (\E c \in Callers : Step(c)) \/ Flush \/ Crash \/ PowerLoss

Spec == Init /\ [][Next]_vars
-----------------------------------------------------------------------------
(* Properties *)

Places == {"idle", "forgetting", "waiting", "creating", "writing", "syncing",
           "renaming", "removing", "remembering", "applied", "refused"}

Calls == [at : Places, request : Requests \cup {NoRequest},
          state : States, alone : BOOLEAN]

\* Types: a state of the file never has more than maxHistoryEntries entries,
\* whatever sequence of calls wrote it.
TypeOK ==
  /\ shown \in Files
  /\ stable \in States \cup {Torn}
  /\ mu \in Callers \cup {NoCaller}
  /\ call \in [Callers -> Calls]
  /\ temporary \in [Callers -> Files \cup {NoTemporary}]
  /\ secret \subseteq Names
  /\ disturbed \subseteq Names

\* Whenever power is lost, the next start finds a state file it can read:
\* writeLocked syncs before it renames (a file that is not valid JSON makes
\* every later call of the store fail).
StateSurvives == stable # Torn

\* A password is in the keyring only for a saved session that remembers it.
\* DeleteSession and SaveSession write the two places one after the other;
\* this holds for every session whose last call met no other call about it,
\* no failure of a step and no end of the process.
PasswordsAreWanted ==
  \A n \in secret \ disturbed :
    \/ Busy(n)
    \/ shown.state # Torn /\ shown.state.sessions[n] = "remember"

\* A call that failed leaves no temporary file beside the state file
\* (deferred os.Remove of writeLocked): only the holder of the mutex has one.
TemporaryIsOwned == \A c \in Callers : temporary[c] # NoTemporary => mu = c

Stage(at) == CASE at = "idle"                       -> "idle"
               [] at \in {"removing", "refused"}    -> "refused"
               [] at \in {"remembering", "applied"} -> "applied"
               [] OTHER                             -> "pending"

\* What a caller knows of its call.
View(entry) ==
  [stage   |-> Stage(entry.at),
   request |-> IF Stage(entry.at) = "pending" THEN entry.request ELSE NoRequest]
Known == [c \in Callers |-> View(call[c])]

Promise == INSTANCE AtomicStore WITH content <- shown.state, call <- Known

\* The read-modify-write of the whole file is one atomic step for its
\* callers, done exactly once if the call succeeds and never if it fails:
\* no update of another call is lost, and history keeps its newest entries.
ImplementsAtomicStore == Promise!Spec
=============================================================================
