----------------------------- MODULE AtomicStore -----------------------------
(***************************************************************************)
(* What the state file promises its callers: a request takes effect once,  *)
(* in one step between its call and its return, on what the file then      *)
(* holds; a request that is refused has no effect; the end of the process  *)
(* leaves each pending request applied or not; a loss of power takes the   *)
(* file back to a state it has had, whole.                                 *)
(***************************************************************************)
EXTENDS Naturals, Sequences

CONSTANTS Callers,
          Requests,     \* records with op, list, key and value
          Names,        \* of sessions
          JobIDs,
          NoRequest,
          Absent,       \* the value of a key that is not there
          MaxHistory

VARIABLES content,  \* sessions and jobs: the value of each key; history: newest last
          stable,   \* the content a loss of power leaves
          call      \* of each caller: its request and what became of it

vars == <<content, stable, call>>

Empty == [sessions |-> [n \in Names |-> Absent],
          jobs     |-> [j \in JobIDs |-> Absent],
          history  |-> <<>>]

Newest(entries) ==
  SubSeq(entries, IF Len(entries) > MaxHistory THEN Len(entries) - MaxHistory + 1 ELSE 1,
         Len(entries))

Applied(r, c) ==
  CASE r.list = "sessions" -> [c EXCEPT !.sessions[r.key] = r.value]
    [] r.list = "jobs"     -> [c EXCEPT !.jobs[r.key] = r.value]
    [] r.op = "record"     -> [c EXCEPT !.history = Newest(Append(@, r.value))]
    [] r.op = "clear"      -> [c EXCEPT !.history = <<>>]

Idle == [stage |-> "idle", request |-> NoRequest]

Init == content = Empty /\ stable = Empty /\ call = [c \in Callers |-> Idle]

Invoke(c) == /\ call[c] = Idle
             /\ \E r \in Requests : call' = [call EXCEPT ![c] = [stage |-> "pending", request |-> r]]
             /\ UNCHANGED <<content, stable>>

Answered(c, stage) == call' = [call EXCEPT ![c] = [stage |-> stage, request |-> NoRequest]]

Apply(c) == /\ call[c].stage = "pending"
            /\ content' = Applied(call[c].request, content)
            /\ Answered(c, "applied")
            /\ UNCHANGED stable

Refuse(c) == /\ call[c].stage = "pending"
             /\ Answered(c, "refused")
             /\ UNCHANGED <<content, stable>>

Return(c) == /\ call[c].stage \in {"applied", "refused"}
             /\ call' = [call EXCEPT ![c] = Idle]
             /\ UNCHANGED <<content, stable>>

Flush == stable' = content /\ UNCHANGED <<content, call>>

Crash == /\ call' = [c \in Callers |-> Idle]
         /\ UNCHANGED <<content, stable>>

PowerLoss == /\ call' = [c \in Callers |-> Idle]
             /\ content' = stable
             /\ UNCHANGED stable

Next == \/ \E c \in Callers : Invoke(c) \/ Apply(c) \/ Refuse(c) \/ Return(c)
        \/ Flush \/ Crash \/ PowerLoss

Spec == Init /\ [][Next]_vars
=============================================================================
