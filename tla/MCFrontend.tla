----------------------------- MODULE MCFrontend -----------------------------
(* Small instances of Frontend: requests with a password and without, beside
   what an earlier session has left. *)
EXTENDS Frontend

NothingRetained == [j \in JobIDs |-> [status |-> "absent", request |-> NoRequest]]
Left(status, request) ==
  [NothingRetained EXCEPT ![CHOOSE j \in JobIDs : TRUE] =
     [status |-> status, request |-> request]]

Nothing == {NothingRetained}
OneLeft == Nothing \cup {Left("stopped", request) : request \in Requests}
=============================================================================
