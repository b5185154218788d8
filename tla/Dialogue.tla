------------------------------- MODULE Dialogue -------------------------------
(***************************************************************************)
(* What a simulated terminal promises to the server, from the server's     *)
(* side of the connection: within a session the answers come back in the   *)
(* order of the requests, each one fits the request at its place, and      *)
(* nothing is answered that must not be. Either side may end the session   *)
(* at any time; a new session starts afresh.                               *)
(***************************************************************************)
EXTENDS Protocol

VARIABLES
  up,        \* a session is open
  asked,     \* the requests the server has sent in the session
  answered   \* the answers it has received in the session

vars == <<up, asked, answered>>

Init ==
  /\ up = FALSE
  /\ asked = <<>>
  /\ answered = <<>>

Open ==
  /\ ~up
  /\ up' = TRUE
  /\ asked' = <<>>
  /\ answered' = <<>>

Ask ==
  /\ up
  /\ \E r \in Requests : asked' = Append(asked, r)
  /\ UNCHANGED <<up, answered>>

(* The oldest request that has no answer yet gets one that fits.           *)
Answer ==
  /\ up
  /\ Len(answered) < Len(asked)
  /\ LET r == asked[Len(answered) + 1]
     IN  /\ Answerable(r)
         /\ \E a \in AnswersTo(r) : answered' = Append(answered, a)
  /\ UNCHANGED <<up, asked>>

HangUp ==
  /\ up
  /\ up' = FALSE
  /\ UNCHANGED <<asked, answered>>

Next == Open \/ Ask \/ Answer \/ HangUp

Spec == Init /\ [][Next]_vars
=============================================================================
