------------------------------- MODULE Channel -------------------------------
(***************************************************************************)
(* What RecvN makes of the byte stream of a connection: the client gets    *)
(* the server's requests whole, in order, none twice and none left out;    *)
(* when the server ends the connection the last of them may be lost.       *)
(***************************************************************************)
EXTENDS Naturals, Sequences

CONSTANT Requests

VARIABLES
  up,        \* the server has not ended the connection
  sent,      \* the requests it has sent
  received   \* the requests the client has got, with their bodies

vars == <<up, sent, received>>

Init ==
  /\ up = TRUE
  /\ sent = <<>>
  /\ received = <<>>

Send ==
  /\ up
  /\ \E r \in Requests : sent' = Append(sent, r)
  /\ UNCHANGED <<up, received>>

Receive ==
  /\ Len(received) < Len(sent)
  /\ received' = Append(received, sent[Len(received) + 1])
  /\ UNCHANGED <<up, sent>>

HangUp ==
  /\ up
  /\ up' = FALSE
  /\ UNCHANGED <<sent, received>>

Next == Send \/ Receive \/ HangUp

Spec == Init /\ [][Next]_vars
=============================================================================
