------------------------------- MODULE Protocol -------------------------------
(***************************************************************************)
(* The messages of mProtocol.h, as far as the client tells them apart: a   *)
(* request of the server is a header (pLType, ID), with a body after it    *)
(* when it is an IDENTIFY; an answer is the header the client sends back   *)
(* and the two numbers of its body that the client keeps a record of.      *)
(***************************************************************************)
EXTENDS Naturals, Sequences

CONSTANTS
  Asks,       \* the pLType values the server uses
  TermIDs,    \* the ID of a SUBTERMINFO request: the terminal it is about
  TermNums,   \* what GenTermInfo may draw as the number of terminals
  ScreenNums  \* what GenSubTermInfo may draw as the number of screens

(* The cases of the switch in ClientSimulate.                              *)
Handled ==
  {"IDENTIFY", "SYSINFO", "CFGINFO", "PROCINFO", "ETHINFO", "USBINFO",
   "USBFILEINFO", "PRINTINFO", "PRINTQUEUEINFO", "TERMINFO",
   "SUBTERMINFO_1", "SUBTERMINFO_2", "END"}

(* SYNCINFO is a pLType of the protocol that the switch has no case for.   *)
ASSUME ProtocolAssumption ==
  /\ Asks \subseteq Handled \cup {"SYNCINFO"}
  /\ TermIDs \subseteq Nat
  /\ TermNums \subseteq Nat
  /\ ScreenNums \subseteq Nat

DEFAULT_ID == 0

SubTerm == {"SUBTERMINFO_1", "SUBTERMINFO_2"}

IDsOf(type) ==
  CASE type = "ETHINFO"  -> {0, 1}
    [] type \in SubTerm  -> TermIDs
    [] OTHER             -> {DEFAULT_ID}

(* What the client finds out about the body of an IDENTIFY: the server's   *)
(* version is too old; its token is the right one; it is not.              *)
BodiesOf(type) ==
  IF type = "IDENTIFY" THEN {"old", "genuine", "forged"} ELSE {"none"}

Requests ==
  UNION {[type : {t}, ID : IDsOf(t), body : BodiesOf(t)] : t \in Asks}

Responses ==
  [type : Handled \cup {"MINVERREQ"}, ID : Nat, num : Nat]

(* A request the client must not answer: it does not know its type, or its *)
(* token is forged.                                                        *)
Answerable(r) == r.type \in Handled /\ r.body # "forged"

(* The answers that fit a request: the type of the request, but a minimum  *)
(* version package for a server that is too old; the ID of the request     *)
(* when it names an interface or a terminal; the number the body declares. *)
AnswersTo(r) ==
  [type : {IF r.body = "old" THEN "MINVERREQ" ELSE r.type},
   ID   : {IF r.type \in SubTerm \cup {"ETHINFO"} THEN r.ID ELSE DEFAULT_ID},
   num  : CASE r.type = "TERMINFO"   -> TermNums
            [] r.type \in SubTerm    -> ScreenNums
            [] OTHER                 -> {0}]
=============================================================================
