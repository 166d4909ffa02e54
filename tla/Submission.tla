----------------------------- MODULE Submission -----------------------------
(***************************************************************************)
(* What sendMail promises, without commands and connections: the mail of a *)
(* call is sent while the call runs, it is taken by a server at most once, *)
(* and the call says whether it was.  A mail that was sent may be taken at *)
(* any time later, unless its call was told the outcome.  After an error   *)
(* on a connection an answer on it may be wrong.                           *)
(***************************************************************************)
EXTENDS Naturals

VARIABLES last,       \* number of the last call of the client
          running,    \* it is a sendMail and has not returned
          travelling, \* the calls whose mail was sent and may yet be taken
          accepted,   \* the calls whose mail a server has taken
          answer,     \* what the last call said if it was a sendMail
          sure        \* nothing was given up on the connection

vars == <<last, running, travelling, accepted, answer, sure>>

Init ==
  /\ last = 0 /\ running = FALSE /\ travelling = {} /\ accepted = {}
  /\ answer = "none" /\ sure = TRUE

Submit ==
  /\ ~running /\ running' /\ last' = last + 1
  /\ UNCHANGED <<travelling, accepted, answer, sure>>

Send ==
  /\ running /\ last \notin travelling \cup accepted
  /\ travelling' = travelling \cup {last}
  /\ UNCHANGED <<last, running, accepted, answer, sure>>

\* A server takes a mail, or it is lost or refused.
Accept ==
  \E c \in travelling \ accepted :
    /\ accepted' = accepted \cup {c} /\ travelling' = travelling \ {c}
    /\ UNCHANGED <<last, running, answer, sure>>

Lose ==
  \E c \in travelling :
    /\ travelling' = travelling \ {c}
    /\ UNCHANGED <<last, running, accepted, answer, sure>>

\* An answer one can be sure of is final: nothing of the mail is on its way.
Answers(says) ==
  /\ running /\ ~running' /\ answer' = says
  /\ sure /\ says # "unknown" =>
       (says = "accepted" <=> last \in accepted) /\ last \notin travelling
  /\ sure' => sure
  /\ says # "unknown" => UNCHANGED sure
  /\ UNCHANGED <<last, travelling, accepted>>

\* Another call of the client begins or ends; a connect may make all sure again.
Otherwise ==
  /\ ~running /\ ~running' /\ last' \in {last, last + 1}
  /\ answer' \in {answer, "none"} /\ sure' \in BOOLEAN
  /\ UNCHANGED <<travelling, accepted>>

Next ==
  \/ Submit \/ Send \/ Accept \/ Lose \/ Otherwise
  \/ \E says \in {"accepted", "refused", "unknown"} : Answers(says)

Spec == Init /\ [][Next]_vars
=============================================================================
