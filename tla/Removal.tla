------------------------------ MODULE Removal -------------------------------
(***************************************************************************)
(* What retr, dele, rset and quit promise, without commands, replies and   *)
(* connections: from the login on messages leave the maildrop all at once, *)
(* while a quit runs, and they are those dele reported deleted and no rset *)
(* brought back; nobody gets a message that was deleted, and a quit says   *)
(* whether they are gone.  After an error on a connection nothing is sure  *)
(* on it any more; a quit given up may remove messages before the next     *)
(* login, or after that session, which then is not sure any more.          *)
(***************************************************************************)
EXTENDS Naturals, Pop3Lines

VARIABLES drop,     \* the messages in the maildrop
          shown,    \* those the numbers of the caller are about
          gone,     \* the numbers that count as deleted
          running,  \* "retr", "dele", "rset" or "quit" as long as it runs
          number,   \* the message it is about
          answer,   \* what the last call said if it was one of these
          text,     \* and the message, if it was a retr
          sure      \* a session was opened and nothing was given up on it, and
                    \* no earlier one has changed the maildrop since

vars == <<drop, shown, gone, running, number, answer, text, sure>>

Init ==
  /\ shown = drop /\ gone = {} /\ sure = FALSE
  /\ running = "none" /\ number = 0 /\ answer = "none" /\ text = <<>>

\* A connection and a session on it are opened, once each.
Open ==
  /\ shown' = drop /\ gone' = {} /\ (sure' => ~sure /\ running = "none")
  /\ UNCHANGED <<drop, running, number, answer, text>>

Begin ==
  /\ running = "none" /\ running' \in {"retr", "dele", "rset", "quit"} /\ number' \in Nat
  /\ answer' = "none" /\ text' = <<>>
  /\ UNCHANGED <<drop, shown, gone, sure>>

\* Other calls of the client begin and end, and may fail.
Otherwise ==
  /\ running = "none" /\ running' = "none" /\ number' \in Nat
  /\ answer' = "none" /\ text' = <<>> /\ (sure' => sure)
  /\ UNCHANGED <<drop, shown, gone>>

Remove ==
  /\ \E some \in SUBSET DOMAIN drop :
       /\ drop' = Without(drop, some)
       /\ sure' => sure /\ running = "quit" /\ drop = shown /\ some = gone
  /\ UNCHANGED <<shown, gone, running, number, answer, text>>

\* The call comes back.
Ends(says) ==
  /\ running # "none" /\ running' = "none" /\ answer' = says
  /\ sure' <=> sure /\ says # "unknown"
  /\ UNCHANGED <<drop, shown, number>>

Available == number \in DOMAIN shown \ gone

Retrieved ==
  /\ running = "retr" /\ Ends("ok") /\ UNCHANGED gone
  /\ sure => Available /\ text' = shown[number]

Deleted ==
  /\ running = "dele" /\ Ends("ok") /\ gone' = gone \cup {number} /\ text' = <<>>
  /\ sure => Available

BroughtBack == running = "rset" /\ Ends("ok") /\ gone' = {} /\ text' = <<>>

Done ==
  /\ running = "quit" /\ Ends("ok") /\ UNCHANGED gone /\ text' = <<>>
  /\ sure => drop = Without(shown, gone)

Refused ==
  /\ Ends("refused") /\ UNCHANGED gone /\ text' = <<>>
  /\ sure /\ running = "quit" => drop = shown

Failed == Ends("unknown") /\ UNCHANGED gone /\ text' = <<>>

Next ==
  \/ Open \/ Begin \/ Otherwise \/ Remove
  \/ Retrieved \/ Deleted \/ BroughtBack \/ Done \/ Refused \/ Failed

Spec == Init /\ [][Next]_vars
=============================================================================
