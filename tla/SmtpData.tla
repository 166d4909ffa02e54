------------------------------ MODULE SmtpData ------------------------------
(***************************************************************************)
(* SmtpEncoder::dataBody (protocol/smtp_protocol.cc): the loop that puts a *)
(* message into the form in which it follows DATA, one character a step,   *)
(* together with the server's reading of what it has written so far.  The  *)
(* server is not part of the repository: it takes off the dot that starts  *)
(* a line and stops at a line that is a dot alone.  A strict one ends a    *)
(* line at CRLF only, a lenient one at a bare LF as well; a message handed *)
(* to the encoder may have either.                                         *)
(***************************************************************************)
EXTENDS Naturals, Sequences

CONSTANT MaxLen  \* longest message (bound)

ASSUME DataAssumption == MaxLen \in Nat

VARIABLES
  message,        \* the argument
  i,              \* characters of it the loop has dealt with
  at_line_start,  \* the loop's flag
  out,            \* the encoded text so far
  finished,       \* the final line is written
  lenient,        \* which kind of server reads it
  reader          \* the server: where in a line it is, and what it has got

vars == <<message, i, at_line_start, out, finished, lenient, reader>>

\* All that dot-stuffing tells apart; "x" is any other character.
Chars == {".", "\r", "\n", "x"}
CRLF  == <<"\r", "\n">>

Messages == UNION {[1..n -> Chars] : n \in 0..MaxLen}

\* Places of the server in the text: at the start of a line, after a dot that
\* started one, after such a dot and a CR, after another CR, elsewhere, at the
\* end of the message.
Places == {"start", "dot", "dotCr", "cr", "text", "end"}

Got(r, at, chars) == [at |-> at, got |-> r.got \o chars]
Ends(ch) == lenient /\ ch = "\n"

Receive(r, ch) ==
  CASE r.at = "end" -> r
    [] r.at = "start" /\ ch = "." -> [r EXCEPT !.at = "dot"]
    [] r.at = "dot" /\ ch = "\r"  -> [r EXCEPT !.at = "dotCr"]
    [] r.at = "dot" /\ Ends(ch)   -> [r EXCEPT !.at = "end"]
    [] r.at = "dotCr" /\ ch = "\n" -> [r EXCEPT !.at = "end"]
    [] r.at = "dotCr" /\ ch # "\n" -> Got(r, IF ch = "\r" THEN "cr" ELSE "text", <<"\r", ch>>)
    [] (r.at = "cr" /\ ch = "\n") \/ (r.at \in {"start", "text"} /\ Ends(ch)) ->
         Got(r, "start", <<ch>>)
    [] OTHER -> Got(r, IF ch = "\r" THEN "cr" ELSE "text", <<ch>>)

ReceiveCrlf(r) == Receive(Receive(r, "\r"), "\n")
-----------------------------------------------------------------------------
Init ==
  /\ message \in Messages /\ i = 0 /\ at_line_start = TRUE /\ out = <<>>
  /\ finished = FALSE /\ lenient \in BOOLEAN
  /\ reader = [at |-> "start", got |-> <<>>]

\* Whether the next character is a dot to be doubled.
StuffsNone == FALSE                   \* faulty: no dot is
StuffsAll  == message[i + 1] = "."    \* faulty: every dot is
Stuffs     == at_line_start /\ message[i + 1] = "."

\* One turn of the loop.
Stuff ==
  /\ i < Len(message) /\ i' = i + 1
  /\ LET ch == message[i + 1]
     IN  /\ out' = out \o (IF Stuffs THEN <<".", ch>> ELSE <<ch>>)
         /\ reader' = Receive(IF Stuffs THEN Receive(reader, ".") ELSE reader, ch)
         /\ at_line_start' = (ch = "\n")
  /\ UNCHANGED <<message, finished, lenient>>

\* After the loop: a line end unless there is one, and the final line.
EndsInCrlf == Len(out) >= 2 /\ out[Len(out) - 1] = "\r" /\ out[Len(out)] = "\n"
Finish ==
  /\ i = Len(message) /\ ~finished /\ finished' = TRUE
  /\ out' = (IF EndsInCrlf THEN out ELSE out \o CRLF) \o <<".", "\r", "\n">>
  /\ reader' = LET r == IF EndsInCrlf THEN reader ELSE ReceiveCrlf(reader)
               IN  ReceiveCrlf(Receive(r, "."))
  /\ UNCHANGED <<message, i, at_line_start, lenient>>

Next == Stuff \/ Finish
Spec == Init /\ [][Next]_vars
-----------------------------------------------------------------------------
TypeOK ==
  /\ message \in Seq(Chars) /\ i \in 0..Len(message) /\ at_line_start \in BOOLEAN
  /\ out \in Seq(Chars) /\ finished \in BOOLEAN /\ lenient \in BOOLEAN
  /\ reader \in [at : Places, got : Seq(Chars)]

\* No message can end the DATA phase early, and the final line always ends it:
\* whichever line ends the server goes by, it is at the end of the message
\* exactly when the encoder is, so nothing of a message is read as a command.
EndsWithTheMessage == (reader.at = "end") <=> finished

\* A line of the message that starts with a dot after a bare LF.
DotAfterBareLf ==
  \E k \in 2..Len(message) :
    /\ message[k] = "." /\ message[k - 1] = "\n"
    /\ k = 2 \/ message[k - 2] # "\r"

\* The server gets the message as it was given, plus a line end where the last
\* line had none.  The exception is a strict server and a dot after a bare LF:
\* the encoder doubles that dot and the server does not take it off again.
HasLineEnd == Len(message) >= 2 /\ message[Len(message) - 1] = "\r"
                                /\ message[Len(message)] = "\n"
Tidy == lenient \/ ~DotAfterBareLf
ArrivesUnchanged ==
  Tidy => reader.got = IF ~finished THEN SubSeq(message, 1, i)
                       ELSE IF HasLineEnd THEN message ELSE message \o CRLF
=============================================================================
