----------------------------- MODULE SmtpParser -----------------------------
(***************************************************************************)
(* SmtpParser::parse (protocol/smtp_protocol.cc) on text.                  *)
(***************************************************************************)
EXTENDS MailText

Digits == {"2", "5", "0"}

digit3(line) == Len(line) >= 4 /\ \A i \in 1..3 : line[i] \in Digits

\* Faulty: a line that is too short for a code is not noticed.
BadFormatFault(line) == Len(line) >= 4 /\ (~digit3(line) \/ line[4] \notin {SP, "-"})
BadFormat(line) == ~digit3(line) \/ line[4] \notin {SP, "-"}

Code(line) == SubSeq(line, 1, Min({3, Len(line)}))

\* Faulty: the last line is recognised before its code is compared.
OtherCodeFault(line, first) == line[4] = "-" /\ Code(line) # Code(first)
OtherCode(line, first) == Code(line) # Code(first)

\* The loop stops at a bad line or at the last one of a reply.
SmtpParse(data) ==
  LET ls    == Lines(data)
      stops == {k \in DOMAIN ls : BadFormat(ls[k]) \/ OtherCode(ls[k], ls[1]) \/ ls[k][4] = SP}
      k     == Min(stops)
  IN  CASE stops = {} -> [kind |-> "Incomplete"]
        [] stops # {} /\ BadFormat(ls[k]) -> [kind |-> "InvalidFormat"]
        [] stops # {} /\ ~BadFormat(ls[k]) /\ OtherCode(ls[k], ls[1]) -> [kind |-> "InvalidCode"]
        [] OTHER -> [kind |-> "reply", status |-> Code(ls[1]), message |-> <<>>,
                     lines |-> [i \in 1..k |-> Rest(ls[i], 5)], used |-> Behind(data, k)]
=============================================================================
