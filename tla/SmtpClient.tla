----------------------------- MODULE SmtpClient -----------------------------
(***************************************************************************)
(* galay::mail::async::SmtpClient (async/smtp_client.{h,cc}): the steps of *)
(* its methods and SmtpParser::parse over reply lines.                     *)
(***************************************************************************)
EXTENDS MailClient, FiniteSetsExt

CONSTANT MaxRcpt     \* most recipients of one sendMail (bound)

AllMethods == {"ehlo", "helo", "startTls", "authPlain", "authLogin", "mailFrom",
               "rcptTo", "data", "sendMail", "quit"}

ASSUME SmtpAssumption == Methods \subseteq AllMethods /\ MaxRcpt \in Nat

-----------------------------------------------------------------------------
(* SmtpParser::parse on a buffer.  Code 0 stands for a line without one.   *)

negative(code) == code >= 400

\* Where the loop over the lines stops: a bad line, or the last of the reply.
Stops(data) ==
  LET ls == FullLines(data)
  IN {i \in DOMAIN ls : ls[i].last \/ ls[i].code = 0 \/ ls[i].code # ls[1].code}
ReplyIn(data) == SubSeq(FullLines(data), 1, Min(Stops(data)))

Incomplete(data) == ~StartsInside(data) /\ Stops(data) = {}
Complete(data) ==
  /\ ~StartsInside(data) /\ Stops(data) # {}
  /\ LET l == FullLines(data)[Min(Stops(data))]
     IN  l.last /\ l.code # 0 /\ l.code = data[2].line.code
-----------------------------------------------------------------------------
(* The course of a method                                                  *)

FirstStep(m) == IF m = "sendMail" THEN "mailFrom" ELSE m

\* What follows the dial, and whether the loop of sendMail goes on.
AfterDialFault == "hello"          \* the greeting is not read
AfterDial == "greeting"
RcptsLeftFault == turn <= arg      \* one turn too many
RcptsLeft == turn < arg

\* Faulty: the two branches of connect are swapped.
AfterGreetingFault ==
  CASE endpoint.user -> "hello"
    [] ~endpoint.user /\ endpoint.security = "StartTls" -> "pre_tls_ehlo"
    [] OTHER -> "done"

AfterGreeting ==
  CASE endpoint.security = "StartTls" -> "pre_tls_ehlo"
    [] endpoint.security # "StartTls" /\ endpoint.user -> "hello"
    [] OTHER -> "done"

\* The step after s.  A step is named for its method or its local variable.
NextStep(s) ==
  CASE s = "dial" -> AfterDial
    [] s = "greeting" -> AfterGreeting
    [] s = "pre_tls_ehlo" -> "startTls"
    [] s = "startTls" -> "upgrade"
    [] s = "upgrade" /\ op = "connect" -> "post_tls_ehlo"
    [] s \in {"post_tls_ehlo", "hello"} /\ endpoint.user -> "authPlain"
    [] s = "authLogin" -> "authLoginUsername"
    [] s = "authLoginUsername" -> "authLoginPassword"
    [] s \in {"mailFrom", "rcptTo"} /\ op = "sendMail" ->
         IF RcptsLeft THEN "rcptTo" ELSE "data"
    [] s = "data" -> "dataBody"
    [] OTHER -> "done"

\* The codes with which a method goes on after a step.  connect takes any
\* answer to AUTH; the last reply of a method is returned whatever it says.
AnyReply(code)    == TRUE              \* faulty: the reply is not looked at
NotNegative(code) == ~negative(code)   \* faulty: for 354, any success will do

HelloOk(code)    == ~negative(code)
StartTlsOk(code) == code = 220
LoginOk(code)    == code = 334
EnvelopeOk(code) == ~negative(code)
DataOk(code)     == code = 354

GoesOn(s, code) ==
  CASE s = "greeting" -> ~negative(code)
    [] s \in {"pre_tls_ehlo", "hello", "post_tls_ehlo"} -> HelloOk(code)
    [] s = "startTls" -> StartTlsOk(code)
    [] s \in {"authLogin", "authLoginUsername"} -> LoginOk(code)
    [] s \in {"mailFrom", "rcptTo"} /\ op = "sendMail" -> EnvelopeOk(code)
    [] s = "data" -> DataOk(code)
    [] OTHER -> TRUE
-----------------------------------------------------------------------------
Connect(e)            == e.protocol = "Smtp" /\ ConnectTo(e)
ConnectWrongScheme(e) == e.protocol # "Smtp" /\ RefuseScheme(e)

Call(m) ==
  /\ \E n \in (IF m = "sendMail" THEN 0..MaxRcpt ELSE {0}) : Begin(m, n, FirstStep(m))
  /\ UNCHANGED endpoint

Verb == IF step \in {"pre_tls_ehlo", "post_tls_ehlo", "hello"} THEN "ehlo" ELSE step
Turn == IF step = "rcptTo" /\ op = "sendMail" THEN turn + 1 ELSE turn

\* One turn of readReply's loop: the whole buffer is parsed again.
RecvChunk ==
  /\ reading
  /\ \E chunk \in Chunks : LET data == buffer \o chunk IN
       \/ Incomplete(data) /\ Keeps(chunk)
       \/ /\ Complete(data) /\ Takes(chunk, ReplyIn(data))
          /\ LET code == Head(reply').code IN
             IF GoesOn(step, code) THEN Proceed(NextStep(step), code)
             ELSE Return(IF op \in {"connect", "startTls"} THEN "ServerError" ELSE "reply", code)
       \/ ~Incomplete(data) /\ ~Complete(data) /\ Rejects(chunk)
=============================================================================
