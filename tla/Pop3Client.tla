----------------------------- MODULE Pop3Client -----------------------------
(***************************************************************************)
(* galay::mail::async::Pop3Client (async/pop3_client.{h,cc}): the steps of *)
(* its methods and Pop3Parser::parse over reply lines, of which a reply to *)
(* some commands has as many as the server likes.                          *)
(***************************************************************************)
EXTENDS MailClient, Pop3Lines, FiniteSetsExt

CONSTANT MaxNumber   \* largest message number asked for (bound)

AllMethods == {"capa", "stls", "userPass", "authPlain", "stat", "list", "retr",
               "dele", "noop", "rset", "quit"}

ASSUME Pop3Assumption == Methods \subseteq AllMethods /\ MaxNumber \in Nat

-----------------------------------------------------------------------------
(* Pop3Parser::parse on a buffer                                           *)

\* Faulty: RETR is read like a command with a reply of one line.
MultilineFault == step = "capa" \/ (step = "list" /\ arg = 0)
Multiline == step \in {"capa", "retr"} \/ (step = "list" /\ arg = 0)

\* The first line is there and is no status.
Invalid(data) ==
  StartsInside(data) \/ (Len(data) > 1 /\ data[2].line.code \notin {Ok, Err})

\* Faulty: the dot is waited for behind -ERR as well.
EndsFault(data) ==
  LET ls == FullLines(data)
  IN {i \in DOMAIN ls : IF Multiline THEN i > 1 /\ ls[i].code = Dot ELSE i = 1}

\* Where the reply may end: at the status line, or at a dot behind it.
Ends(data) ==
  LET ls == FullLines(data)
  IN {i \in DOMAIN ls : IF Multiline /\ ls[1].code = Ok THEN i > 1 /\ ls[i].code = Dot
                        ELSE i = 1}
ReplyIn(data) == SubSeq(FullLines(data), 1, Min(Ends(data)))
-----------------------------------------------------------------------------
(* The course of a method                                                  *)

FirstStep(m) == IF m = "userPass" THEN "user" ELSE m

LoginStep == IF endpoint.user THEN "user" ELSE "done"

AfterGreetingFault == LoginStep   \* faulty: the login does not wait for STLS
AfterGreeting == IF endpoint.security = "StartTls" THEN "stls" ELSE LoginStep

\* The step after s.  A step is named for its method or its command.
NextStep(s) ==
  CASE s = "dial" -> "greeting"
    [] s = "greeting" -> AfterGreeting
    [] s = "stls" -> "upgrade"
    [] s = "upgrade" /\ op = "connect" -> LoginStep
    [] s = "user" -> "pass"
    [] OTHER -> "done"

\* Faulty: as in SmtpClient, what the server says to the login is not looked at.
GoesOnFault(s, code) == s \in {"greeting", "stls", "user"} => code = Ok

\* connect, stls and userPass stop at the first -ERR.
GoesOn(s, code) == s \in {"greeting", "stls", "user", "pass"} => code = Ok
-----------------------------------------------------------------------------
Connect(e)            == e.protocol = "Pop3" /\ ConnectTo(e)
ConnectWrongScheme(e) == e.protocol # "Pop3" /\ RefuseScheme(e)

Call(m) ==
  /\ \E n \in (CASE m \in {"retr", "dele"} -> 1..MaxNumber
                 [] m = "list" -> 0..MaxNumber
                 [] OTHER -> {0}) : Begin(m, n, FirstStep(m))
  /\ UNCHANGED endpoint

\* The encoder of a step is named like it.
Verb == step

\* One turn of readReply's loop: the whole buffer is parsed again.
RecvChunk ==
  /\ reading
  /\ \E chunk \in Chunks : LET data == buffer \o chunk IN
       \/ ~Invalid(data) /\ Ends(data) = {} /\ Keeps(chunk)
       \/ /\ ~Invalid(data) /\ Ends(data) # {} /\ Takes(chunk, ReplyIn(data))
          /\ LET code == Head(reply').code IN
             IF GoesOn(step, code) THEN Proceed(NextStep(step), code)
             ELSE Return(IF op = "connect" THEN "ServerError" ELSE "reply", code)
       \/ Invalid(data) /\ Rejects(chunk)
=============================================================================
