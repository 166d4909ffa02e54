----------------------------- MODULE SmtpSession -----------------------------
(***************************************************************************)
(* An SmtpClient and an SMTP server, and what a caller of the client may   *)
(* rely on.                                                                *)
(***************************************************************************)
EXTENDS SmtpClient, SmtpServer, MailSession

vars == mailVars

Init == SessionInit(NewWork) /\ store = {}

Dials    == DialsTo(NextStep("dial"), NewWork)
Upgrades == UpgradesTo(NextStep("upgrade"), NewWork) /\ UNCHANGED adrift

\* The client leaves its connection; what it sent is not taken back.
Departs == (Dials \/ DialFailed \/ Closes) /\ adrift' = adrift \cup LeftBehind

\* The server of such a connection takes a mail, which may be long after.
TakesLate ==
  /\ \E m \in adrift : store' = store \cup {m} /\ adrift' = adrift \ {m}
  /\ UNCHANGED <<clientVars, wire, srv>>

\* The client goes on with the method that runs.
Continues ==
  /\ \/ Unresolved \/ UpgradeFails
     \/ SendCommand(Verb, Turn) \/ SendFails(Verb, Turn) \/ SendRefused
     \/ RecvChunk \/ RecvTimeout \/ ClosedAtOtherEnd
  /\ UNCHANGED <<serverVars, adrift>>

ClientStep ==
  \/ Continues
  \/ /\ \/ \E m \in Methods : Call(m)
        \/ \E e \in Endpoints : Connect(e) \/ ConnectWrongScheme(e)
        \/ Close \/ RecvFails
     /\ UNCHANGED <<serverVars, adrift>>

ServerStep == (Serves \/ Leaves) /\ UNCHANGED <<clientVars, adrift>>

Next == Departs \/ Upgrades \/ ClientStep \/ ServerStep \/ TakesLate

Spec == Init /\ [][Next]_vars

\* What the scheduler and the timers bring about: a command that can be sent
\* is sent, data that arrived is handed over, an await with a timer ends.
\* Nothing here makes a TLS read that gets no data come back, nor a close that
\* waits for the closing alert of the server.
TimerSpec == Spec /\ WF_vars(~Shutting /\ (Departs \/ Upgrades \/ Continues))

\* A server that does not stop in the middle of its work, and answers a closing
\* alert (or closes the connection) too.
WorkingServer == WF_vars(Serves /\ UNCHANGED <<clientVars, adrift>>) /\ WF_vars(Departs)
-----------------------------------------------------------------------------
TypeOK == MailTypeOK /\ arg \in 0..MaxRcpt /\ srv.work.mode \in Modes

\* readReply keeps no bytes between two calls and a command is not sent
\* before the last one is answered or given up: on an open connection the
\* reply just read is behind the last command by at most the reads and sends
\* given up so far, and never ahead.
ReplyLag ==
  chan # "Closed" /\ step \notin {"dial", "greeting"} /\ reply # <<>> /\ LastCode # 421 =>
    LET last == IF reading THEN cmds - 1 ELSE cmds
    IN  Head(reply).re <= cmds /\ Head(reply).re + lost >= last

\* A connect that succeeded has the channel its endpoint asked for, the server
\* agrees on it, and it knows the client where the client has said EHLO.
ConnectOkMeansSecured ==
  /\ ChannelAsAsked
  /\ op = "none" /\ result.of = "connect" /\ result.kind = "ok" =>
       (endpoint.security = "StartTls" \/ endpoint.user => srv.work.hello)

\* The reply of sendMail tells the truth while nothing was given up on the
\* connection: the server took the message if and only if the reply is 2yz.
SendMailTellsTheTruth ==
  op = "none" /\ result.of = "sendMail" /\ result.kind = "reply" /\ lost = 0 =>
    (result.code \in 200..299 <=> \E d \in store : d.body = result.call)

\* sendMail keeps the promise of Submission: a mail is sent and taken at most
\* once, and what the call says of it is final, as long as nothing was given up
\* on the connection, and again after the next connect.  A mail given up may be
\* taken at any time later, after a reconnect too.
Says ==
  CASE result.of # "sendMail" -> "none"
    [] result.of = "sendMail" /\ result.kind # "reply" -> "unknown"
    [] OTHER -> IF result.code \in 200..299 THEN "accepted" ELSE "refused"
SentBySendMail(mails) == {m.body : m \in {n \in mails : n.by = "sendMail"}}
Mails ==
  INSTANCE Submission WITH
    last <- calls, running <- op = "sendMail", answer <- Says, sure <- lost = 0,
    travelling <- SentBySendMail(adrift \cup LeftBehind), accepted <- SentBySendMail(store)
ImplementsSubmission == Mails!Spec

\* A message sendMail delivers has the sender of that call and each of its
\* recipients once, in order, and nobody left over from an earlier call.
EnvelopeOfOneCall ==
  \A d \in store : d.by = "sendMail" /\ d.lost = 0 =>
    /\ d.from = d.body
    /\ d.to = [i \in 1..d.rcpts |-> [mail |-> d.body, rcpt |-> i]]

\* The text of a message reaches the server in data mode or not at all: it is
\* never read as commands, however far the replies lag behind.
BodyNeverReadAsCommands ==
  srv.open /\ srv.greeted /\ c2s # <<>> /\ Head(c2s).verb = "dataBody" =>
    srv.work.mode = "data"

\* While nothing was given up, the user name and the password of AUTH LOGIN
\* are read by a server that asked for just that one, never as a command.
LoginLinesWhereAsked ==
  srv.open /\ srv.greeted /\ c2s # <<>> /\ lost = 0 =>
    /\ Head(c2s).verb = "authLoginUsername" => srv.work.mode = "username"
    /\ Head(c2s).verb = "authLoginPassword" => srv.work.mode = "password"

\* With a server that goes on working every call comes back, on an encrypted
\* channel too, which no timer watches.
ServedCallsReturn == WorkingServer => CallsReturn

\* What the error model promises: a negative reply of the server is an error,
\* so a connect with credentials that succeeds has logged in.
ConnectOkMeansAuthenticated ==
  op = "none" /\ result.of = "connect" /\ result.kind = "ok" /\ endpoint.user => srv.work.auth
=============================================================================
