----------------------------- MODULE MailClient -----------------------------
(***************************************************************************)
(* What galay::mail::async::SmtpClient and Pop3Client have in common.  A   *)
(* public method is a run through steps; most send one command and read    *)
(* one reply (command, readReply).  The two clients differ in the order of *)
(* the steps and in what ends a reply: SmtpClient and Pop3Client.          *)
(* MailTransport appears with the promise of Channel: "chan" is its        *)
(* m_state.                                                                *)
(***************************************************************************)
EXTENDS MailWire

CONSTANTS Endpoints, \* what connect is called with: records
                     \* [host, protocol, security, user (BOOLEAN: has one)]
          Methods,   \* the other methods the user calls (restriction)
          MaxCalls   \* calls per behaviour (bound)

ASSUME ClientAssumption ==
  /\ Endpoints \subseteq [host : STRING, protocol : {"Smtp", "Pop3"},
                          security : {"Plain", "Tls", "StartTls"}, user : BOOLEAN]
  /\ MaxCalls \in Nat

VARIABLES
  endpoint,  \* m_endpoint, as connect stored it
  chan,      \* m_transport.m_state
  ssl,       \* m_transport.m_ssl holds a socket
  op,        \* the method that is running, or "none"
  arg,       \* its argument: recipients.size() or the message number
  step,      \* the step of it that comes next or is under way
  turn,      \* turns of sendMail's loop over the recipients
  reading,   \* the command of the step is sent, readReply runs
  buffer,    \* readReply's local buffer, in pieces
  result,    \* what the last call returned
  reply,     \* history: the lines of the reply readReply returned last
  calls,     \* history: number of the current call
  peer,      \* history: endpoint the open connection was made to
  cmds,      \* history: commands sent on this connection
  lost       \* history: reads and sends given up on this connection

callVars   == <<op, arg, step, turn, reading, buffer>>
histVars   == <<reply, calls, peer, cmds, lost>>
clientVars == <<endpoint, chan, ssl, callVars, result, histVars>>

NoEndpoint == [host |-> "", protocol |-> "Smtp", security |-> "Plain", user |-> FALSE]

ClientInit ==
  /\ endpoint = NoEndpoint /\ peer = NoEndpoint
  /\ chan = "Closed" /\ ssl = FALSE /\ op = "none" /\ arg = 0 /\ step = "done" /\ turn = 0
  /\ reading = FALSE /\ buffer = <<>> /\ reply = <<>>
  /\ result = [of |-> "none", kind |-> "ok", code |-> 0, call |-> 0]
  /\ calls = 0 /\ cmds = 0 /\ lost = 0
-----------------------------------------------------------------------------
(* How a method goes on and ends                                           *)

LastCode == IF reply = <<>> THEN 0 ELSE Head(reply).code

\* Faulty: the reply before the last one is returned.
ReturnFault(kind, code) ==
  /\ op' = "none" /\ step' = "done" /\ reading' = FALSE /\ buffer' = <<>>
  /\ result' = [of |-> op, kind |-> kind, code |-> LastCode, call |-> calls]
  /\ UNCHANGED <<arg, turn>>

Return(kind, code) ==
  /\ op' = "none" /\ step' = "done" /\ reading' = FALSE /\ buffer' = <<>>
  /\ result' = [of |-> op, kind |-> kind, code |-> code, call |-> calls]
  /\ UNCHANGED <<arg, turn>>

\* Faulty: the buffer of readReply is kept from one reply to the next.
ProceedFault(next, code) ==
  IF next = "done" THEN Return(IF op = "connect" THEN "ok" ELSE "reply", code)
  ELSE /\ step' = next /\ reading' = (next = "greeting")
       /\ UNCHANGED <<buffer, op, arg, turn, result>>

\* Go to the next step, or return the reply (connect: success).
Proceed(next, code) ==
  IF next = "done" THEN Return(IF op = "connect" THEN "ok" ELSE "reply", code)
  ELSE /\ step' = next /\ reading' = (next = "greeting") /\ buffer' = <<>>
       /\ UNCHANGED <<op, arg, turn, result>>

\* A failed send or read ends the call; the transport stays as it is.
GiveUp(kind) == Return(kind, 0) /\ lost' = lost + 1 /\ UNCHANGED <<reply, calls, peer, cmds>>

Begin(m, n, first) ==
  /\ op = "none" /\ calls < MaxCalls /\ calls' = calls + 1
  /\ op' = m /\ step' = first /\ arg' = n /\ turn' = 0
  /\ UNCHANGED <<chan, ssl, reading, buffer, result, reply, peer, cmds, lost, wire>>
-----------------------------------------------------------------------------
(* connect, startTls and close                                             *)

\* m_endpoint is replaced before it is known whether the host resolves.
ConnectTo(e) == Begin("connect", 0, "dial") /\ endpoint' = e

\* A call that comes back at once.
Answers(m, kind) ==
  /\ op = "none" /\ calls < MaxCalls /\ calls' = calls + 1
  /\ result' = [of |-> m, kind |-> kind, code |-> 0, call |-> calls']
  /\ UNCHANGED <<chan, ssl, callVars, reply, peer, cmds, lost, wire>>

\* Faulty: the endpoint is stored before its scheme is looked at.
RefuseSchemeFault(e) ==
  Answers("connect", "InvalidScheme") /\ endpoint' = e

RefuseScheme(e) ==
  Answers("connect", "InvalidScheme") /\ UNCHANGED endpoint

\* MailTransport::connect: the old connection survives a name that does not
\* resolve, and nothing else.
Unresolved ==
  /\ step = "dial" /\ Return("InvalidHost", 0)
  /\ UNCHANGED <<endpoint, chan, ssl, histVars, wire>>

\* A dial closes the old connection first.  The streams are those of the new
\* one; what the old server has yet to read is left to it (MailSession).
DialSucceeds(next) ==
  /\ step = "dial" /\ Proceed(next, 0)
  /\ chan' = (IF endpoint.security = "Tls" THEN "Tls" ELSE "Plain")
  /\ ssl' = (endpoint.security = "Tls")
  /\ peer' = endpoint /\ reply' = <<>> /\ cmds' = 0 /\ lost' = 0
  /\ c2s' = <<>> /\ s2c' = <<>>
  /\ UNCHANGED <<endpoint, calls>>

\* The socket of a TLS dial stays behind, unless there was none yet.
DialFails ==
  /\ step = "dial" /\ Return("ConnectionError", 0)
  /\ chan' = "Closed" /\ ssl' \in {FALSE, endpoint.security = "Tls"}
  /\ c2s' = <<>> /\ s2c' = <<>>
  /\ UNCHANGED <<endpoint, histVars>>

\* The call by hand returns the reply to STARTTLS.
UpgradeSucceeds(next) ==
  /\ step = "upgrade" /\ chan = "Plain" /\ chan' = "Tls" /\ ssl' = TRUE
  /\ Proceed(next, LastCode)
  /\ UNCHANGED <<endpoint, histVars, wire>>

\* The TLS socket of a failed handshake stays behind; making it may fail too.
UpgradeFails ==
  /\ step = "upgrade"
  /\ \/ chan = "Plain" /\ GiveUp("TlsError") /\ ssl' \in BOOLEAN
     \/ chan # "Plain" /\ GiveUp("InvalidState") /\ UNCHANGED ssl
  /\ UNCHANGED <<endpoint, chan, wire>>

Close == Begin("close", 0, "close") /\ UNCHANGED endpoint

CloseEnds ==
  /\ step = "close" /\ Return("ok", 0)
  /\ chan' = "Closed" /\ ssl' = FALSE /\ c2s' = <<>> /\ s2c' = <<>>
  /\ UNCHANGED <<endpoint, histVars>>

\* MailTransport::close runs, called by the user or first thing in connect, and
\* waits for the closing alert of a TLS socket.  No timer watches that wait.
Shutting == step \in {"dial", "close"} /\ ssl
-----------------------------------------------------------------------------
(* command and readReply                                                   *)

Sends == step \notin {"done", "dial", "close", "greeting", "upgrade"} /\ ~reading

Command(verb, t, whole) ==
  [no |-> cmds + 1, verb |-> verb, call |-> calls, by |-> op, arg |-> arg, turn |-> t,
   enc |-> chan = "Tls", lost |-> lost, whole |-> whole]

\* Send the command of the step, the t-th of its loop.
SendCommand(verb, t) ==
  /\ Sends /\ chan # "Closed"
  /\ turn' = t /\ c2s' = Append(c2s, Command(verb, t, TRUE))
  /\ cmds' = cmds + 1 /\ reading' = TRUE
  /\ UNCHANGED <<endpoint, chan, ssl, op, arg, step, buffer, result, reply, calls, peer, lost,
                 s2c>>

\* sendAll failed, with nothing or only the beginning of the command out.
SendFails(verb, t) ==
  /\ Sends /\ chan # "Closed" /\ GiveUp("SendError")
  /\ c2s' \in {c2s, Append(c2s, Command(verb, t, FALSE))}
  /\ UNCHANGED <<endpoint, chan, ssl, s2c>>

SendRefused ==
  /\ Sends /\ chan = "Closed" /\ Return("InvalidState", 0)
  /\ UNCHANGED <<endpoint, chan, ssl, histVars, wire>>

\* The three ways a turn of readReply's loop goes on after a chunk arrived: a
\* part of the reply, the reply (what follows it in the buffer is dropped), or
\* something that is no reply.
Keeps(chunk) ==
  /\ buffer' = buffer \o chunk /\ s2c' = After(chunk)
  /\ UNCHANGED <<endpoint, chan, ssl, op, arg, step, turn, reading, result, histVars, c2s>>

Takes(chunk, lines) ==
  /\ reply' = lines /\ s2c' = After(chunk)
  /\ UNCHANGED <<endpoint, chan, ssl, calls, peer, cmds, lost, c2s>>

Rejects(chunk) ==
  GiveUp("ParseError") /\ s2c' = After(chunk) /\ UNCHANGED <<endpoint, chan, ssl, c2s>>

RecvFails ==
  /\ reading /\ GiveUp("RecvError")
  /\ UNCHANGED <<endpoint, chan, ssl, wire>>

RecvTimeoutFault ==  \* only the greeting is waited for with a timer
  /\ reading /\ step = "greeting" /\ chan = "Plain" /\ GiveUp("Timeout")
  /\ UNCHANGED <<endpoint, chan, ssl, wire>>

\* recv_timeout, which only a clear channel applies.
RecvTimeout ==
  /\ reading /\ chan = "Plain" /\ GiveUp("Timeout")
  /\ UNCHANGED <<endpoint, chan, ssl, wire>>

RecvClosedFault ==   \* no data is taken for not yet any data
  reading /\ s2c = <<>> /\ UNCHANGED <<clientVars, wire>>

\* The connection was closed at the other end and everything is read.
RecvClosed ==
  /\ reading /\ s2c = <<>> /\ GiveUp("ConnectionClosed")
  /\ UNCHANGED <<endpoint, chan, ssl, wire>>

\* What the parsers see of a buffer: the lines that are whole, and whether it
\* starts inside a line (a read given up before took the beginning).
FullLines(data) == [i \in 1 .. Len(data) \div 2 |-> data[2 * i].line]
StartsInside(data) == data # <<>> /\ data[1].crlf
=============================================================================
