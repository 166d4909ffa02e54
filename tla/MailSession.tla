---------------------------- MODULE MailSession -----------------------------
(***************************************************************************)
(* A client and the server it talks to, on the wire between them, as far   *)
(* as the two protocols are alike.  A dial, a TLS handshake and a close    *)
(* are steps of both sides; everything else is a step of one, and the      *)
(* streams are all they share.                                             *)
(***************************************************************************)
EXTENDS MailClient, MailServer

VARIABLE adrift  \* what the servers of connections the client has left may
                 \* still do to the store

mailVars == <<clientVars, wire, serverVars, adrift>>

SessionInit(work) ==
  ClientInit /\ ServerInit(work) /\ c2s = <<>> /\ s2c = <<>> /\ adrift = {}

DialsTo(next, work) ==
  /\ DialSucceeds(next)
  /\ srv' = Fresh(IF endpoint.security = "Tls" THEN "on" ELSE "clear", work)
  /\ UNCHANGED store

\* The old connection was closed before the new one was tried.
DialFailed == DialFails /\ srv' = Gone(srv) /\ UNCHANGED store

\* A handshake succeeds only when both sides are at it: anything left of the
\* clear stream is garbage to it.
UpgradesTo(next, work) ==
  /\ UpgradeSucceeds(next)
  /\ srv.open /\ srv.tls = "await" /\ s2c = <<>>
  /\ srv' = Secured(srv, work) /\ UNCHANGED store

Closes == CloseEnds /\ srv' = Gone(srv) /\ UNCHANGED store

\* A read finds the connection closed.
ClosedAtOtherEnd == ~srv.open /\ RecvClosed
-----------------------------------------------------------------------------
Readable == {(buffer \o s2c)[i] : i \in DOMAIN (buffer \o s2c)}

\* What both sessions keep of the types.
MailTypeOK ==
  /\ chan \in {"Closed", "Plain", "Tls"} /\ ssl \in BOOLEAN
  /\ op \in Methods \cup {"none", "connect", "close"} /\ reading \in BOOLEAN
  /\ turn \in 0..arg /\ calls \in 0..MaxCalls /\ (reading \/ buffer = <<>>)
  /\ {cmds, lost} \subseteq Nat /\ result.call <= calls
  /\ endpoint \in Endpoints \cup {NoEndpoint} /\ peer \in Endpoints \cup {NoEndpoint}
  /\ \A c \in InFlight : c.no \in 1..(cmds + 1) /\ c.whole \in BOOLEAN
  /\ srv.tls \in {"clear", "await", "on"}

\* While nothing was given up on the connection, the reply just read answers
\* the last command sent and is that reply from its first line to its last: no
\* line of it was dropped with an earlier buffer or taken from another reply.
\* (An SMTP server may write a 421 unasked at any time.)
OwnWholeReply ==
  chan # "Closed" /\ lost = 0 /\ step \notin {"dial", "greeting"} /\ reply # <<>>
    /\ LastCode # 421 =>
      /\ \A i \in DOMAIN reply : reply[i].re = IF reading THEN cmds - 1 ELSE cmds
      /\ \A i \in DOMAIN reply : reply[i].last <=> i = Len(reply)

\* The reply text read in clear cannot be taken for one of the encrypted
\* session, even when it arrived together with the answer to STARTTLS.
NoClearReplyUnderTls == chan = "Tls" => \A p \in Readable : p.line.enc

\* connect gives the credentials of an endpoint with TLS or STARTTLS to nobody
\* in clear, whatever the server answers to the commands before them.
CredentialsEncrypted ==
  \A c \in InFlight :
    c.by = "connect" /\ c.verb \in {"authPlain", "user", "pass"}
      /\ peer.security # "Plain" => c.enc

\* startTls uses the TLS parameters of the stored endpoint.  Those are the
\* parameters of the open connection, except after a connect whose host did
\* not resolve.
Misplaced == chan # "Closed" /\ step # "dial" /\ endpoint # peer
EndpointFollowsConnection ==
  [][~Misplaced /\ Misplaced' => result'.kind = "InvalidHost"]_mailVars

\* A connect that succeeded has the channel its endpoint asked for and the
\* server agrees on it.
ChannelAsAsked ==
  op = "none" /\ result.of = "connect" /\ result.kind = "ok" =>
    /\ chan = (IF endpoint.security = "Plain" THEN "Plain" ELSE "Tls")
    /\ srv.tls = (IF chan = "Tls" THEN "on" ELSE "clear")

\* A call in clear comes back whatever the server does, unless it goes on
\* encrypted or meets the one wait in clear that has no timer: a connect or a
\* close that finds the TLS socket of a failed handshake waits for its alert.
ClearCallsReturn == (op # "none") ~> (op = "none" \/ chan = "Tls" \/ Shutting)

\* A call comes back, in clear or encrypted, unless something was given up on
\* the connection before it.
CallsReturn == (op # "none") ~> (op = "none" \/ lost > 0)
=============================================================================
