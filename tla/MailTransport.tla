--------------------------- MODULE MailTransport ---------------------------
(***************************************************************************)
(* galay::mail::async::MailTransport (async/mail_transport.{h,cc}): one    *)
(* TCP or TLS connection of a mail client.  Every co_await is an await     *)
(* point ("at"), so that timers, the peer and the other parts of the       *)
(* process, which open and close descriptors of their own, run between     *)
(* two statements of a call.  One call runs at a time: the clients await   *)
(* each call before they make the next one.                                *)
(*                                                                         *)
(* The sockets of galay-kernel and galay-ssl are external.  What is used   *)
(* of them: a TcpSocket or an SslSocket holds a descriptor; close() closes *)
(* that descriptor; destroying the object does not (startTls destroys      *)
(* m_tcp and goes on using its descriptor).                                *)
(***************************************************************************)
EXTENDS Naturals, Sequences

CONSTANTS Handles,   \* descriptors of the process
          NoHandle,  \* an empty std::optional<TcpSocket> or <SslSocket>
          MaxData    \* longest data a sendAll is given (bound)

ASSUME TransportAssumption == NoHandle \notin Handles /\ MaxData \in Nat

VARIABLES
  state,         \* m_state
  tcp,           \* the descriptor m_tcp holds, or NoHandle
  ssl,           \* the descriptor m_ssl holds, or NoHandle
  op,            \* the call that is running, or "none"
  at,            \* the co_await it is suspended at
  security,      \* endpoint.security of the last connect
  len,           \* data.size() of the last sendAll
  sent,          \* its local "sent"
  wire,          \* history: offsets of data the peer was given, in order
  result,        \* what the last call returned
  owner,         \* kernel: who has each descriptor open
  upgradeFailed, \* history: startTls failed after m_ssl took m_tcp's handle
  foreign        \* history: close() closed a descriptor of somebody else

connVars  == <<state, tcp, ssl>>
sendVars  == <<len, sent, wire>>
ownVars   == <<owner, upgradeFailed, foreign>>
vars == <<connVars, op, at, security, sendVars, result, ownVars>>

Securities == {"Plain", "Tls", "StartTls"}
Ops        == {"none", "connect", "startTls", "sendAll", "recvChunk", "close"}
Closing    == {"shutdown", "sslClose", "tcpClose", "closed"}
Awaits     == Closing \cup {"idle", "dial", "handshake", "io"}

-----------------------------------------------------------------------------
(* Errors of the two socket libraries and what they become.                *)

IoErrors  == {"timeout", "disconnect", "other"}
SslErrors == {"timeout", "handshakeTimeout", "peerClosed", "verificationFailed",
              "handshakeFailed", "sniSetFailed", "other"}

mapIoError(e, fallback) ==
  CASE e = "timeout"    -> "Timeout"
    [] e = "disconnect" -> "ConnectionClosed"
    [] OTHER            -> fallback

mapSslError(e, fallback) ==
  CASE e \in {"timeout", "handshakeTimeout"} -> "Timeout"
    [] e = "peerClosed" -> "ConnectionClosed"
    [] e \in {"verificationFailed", "handshakeFailed", "sniSetFailed"} -> "TlsError"
    [] OTHER -> fallback

Untimed(errors) == errors \ {"timeout", "handshakeTimeout"}
IoFailures(fallback)  == {mapIoError(e, fallback)  : e \in Untimed(IoErrors)}
SslFailures(fallback) == {mapSslError(e, fallback) : e \in Untimed(SslErrors)}

Results == {"ok", "InvalidHost", "InvalidState", "Timeout", "ConnectionClosed",
            "ConnectionError", "SendError", "RecvError", "TlsError"}

-----------------------------------------------------------------------------
Return(r) == op' = "none" /\ at' = "idle" /\ result' = r

\* Faulty: close() overlooks m_ssl.
CloseEntryFault == IF tcp # NoHandle THEN "tcpClose" ELSE "closed"

\* Where close() goes first; "closed" stands for its last two statements.
CloseEntry == IF ssl # NoHandle THEN "shutdown"
              ELSE IF tcp # NoHandle THEN "tcpClose" ELSE "closed"

\* close(2) on h: the kernel frees it, whoever has it open by then.
Release(h) ==
  /\ owner' = [owner EXCEPT ![h] = "free"]
  /\ foreign' = (foreign \/ owner[h] = "other")
  /\ UNCHANGED upgradeFailed

Init ==
  /\ state = "Closed" /\ tcp = NoHandle /\ ssl = NoHandle
  /\ op = "none" /\ at = "idle" /\ security \in Securities
  /\ len = 0 /\ sent = 0 /\ wire = <<>> /\ result = "ok"
  /\ owner \in [Handles -> {"free", "other"}]
  /\ upgradeFailed = FALSE /\ foreign = FALSE

-----------------------------------------------------------------------------
(* connect                                                                 *)

\* The name is resolved before anything else: on failure the old connection
\* stays exactly as it was.
ConnectUnresolved ==
  /\ op = "none"
  /\ result' = "InvalidHost"
  /\ UNCHANGED <<connVars, op, at, security, sendVars, ownVars>>

Connect(sec) ==
  /\ op = "none"
  /\ op' = "connect" /\ security' = sec /\ at' = CloseEntry
  /\ UNCHANGED <<connVars, sendVars, result, ownVars>>

\* close() has returned inside connect and no socket could be made: the TLS
\* context was refused or a constructor threw.
SocketRefused ==
  /\ op = "connect" /\ at = "closed"
  /\ state' = "Closed" /\ upgradeFailed' = FALSE
  /\ Return(IF security = "Tls" THEN "TlsError" ELSE "ConnectionError")
  /\ UNCHANGED <<tcp, ssl, security, sendVars, owner, foreign>>

\* A socket on a fresh descriptor; when setting it up fails it stays in place.
SocketOpened(h) ==
  /\ op = "connect" /\ at = "closed" /\ owner[h] = "free"
  /\ state' = "Closed" /\ upgradeFailed' = FALSE
  /\ owner' = [owner EXCEPT ![h] = "mail"]
  /\ IF security = "Tls" THEN ssl' = h /\ UNCHANGED tcp
                         ELSE tcp' = h /\ UNCHANGED ssl
  /\ \/ at' = "dial" /\ UNCHANGED <<op, result>>
     \/ Return("ConnectionError")
     \/ security = "Tls" /\ Return("TlsError")
  /\ UNCHANGED <<security, sendVars, foreign>>

DialSucceeds ==
  /\ op = "connect" /\ at = "dial"
  /\ IF security = "Tls"
       THEN at' = "handshake" /\ UNCHANGED <<state, op, result>>
       ELSE state' = "Plain" /\ Return("ok")
  /\ UNCHANGED <<tcp, ssl, security, sendVars, ownVars>>

DialFails ==
  /\ op = "connect" /\ at = "dial"
  /\ \E r \in IoFailures("ConnectionError") : Return(r)
  /\ UNCHANGED <<connVars, security, sendVars, ownVars>>
-----------------------------------------------------------------------------
(* startTls                                                                *)

StartTlsRefused ==
  /\ op = "none" /\ (state # "Plain" \/ tcp = NoHandle)
  /\ result' = "InvalidState"
  /\ UNCHANGED <<connVars, op, at, security, sendVars, ownVars>>

\* resetTlsSocket on m_tcp's own descriptor.  It drops an old m_ssl first; it
\* may fail before the new one is made, or after (and then the new one stays).
StartTls ==
  /\ op = "none" /\ state = "Plain" /\ tcp # NoHandle
  /\ \/ ssl' = NoHandle /\ result' = "TlsError" /\ UNCHANGED <<op, at, upgradeFailed>>
     \/ /\ ssl' = tcp /\ result' \in {"ConnectionError", "TlsError"}
        /\ upgradeFailed' = TRUE /\ UNCHANGED <<op, at>>
     \/ /\ ssl' = tcp /\ op' = "startTls" /\ at' = "handshake"
        /\ UNCHANGED <<result, upgradeFailed>>
  /\ UNCHANGED <<state, tcp, security, sendVars, owner, foreign>>

\* Faulty: m_tcp is kept beside m_ssl.
HandshakeSucceedsFault ==
  /\ at = "handshake" /\ state' = "Tls" /\ Return("ok")
  /\ UNCHANGED <<tcp, ssl, security, sendVars, ownVars>>

\* The handshake of connect or of startTls; only the latter has an m_tcp to
\* drop.
HandshakeSucceeds ==
  /\ at = "handshake"
  /\ state' = "Tls" /\ Return("ok")
  /\ tcp' = IF op = "startTls" THEN NoHandle ELSE tcp
  /\ UNCHANGED <<ssl, security, sendVars, ownVars>>

\* Faulty: a failed startTls gives the clear channel up as well.
HandshakeFailsFault ==
  /\ at = "handshake" /\ state' = "Closed" /\ Return("TlsError")
  /\ upgradeFailed' = (upgradeFailed \/ op = "startTls")
  /\ UNCHANGED <<tcp, ssl, security, sendVars, owner, foreign>>

HandshakeFails ==
  /\ at = "handshake"
  /\ \E r \in SslFailures("TlsError") : Return(r)
  /\ upgradeFailed' = (upgradeFailed \/ op = "startTls")
  /\ UNCHANGED <<connVars, security, sendVars, owner, foreign>>
-----------------------------------------------------------------------------
(* sendAll and recvChunk                                                   *)

\* The branch a transfer takes: over m_tcp, over m_ssl, or neither.
Usable == (state = "Plain" /\ tcp # NoHandle) \/ (state = "Tls" /\ ssl # NoHandle)

\* Faulty: the offset of the last call is kept.
SendAllFault(n) ==
  /\ op = "none" /\ len' = n /\ sent' = sent /\ wire' = <<>>
  /\ IF n > 0 /\ Usable
       THEN op' = "sendAll" /\ at' = "io" /\ UNCHANGED result
       ELSE Return(IF n = 0 THEN "ok" ELSE "InvalidState")
  /\ UNCHANGED <<connVars, security, ownVars>>

\* sendAll looks at the state only inside its loop: no data, no look.
SendAll(n) ==
  /\ op = "none"
  /\ len' = n /\ sent' = 0 /\ wire' = <<>>
  /\ IF n > 0 /\ Usable
       THEN op' = "sendAll" /\ at' = "io" /\ UNCHANGED result
       ELSE Return(IF n = 0 THEN "ok" ELSE "InvalidState")
  /\ UNCHANGED <<connVars, security, ownVars>>

\* One socket send accepted k bytes from data.data() + sent.
SendProgress(k) ==
  /\ op = "sendAll" /\ at = "io" /\ k \in 1..(len - sent)
  /\ wire' = wire \o [i \in 1..k |-> sent + i]
  /\ sent' = sent + k
  /\ IF sent + k < len THEN UNCHANGED <<op, at, result>> ELSE Return("ok")
  /\ UNCHANGED <<connVars, security, len, ownVars>>

\* Faulty: a send of 0 bytes is taken for the end of the data.
SendFailsFault ==
  /\ op = "sendAll" /\ at = "io" /\ Return("ok")
  /\ UNCHANGED <<connVars, security, sendVars, ownVars>>

\* An error, or a send of 0 bytes, which is taken for a closed connection.
SendFails ==
  /\ op = "sendAll" /\ at = "io"
  /\ \E r \in {"ConnectionClosed"} \cup (IF state = "Plain" THEN IoFailures("SendError")
                                         ELSE SslFailures("SendError")) : Return(r)
  /\ UNCHANGED <<connVars, security, sendVars, ownVars>>

RecvChunk ==
  /\ op = "none"
  /\ IF Usable THEN op' = "recvChunk" /\ at' = "io" /\ UNCHANGED result
               ELSE Return("InvalidState")
  /\ UNCHANGED <<connVars, security, sendVars, ownVars>>

RecvSucceeds ==
  /\ op = "recvChunk" /\ at = "io" /\ Return("ok")
  /\ UNCHANGED <<connVars, security, sendVars, ownVars>>

RecvFails ==
  /\ op = "recvChunk" /\ at = "io"
  /\ \E r \in {"ConnectionClosed"} \cup (IF state = "Plain" THEN IoFailures("RecvError")
                                         ELSE SslFailures("RecvError")) : Return(r)
  /\ UNCHANGED <<connVars, security, sendVars, ownVars>>
-----------------------------------------------------------------------------
(* close, called by the user or by connect                                 *)

Close ==
  /\ op = "none" /\ op' = "close" /\ at' = CloseEntry
  /\ UNCHANGED <<connVars, security, sendVars, result, ownVars>>

\* The TLS closing alert: its outcome is ignored, and nothing bounds the wait.
SslShutdown ==
  /\ at = "shutdown" /\ at' = "sslClose"
  /\ UNCHANGED <<connVars, op, security, sendVars, result, ownVars>>

CloseSsl ==
  /\ at = "sslClose" /\ Release(ssl) /\ ssl' = NoHandle
  /\ at' = IF tcp # NoHandle THEN "tcpClose" ELSE "closed"
  /\ UNCHANGED <<state, tcp, op, security, sendVars, result>>

\* Faulty: m_tcp is closed but not reset.
CloseTcpFault ==
  /\ at = "tcpClose" /\ Release(tcp) /\ at' = "closed"
  /\ UNCHANGED <<connVars, op, security, sendVars, result>>

CloseTcp ==
  /\ at = "tcpClose" /\ Release(tcp) /\ tcp' = NoHandle /\ at' = "closed"
  /\ UNCHANGED <<state, ssl, op, security, sendVars, result>>

\* close() called by the user ends; connect goes on with Socket*.
CloseEnds ==
  /\ op = "close" /\ at = "closed"
  /\ state' = "Closed" /\ upgradeFailed' = FALSE /\ Return("ok")
  /\ UNCHANGED <<tcp, ssl, security, sendVars, owner, foreign>>
-----------------------------------------------------------------------------
(* Timers and the rest of the process                                      *)

TimedFault == at = "dial"  \* faulty: only the dial has a timer

\* The awaits with a .timeout(): a TLS send or recv has none, nor has close.
Timed == at \in {"dial", "handshake"} \/ (at = "io" /\ state = "Plain")

TimerFires ==
  /\ Timed
  /\ Return(mapIoError("timeout", "ConnectionError"))
  /\ upgradeFailed' = (upgradeFailed \/ op = "startTls")
  /\ UNCHANGED <<connVars, security, sendVars, owner, foreign>>

OtherOpens(h) ==
  /\ owner[h] = "free" /\ owner' = [owner EXCEPT ![h] = "other"]
  /\ UNCHANGED <<connVars, op, at, security, sendVars, result, upgradeFailed, foreign>>

OtherCloses(h) ==
  /\ owner[h] = "other" /\ owner' = [owner EXCEPT ![h] = "free"]
  /\ UNCHANGED <<connVars, op, at, security, sendVars, result, upgradeFailed, foreign>>
-----------------------------------------------------------------------------
Calls ==
  \/ ConnectUnresolved \/ StartTlsRefused \/ StartTls \/ RecvChunk \/ Close
  \/ \E sec \in Securities : Connect(sec)
  \/ \E n \in 0..MaxData : SendAll(n)

\* Steps the process takes by itself, without the peer.
Local ==
  \/ CloseSsl \/ CloseTcp \/ CloseEnds \/ SocketRefused
  \/ \E h \in Handles : SocketOpened(h)

Peer ==
  \/ DialSucceeds \/ DialFails \/ HandshakeSucceeds \/ HandshakeFails
  \/ \E k \in 1..MaxData : SendProgress(k)
  \/ SendFails \/ RecvSucceeds \/ RecvFails \/ SslShutdown

Others == \E h \in Handles : OtherOpens(h) \/ OtherCloses(h)

Next == Calls \/ Local \/ Peer \/ TimerFires \/ Others

Spec == Init /\ [][Next]_vars

\* The scheduler resumes a coroutine whose await is over, and a timer that was
\* set goes off (the default timeouts are 5 s; noTimeout() is not covered).
FairSpec == Spec /\ WF_vars(Local) /\ WF_vars(TimerFires)
-----------------------------------------------------------------------------
TypeOK ==
  /\ state \in {"Closed", "Plain", "Tls"}
  /\ tcp \in Handles \cup {NoHandle} /\ ssl \in Handles \cup {NoHandle}
  /\ op \in Ops /\ at \in Awaits /\ security \in Securities
  /\ len \in 0..MaxData /\ sent \in 0..len /\ wire \in Seq(1..MaxData)
  /\ result \in Results
  /\ owner \in [Handles -> {"free", "mail", "other"}]
  /\ upgradeFailed \in BOOLEAN /\ foreign \in BOOLEAN

\* connected() and encrypted() read m_state alone: outside close(), the state
\* never names a socket that is gone or whose descriptor is no longer ours,
\* and an encrypted session has no clear socket left beside it.
ConnectedHasSocket ==
  at \notin Closing =>
    /\ state = "Plain" => tcp \in Handles /\ owner[tcp] = "mail"
    /\ state = "Tls" => ssl \in Handles /\ owner[ssl] = "mail" /\ tcp = NoHandle

\* No descriptor is forgotten by a failure path of connect or startTls: each
\* one the transport opened is still in m_tcp or m_ssl, where close() finds it.
NoDescriptorLost == \A h \in Handles : owner[h] = "mail" => h \in {tcp, ssl}

\* close() closes a descriptor that meanwhile belongs to somebody else only
\* after a startTls that failed on this connection: m_tcp and m_ssl then hold
\* the same descriptor and close() closes it twice.
ForeignCloseNeedsFailedUpgrade == [][foreign' # foreign => upgradeFailed]_vars

\* sendAll gives the peer the bytes in order, each once, from the first one
\* on, and reports success exactly when it got to the end.
SentExactly ==
  /\ wire = [i \in 1..sent |-> i]
  /\ op = "sendAll" => sent < len

\* A sendAll that returns "ok" has handed over everything.
OkMeansAllSent == [][op = "sendAll" /\ op' = "none" => (result' = "ok" <=> sent' = len)]_vars

\* The promise of Channel, with m_state as the channel.
Promise == INSTANCE Channel
             WITH chan <- state, busy <- op, wanted <- security,
                  SecurityModes <- Securities, TlsMode <- "Tls"
ImplementsChannel == Promise!Spec

\* Every call that waits on a timed await comes back; a TLS transfer and the
\* TLS closing alert are the awaits without a timer.
TimedCallsReturn ==
  (op # "none" /\ at # "shutdown" /\ ~(at = "io" /\ state = "Tls")) ~> (op = "none")
=============================================================================
