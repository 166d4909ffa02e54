------------------------ MODULE MailTransportProofs ------------------------
(***************************************************************************)
(* Theorems about MailTransport, for any set of descriptors and data of    *)
(* any length, and their proofs.  The inductive invariant IInv says what   *)
(* m_tcp and m_ssl hold at each co_await: everything else follows from it. *)
(***************************************************************************)
EXTENDS MailTransport, TLAPS

\* Which awaits a call can be suspended at.
AwaitOfCall ==
  /\ op = "none" <=> at = "idle"
  /\ at \in Closing => op \in {"connect", "close"}
  /\ at = "dial" => op = "connect"
  /\ at = "handshake" => op \in {"connect", "startTls"}
  /\ at = "io" => op \in {"sendAll", "recvChunk"} /\ Usable

\* Which sockets exist there, and that connect works on a closed channel.
SocketsAtAwait ==
  /\ at \in {"shutdown", "sslClose"} => ssl # NoHandle
  /\ at = "tcpClose" => ssl = NoHandle /\ tcp # NoHandle
  /\ at = "closed" => ssl = NoHandle /\ tcp = NoHandle
  /\ at \in {"dial", "handshake"} /\ op = "connect" => state = "Closed"
  /\ at = "dial" /\ security = "Tls" => ssl # NoHandle /\ tcp = NoHandle
  /\ at = "dial" /\ security # "Tls" => ssl = NoHandle /\ tcp # NoHandle
  /\ at = "handshake" /\ op = "connect" => security = "Tls" /\ ssl # NoHandle /\ tcp = NoHandle
  /\ at = "handshake" /\ op = "startTls" => state = "Plain" /\ tcp # NoHandle /\ ssl = tcp
  /\ at \notin Closing => /\ state = "Plain" => tcp # NoHandle
                          /\ state = "Tls" => ssl # NoHandle /\ tcp = NoHandle

\* What they hold is ours, until close() has closed it; two sockets on one
\* descriptor are what a failed startTls leaves.
Ownership ==
  /\ tcp # NoHandle /\ at # "tcpClose" => owner[tcp] = "mail"
  /\ ssl # NoHandle => owner[ssl] = "mail"
  /\ at = "tcpClose" => owner[tcp] = "mail" \/ upgradeFailed
  /\ tcp # NoHandle /\ ssl # NoHandle => ssl = tcp /\ (upgradeFailed \/ op = "startTls")

IInv == TypeOK /\ AwaitOfCall /\ SocketsAtAwait /\ Ownership /\ NoDescriptorLost /\ SentExactly
-----------------------------------------------------------------------------
USE TransportAssumption DEF TransportAssumption

\* IoFailures and SslFailures are results: no error of a socket library maps
\* to "ok".
LEMMA FailuresAreResults ==
  ASSUME NEW f \in {"ConnectionError", "SendError", "RecvError", "TlsError"}
  PROVE  /\ IoFailures(f) \subseteq Results \ {"ok"}
         /\ SslFailures(f) \subseteq Results \ {"ok"}
         /\ mapIoError("timeout", f) = "Timeout"
BY DEF IoFailures, SslFailures, mapIoError, mapSslError, Untimed, IoErrors, SslErrors,
   Results

LEMMA InitIInv == Init => IInv
<1>. SUFFICES ASSUME Init PROVE IInv
  OBVIOUS
<1>1. wire = [i \in 1..sent |-> i] /\ wire \in Seq(1..MaxData)
  BY DEF Init
<1>2. TypeOK
  <2>1. len \in 0..MaxData /\ sent \in 0..len
    BY DEF Init
  <2>2. owner \in [Handles -> {"free", "mail", "other"}]
    BY DEF Init
  <2>3. /\ op \in Ops /\ at \in Awaits /\ security \in Securities /\ result \in Results
        /\ upgradeFailed \in BOOLEAN /\ foreign \in BOOLEAN
        /\ state \in {"Closed", "Plain", "Tls"}
    BY DEF Init, Ops, Awaits, Closing, Securities, Results
  <2>. QED
    BY <1>1, <2>1, <2>2, <2>3 DEF Init, TypeOK
<1>3. AwaitOfCall /\ SocketsAtAwait /\ Ownership /\ NoDescriptorLost /\ SentExactly
  BY <1>1 DEF Init, AwaitOfCall, SocketsAtAwait, Ownership, NoDescriptorLost,
     SentExactly, Closing
<1>. QED
  BY <1>2, <1>3 DEF IInv

\* Every step keeps the invariant, action by action.
LEMMA NextIInv == IInv /\ Next => IInv'
<1>. SUFFICES ASSUME IInv, Next PROVE IInv'
  OBVIOUS
<1>. USE DEF IInv
<1>1. ASSUME ConnectUnresolved PROVE IInv'
  <2>1. TypeOK'
    BY <1>1 DEF TypeOK, connVars, sendVars, ownVars, Results, ConnectUnresolved
  <2>2. AwaitOfCall' /\ SocketsAtAwait' /\ Ownership' /\ NoDescriptorLost' /\ SentExactly'
    BY <1>1 DEF AwaitOfCall, SocketsAtAwait, Ownership, NoDescriptorLost,
       SentExactly, connVars, sendVars, ownVars, ConnectUnresolved
  <2>. QED
    BY <2>1, <2>2
<1>2. ASSUME NEW sec \in Securities, Connect(sec) PROVE IInv'
  <2>1. TypeOK'
    BY <1>2 DEF TypeOK, connVars, sendVars, ownVars, CloseEntry, Closing, Ops,
       Awaits, Connect
  <2>2. AwaitOfCall' /\ SocketsAtAwait' /\ Ownership' /\ NoDescriptorLost' /\ SentExactly'
    BY <1>2 DEF AwaitOfCall, SocketsAtAwait, Ownership, NoDescriptorLost,
       SentExactly, connVars, sendVars, ownVars, CloseEntry, Connect
  <2>. QED
    BY <2>1, <2>2
<1>3. ASSUME SocketRefused PROVE IInv'
  <2>1. TypeOK'
    BY <1>3 DEF TypeOK, sendVars, Return, Ops, Awaits, Results, SocketRefused
  <2>2. AwaitOfCall' /\ SocketsAtAwait' /\ Ownership' /\ NoDescriptorLost' /\ SentExactly'
    BY <1>3 DEF AwaitOfCall, SocketsAtAwait, Ownership, NoDescriptorLost,
       SentExactly, sendVars, Return, Closing, SocketRefused
  <2>. QED
    BY <2>1, <2>2
<1>4. ASSUME NEW h \in Handles, SocketOpened(h) PROVE IInv'
  <2>1. TypeOK'
    BY <1>4 DEF TypeOK, sendVars, Return, Ops, Awaits, Results, SocketOpened
  <2>2. AwaitOfCall' /\ SocketsAtAwait' /\ Ownership' /\ NoDescriptorLost' /\ SentExactly'
    BY <1>4 DEF TypeOK, AwaitOfCall, SocketsAtAwait, Ownership, NoDescriptorLost,
       SentExactly, sendVars, Return, Closing, SocketOpened
  <2>. QED
    BY <2>1, <2>2
<1>5. ASSUME DialSucceeds PROVE IInv'
  <2>1. TypeOK'
    BY <1>5 DEF TypeOK, sendVars, ownVars, Return, Ops, Awaits, Results, DialSucceeds
  <2>2. AwaitOfCall' /\ SocketsAtAwait' /\ Ownership' /\ NoDescriptorLost' /\ SentExactly'
    BY <1>5 DEF AwaitOfCall, SocketsAtAwait, Ownership, NoDescriptorLost,
       SentExactly, sendVars, ownVars, Return, Closing, DialSucceeds
  <2>. QED
    BY <2>1, <2>2
<1>6. ASSUME DialFails PROVE IInv'
  <2>1. TypeOK'
    BY <1>6, FailuresAreResults DEF TypeOK, connVars, sendVars, ownVars, Return,
       Ops, Awaits, DialFails
  <2>2. AwaitOfCall' /\ SocketsAtAwait' /\ Ownership' /\ NoDescriptorLost' /\ SentExactly'
    BY <1>6 DEF AwaitOfCall, SocketsAtAwait, Ownership, NoDescriptorLost,
       SentExactly, connVars, sendVars, ownVars, Return, Closing, DialFails
  <2>. QED
    BY <2>1, <2>2
<1>7. ASSUME StartTlsRefused PROVE IInv'
  <2>1. TypeOK'
    BY <1>7 DEF TypeOK, connVars, sendVars, ownVars, Results, StartTlsRefused
  <2>2. AwaitOfCall' /\ SocketsAtAwait' /\ Ownership' /\ NoDescriptorLost' /\ SentExactly'
    BY <1>7 DEF AwaitOfCall, SocketsAtAwait, Ownership, NoDescriptorLost,
       SentExactly, connVars, sendVars, ownVars, StartTlsRefused
  <2>. QED
    BY <2>1, <2>2
<1>8. ASSUME StartTls PROVE IInv'
  <2>1. TypeOK'
    BY <1>8 DEF TypeOK, sendVars, Ops, Awaits, Results, StartTls
  <2>2. AwaitOfCall' /\ SocketsAtAwait' /\ Ownership' /\ NoDescriptorLost' /\ SentExactly'
    BY <1>8 DEF AwaitOfCall, SocketsAtAwait, Ownership, NoDescriptorLost,
       SentExactly, sendVars, Closing, StartTls
  <2>. QED
    BY <2>1, <2>2
<1>9. ASSUME HandshakeSucceeds PROVE IInv'
  <2>1. TypeOK'
    BY <1>9 DEF TypeOK, sendVars, ownVars, Return, Ops, Awaits, Results,
       HandshakeSucceeds
  <2>2. AwaitOfCall' /\ SocketsAtAwait' /\ Ownership' /\ NoDescriptorLost' /\ SentExactly'
    BY <1>9 DEF AwaitOfCall, SocketsAtAwait, Ownership, NoDescriptorLost,
       SentExactly, sendVars, ownVars, Return, Closing, HandshakeSucceeds
  <2>. QED
    BY <2>1, <2>2
<1>10. ASSUME HandshakeFails PROVE IInv'
  <2>1. TypeOK'
    BY <1>10, FailuresAreResults DEF TypeOK, connVars, sendVars, Return, Ops,
       Awaits, HandshakeFails
  <2>2. AwaitOfCall' /\ SocketsAtAwait' /\ Ownership' /\ NoDescriptorLost' /\ SentExactly'
    BY <1>10 DEF AwaitOfCall, SocketsAtAwait, Ownership, NoDescriptorLost,
       SentExactly, connVars, sendVars, Return, Closing, HandshakeFails
  <2>. QED
    BY <2>1, <2>2
<1>11. ASSUME NEW n \in 0..MaxData, SendAll(n) PROVE IInv'
  <2>1. TypeOK'
    BY <1>11 DEF TypeOK, connVars, ownVars, Return, Ops, Awaits, Results, SendAll
  <2>2. AwaitOfCall' /\ SocketsAtAwait' /\ Ownership' /\ NoDescriptorLost' /\ SentExactly'
    BY <1>11 DEF AwaitOfCall, SocketsAtAwait, Ownership, NoDescriptorLost,
       SentExactly, connVars, ownVars, Return, Closing, Usable, SendAll
  <2>. QED
    BY <2>1, <2>2
<1>12. ASSUME NEW k \in 1..MaxData, SendProgress(k) PROVE IInv'
  <2>1. TypeOK'
    <3>1. sent + k \in 0..len /\ k \in Nat /\ len \in 0..MaxData
      BY <1>12 DEF TypeOK, SendProgress
    <3>2. [i \in 1..k |-> sent + i] \in Seq(1..MaxData)
      BY <1>12, <3>1 DEF TypeOK
    <3>3. wire' \in Seq(1..MaxData)
      BY <1>12, <3>2 DEF TypeOK, SendProgress
    <3>. QED
      BY <1>12, <3>1, <3>3 DEF TypeOK, SendProgress, Return, connVars, ownVars,
         Ops, Awaits, Results
  <2>2. AwaitOfCall' /\ SocketsAtAwait' /\ Ownership' /\ NoDescriptorLost'
    BY <1>12 DEF AwaitOfCall, SocketsAtAwait, Ownership, NoDescriptorLost,
       connVars, ownVars, Return, Closing, Usable, SendProgress
  <2>3. SentExactly'
    BY <1>12 DEF TypeOK, SentExactly, Return, SendProgress
  <2>. QED
    BY <2>1, <2>2, <2>3
<1>13. ASSUME SendFails PROVE IInv'
  <2>1. TypeOK'
    BY <1>13, FailuresAreResults DEF TypeOK, connVars, sendVars, ownVars, Return,
       Ops, Awaits, Results, SendFails
  <2>2. AwaitOfCall' /\ SocketsAtAwait' /\ Ownership' /\ NoDescriptorLost' /\ SentExactly'
    BY <1>13 DEF AwaitOfCall, SocketsAtAwait, Ownership, NoDescriptorLost,
       SentExactly, connVars, sendVars, ownVars, Return, Closing, SendFails
  <2>. QED
    BY <2>1, <2>2
<1>14. ASSUME RecvChunk PROVE IInv'
  <2>1. TypeOK'
    BY <1>14 DEF TypeOK, connVars, sendVars, ownVars, Return, Ops, Awaits,
       Results, RecvChunk
  <2>2. AwaitOfCall' /\ SocketsAtAwait' /\ Ownership' /\ NoDescriptorLost' /\ SentExactly'
    BY <1>14 DEF AwaitOfCall, SocketsAtAwait, Ownership, NoDescriptorLost,
       SentExactly, connVars, sendVars, ownVars, Return, Closing, Usable,
       RecvChunk
  <2>. QED
    BY <2>1, <2>2
<1>15. ASSUME RecvSucceeds PROVE IInv'
  <2>1. TypeOK'
    BY <1>15 DEF TypeOK, connVars, sendVars, ownVars, Return, Ops, Awaits,
       Results, RecvSucceeds
  <2>2. AwaitOfCall' /\ SocketsAtAwait' /\ Ownership' /\ NoDescriptorLost' /\ SentExactly'
    BY <1>15 DEF AwaitOfCall, SocketsAtAwait, Ownership, NoDescriptorLost,
       SentExactly, connVars, sendVars, ownVars, Return, Closing, RecvSucceeds
  <2>. QED
    BY <2>1, <2>2
<1>16. ASSUME RecvFails PROVE IInv'
  <2>1. TypeOK'
    BY <1>16, FailuresAreResults DEF TypeOK, connVars, sendVars, ownVars, Return,
       Ops, Awaits, Results, RecvFails
  <2>2. AwaitOfCall' /\ SocketsAtAwait' /\ Ownership' /\ NoDescriptorLost' /\ SentExactly'
    BY <1>16 DEF AwaitOfCall, SocketsAtAwait, Ownership, NoDescriptorLost,
       SentExactly, connVars, sendVars, ownVars, Return, Closing, RecvFails
  <2>. QED
    BY <2>1, <2>2
<1>17. ASSUME Close PROVE IInv'
  <2>1. TypeOK'
    BY <1>17 DEF TypeOK, connVars, sendVars, ownVars, CloseEntry, Closing, Ops,
       Awaits, Close
  <2>2. AwaitOfCall' /\ SocketsAtAwait' /\ Ownership' /\ NoDescriptorLost' /\ SentExactly'
    BY <1>17 DEF AwaitOfCall, SocketsAtAwait, Ownership, NoDescriptorLost,
       SentExactly, connVars, sendVars, ownVars, CloseEntry, Close
  <2>. QED
    BY <2>1, <2>2
<1>18. ASSUME SslShutdown PROVE IInv'
  <2>1. TypeOK'
    BY <1>18 DEF TypeOK, connVars, sendVars, ownVars, Closing, Awaits, SslShutdown
  <2>2. AwaitOfCall' /\ SocketsAtAwait' /\ Ownership' /\ NoDescriptorLost' /\ SentExactly'
    BY <1>18 DEF AwaitOfCall, SocketsAtAwait, Ownership, NoDescriptorLost,
       SentExactly, connVars, sendVars, ownVars, Closing, SslShutdown
  <2>. QED
    BY <2>1, <2>2
<1>19. ASSUME CloseSsl PROVE IInv'
  <2>1. TypeOK'
    BY <1>19 DEF TypeOK, sendVars, Release, Closing, Awaits, CloseSsl
  <2>2. AwaitOfCall' /\ SocketsAtAwait' /\ Ownership' /\ NoDescriptorLost' /\ SentExactly'
    BY <1>19 DEF TypeOK, AwaitOfCall, SocketsAtAwait, Ownership, NoDescriptorLost,
       SentExactly, sendVars, Release, Closing, CloseSsl
  <2>. QED
    BY <2>1, <2>2
<1>20. ASSUME CloseTcp PROVE IInv'
  <2>1. TypeOK'
    BY <1>20 DEF TypeOK, sendVars, Release, Closing, Awaits, CloseTcp
  <2>2. AwaitOfCall' /\ SocketsAtAwait' /\ Ownership' /\ NoDescriptorLost' /\ SentExactly'
    BY <1>20 DEF TypeOK, AwaitOfCall, SocketsAtAwait, Ownership, NoDescriptorLost,
       SentExactly, sendVars, Release, Closing, CloseTcp
  <2>. QED
    BY <2>1, <2>2
<1>21. ASSUME CloseEnds PROVE IInv'
  <2>1. TypeOK'
    BY <1>21 DEF TypeOK, sendVars, Return, Ops, Awaits, Results, CloseEnds
  <2>2. AwaitOfCall' /\ SocketsAtAwait' /\ Ownership' /\ NoDescriptorLost' /\ SentExactly'
    BY <1>21 DEF AwaitOfCall, SocketsAtAwait, Ownership, NoDescriptorLost,
       SentExactly, sendVars, Return, Closing, CloseEnds
  <2>. QED
    BY <2>1, <2>2
<1>22. ASSUME TimerFires PROVE IInv'
  <2>1. TypeOK'
    BY <1>22, FailuresAreResults DEF TypeOK, connVars, sendVars, Return, Ops,
       Awaits, Results, TimerFires
  <2>2. AwaitOfCall' /\ SocketsAtAwait' /\ Ownership' /\ NoDescriptorLost' /\ SentExactly'
    BY <1>22 DEF AwaitOfCall, SocketsAtAwait, Ownership, NoDescriptorLost,
       SentExactly, connVars, sendVars, Return, Closing, Timed, TimerFires
  <2>. QED
    BY <2>1, <2>2
<1>23. ASSUME NEW h \in Handles, OtherOpens(h) PROVE IInv'
  <2>1. TypeOK'
    BY <1>23 DEF TypeOK, connVars, sendVars, OtherOpens
  <2>2. AwaitOfCall' /\ SocketsAtAwait' /\ Ownership' /\ NoDescriptorLost' /\ SentExactly'
    BY <1>23 DEF AwaitOfCall, SocketsAtAwait, Ownership, NoDescriptorLost,
       SentExactly, connVars, sendVars, Usable, OtherOpens
  <2>. QED
    BY <2>1, <2>2
<1>24. ASSUME NEW h \in Handles, OtherCloses(h) PROVE IInv'
  <2>1. TypeOK'
    BY <1>24 DEF TypeOK, connVars, sendVars, OtherCloses
  <2>2. AwaitOfCall' /\ SocketsAtAwait' /\ Ownership' /\ NoDescriptorLost' /\ SentExactly'
    BY <1>24 DEF AwaitOfCall, SocketsAtAwait, Ownership, NoDescriptorLost,
       SentExactly, connVars, sendVars, Usable, OtherCloses
  <2>. QED
    BY <2>1, <2>2
<1>. QED
  BY <1>1, <1>2, <1>3, <1>4, <1>5, <1>6, <1>7, <1>8, <1>9, <1>10, <1>11, <1>12,
     <1>13, <1>14, <1>15, <1>16, <1>17, <1>18, <1>19, <1>20, <1>21, <1>22, <1>23,
     <1>24 DEF Next, Calls, Local, Peer, Others

\* A stuttering step keeps it.
LEMMA StutterIInv == IInv /\ UNCHANGED vars => IInv'
<1>. SUFFICES ASSUME IInv, UNCHANGED vars PROVE IInv'
  OBVIOUS
<1>. USE DEF vars, connVars, sendVars, ownVars
<1>1. (TypeOK' <=> TypeOK) /\ (NoDescriptorLost' <=> NoDescriptorLost)
  BY DEF TypeOK, NoDescriptorLost
<1>2. (AwaitOfCall' <=> AwaitOfCall) /\ (SocketsAtAwait' <=> SocketsAtAwait)
  BY DEF AwaitOfCall, Usable, SocketsAtAwait
<1>3. (Ownership' <=> Ownership) /\ (SentExactly' <=> SentExactly)
  BY DEF Ownership, SentExactly
<1>. QED
  BY <1>1, <1>2, <1>3 DEF IInv

THEOREM Inductive == Spec => []IInv
<1>1. IInv /\ [Next]_vars => IInv'
  BY NextIInv, StutterIInv
<1>. QED
  BY <1>1, InitIInv, PTL DEF Spec
-----------------------------------------------------------------------------
\* The state of the transport keeps its type.
THEOREM TransportTypeCorrect == Spec => []TypeOK
<1>1. IInv => TypeOK
  BY DEF IInv
<1>. QED
  BY <1>1, Inductive, PTL

\* connected() and encrypted() never speak of a socket that is gone: whatever
\* failed before, and whatever the rest of the process does with descriptors.
THEOREM ConnectedIsBacked == Spec => []ConnectedHasSocket
<1>1. IInv => ConnectedHasSocket
  BY DEF IInv, TypeOK, SocketsAtAwait, Ownership, ConnectedHasSocket, Closing
<1>. QED
  BY <1>1, Inductive, PTL

\* No error path of connect, startTls or close leaks a descriptor.
THEOREM NoLeak == Spec => []NoDescriptorLost
<1>1. IInv => NoDescriptorLost
  BY DEF IInv
<1>. QED
  BY <1>1, Inductive, PTL

\* sendAll hands over the bytes of data in order, each once.
THEOREM SendsExactly == Spec => []SentExactly
<1>1. IInv => SentExactly
  BY DEF IInv
<1>. QED
  BY <1>1, Inductive, PTL

\* close() closes a descriptor of somebody else only after a failed startTls.
THEOREM ForeignCloseExplained == Spec => ForeignCloseNeedsFailedUpgrade
<1>1. IInv /\ [Next]_vars => [foreign' # foreign => upgradeFailed]_vars
  <2>1. ASSUME IInv, CloseSsl PROVE foreign' = foreign
    BY <2>1 DEF IInv, TypeOK, SocketsAtAwait, Ownership, CloseSsl, Release
  <2>2. ASSUME IInv, CloseTcp PROVE foreign' = foreign \/ upgradeFailed
    BY <2>2 DEF IInv, TypeOK, Ownership, CloseTcp, Release
  <2>3. ASSUME Next, ~CloseSsl, ~CloseTcp PROVE foreign' = foreign
    BY <2>3 DEF Next, Calls, Local, Peer, Others, ConnectUnresolved, Connect,
       SocketRefused,
       SocketOpened, DialSucceeds, DialFails, StartTlsRefused, StartTls, HandshakeSucceeds,
       HandshakeFails, SendAll, SendProgress, SendFails, RecvChunk, RecvSucceeds, RecvFails,
       Close, SslShutdown, CloseEnds, TimerFires, OtherOpens, OtherCloses, ownVars
  <2>. QED
    BY <2>1, <2>2, <2>3
<1>. QED
  BY <1>1, Inductive, PTL DEF Spec, ForeignCloseNeedsFailedUpgrade

\* A sendAll returns "ok" exactly when all of data was handed over.
THEOREM OkSentAll == Spec => OkMeansAllSent
<1>. DEFINE Told == op = "sendAll" /\ op' = "none" => (result' = "ok" <=> sent' = len)
<1>1. IInv /\ [Next]_vars => [Told]_vars
  <2>1. ASSUME IInv, NEW k \in 1..MaxData, SendProgress(k) PROVE Told
    BY <2>1 DEF IInv, TypeOK, SendProgress, Return
  <2>2. ASSUME IInv, SendFails \/ TimerFires PROVE Told
    BY <2>2, FailuresAreResults DEF IInv, TypeOK, SentExactly, SendFails,
       TimerFires, Return,
       sendVars
  <2>3. ASSUME IInv, Next, op = "sendAll", op' = "none"
        PROVE  SendFails \/ TimerFires \/ \E k \in 1..MaxData : SendProgress(k)
    BY <2>3 DEF IInv, AwaitOfCall, Next, Calls, Local, Peer, Others, ConnectUnresolved,
       Connect, SocketRefused, SocketOpened, DialSucceeds, DialFails, StartTlsRefused, StartTls,
       HandshakeSucceeds, HandshakeFails, SendAll, RecvChunk, RecvSucceeds, RecvFails, Close,
       SslShutdown, CloseSsl, CloseTcp, CloseEnds, OtherOpens, OtherCloses, Closing
  <2>. QED
    BY <2>1, <2>2, <2>3
<1>. QED
  BY <1>1, Inductive, PTL DEF Spec, OkMeansAllSent
-----------------------------------------------------------------------------
(* Every step of the transport is a step of Channel or leaves it alone.    *)

LEMMA CallRefines == ASSUME IInv, Calls PROVE [Promise!Next]_(Promise!vars)
<1>. USE DEF Promise!Next, Promise!vars, Promise!Invoke, Promise!Calls
<1>1. CASE ConnectUnresolved \/ StartTlsRefused
  BY <1>1 DEF ConnectUnresolved, StartTlsRefused, connVars
<1>2. CASE \E sec \in Securities : Connect(sec)
  BY <1>2 DEF Connect, connVars
<1>3. CASE StartTls \/ RecvChunk \/ Close
  BY <1>3 DEF StartTls, RecvChunk, Close, Return, connVars
<1>4. CASE \E n \in 0..MaxData : SendAll(n)
  BY <1>4 DEF SendAll, Return, connVars
<1>. QED
  BY <1>1, <1>2, <1>3, <1>4 DEF Calls

LEMMA LocalRefines == ASSUME IInv, Local PROVE [Promise!Next]_(Promise!vars)
<1>. USE DEF Promise!Next, Promise!vars
<1>1. CASE CloseSsl \/ CloseTcp
  BY <1>1 DEF CloseSsl, CloseTcp
<1>2. CASE CloseEnds
  BY <1>2 DEF CloseEnds, Return, Promise!Shut
<1>3. CASE SocketRefused
  BY <1>3 DEF SocketRefused, Return, Promise!ConnectFailed
<1>4. CASE \E h \in Handles : SocketOpened(h)
  BY <1>4 DEF SocketOpened, Return, Promise!ConnectFailed, Promise!Drop
<1>. QED
  BY <1>1, <1>2, <1>3, <1>4 DEF Local

LEMMA PeerRefines == ASSUME IInv, Peer \/ TimerFires PROVE [Promise!Next]_(Promise!vars)
<1>. USE DEF Promise!Next, Promise!vars, IInv
<1>1. CASE DialSucceeds
  BY <1>1 DEF DialSucceeds, Return, SocketsAtAwait, Promise!Opened
<1>2. CASE DialFails
  BY <1>2 DEF DialFails, Return, SocketsAtAwait, connVars, Promise!ConnectFailed
<1>3. CASE HandshakeSucceeds
  BY <1>3 DEF HandshakeSucceeds, Return, AwaitOfCall, SocketsAtAwait, Promise!Opened,
     Promise!Encrypted
<1>4. CASE HandshakeFails
  BY <1>4 DEF HandshakeFails, Return, AwaitOfCall, SocketsAtAwait, connVars,
     Promise!ConnectFailed, Promise!Unmoved
<1>5. CASE \E k \in 1..MaxData : SendProgress(k)
  BY <1>5 DEF SendProgress, Return, connVars, Promise!Unmoved
<1>6. CASE SendFails \/ RecvSucceeds \/ RecvFails
  BY <1>6 DEF SendFails, RecvSucceeds, RecvFails, Return, connVars, Promise!Unmoved
<1>7. CASE SslShutdown
  BY <1>7 DEF SslShutdown, connVars
<1>8. CASE TimerFires
  BY <1>8 DEF TimerFires, Timed, Return, AwaitOfCall, SocketsAtAwait, connVars,
     Promise!ConnectFailed, Promise!Unmoved
<1>. QED
  BY <1>1, <1>2, <1>3, <1>4, <1>5, <1>6, <1>7, <1>8 DEF Peer

\* MailTransport keeps the promise of Channel: connect drops the old channel
\* before it opens one, a failed startTls leaves the clear channel, transfers
\* never move it, close always closes it.
THEOREM KeepsThePromise == Spec => ImplementsChannel
<1>1. Init => Promise!Init
  BY DEF Init, Promise!Init
<1>2. IInv /\ [Next]_vars => [Promise!Next]_(Promise!vars)
  <2>1. ASSUME Others \/ UNCHANGED vars PROVE UNCHANGED Promise!vars
    BY <2>1 DEF Others, OtherOpens, OtherCloses, vars, connVars, Promise!vars
  <2>. QED
    BY <2>1, CallRefines, LocalRefines, PeerRefines DEF Next
<1>. QED
  BY <1>1, <1>2, Inductive, PTL DEF Spec, ImplementsChannel, Promise!Spec
=============================================================================
