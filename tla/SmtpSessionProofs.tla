------------------------- MODULE SmtpSessionProofs --------------------------
(***************************************************************************)
(* Theorems about SmtpSession for any set of endpoints, of methods and of  *)
(* calls, any number of recipients and replies of any length.              *)
(***************************************************************************)
EXTENDS SmtpSession, MailSessionProofs

\* The steps of connect that come after the encryption where it was asked for.
Late == {"hello", "post_tls_ehlo", "authPlain", "user", "pass"}

LEMMA MethodsAreNames ==
  ASSUME NEW m \in Methods
  PROVE  m \in Names /\ m \notin {"none", "connect", "close"}
         /\ FirstStep(m) \in Names /\ FirstStep(m) \notin {"dial", "close"}
BY SmtpAssumption DEF SmtpAssumption, AllMethods, FirstStep, Names

\* What follows a step of connect that was answered over the same channel.
LEMMA NextStepFits ==
  ASSUME CInv(Late), step # "upgrade", chan' = chan \/ step = "dial"
  PROVE  Fits(NextStep(step), Late)
<1>1. NextStep(step) \in Names /\ NextStep(step) \notin {"dial", "close"}
  BY DEF NextStep, AfterDial, AfterGreeting, RcptsLeft, Names
<1>2. ASSUME op = "connect", endpoint.security = "StartTls", NextStep(step) \in Late
      PROVE  chan' = "Tls"
  <2>1. step \in {"post_tls_ehlo", "hello"}
    BY <1>2 DEF NextStep, AfterDial, AfterGreeting, RcptsLeft, Late
  <2>. QED
    BY <1>2, <2>1 DEF CInv, Placed, Late
<1>. QED
  BY <1>1, <1>2 DEF Fits

LEMMA UpgradeFits ==
  ASSUME step = "upgrade", chan' = "Tls" PROVE Fits(NextStep("upgrade"), Late)
BY DEF Fits, NextStep, AfterDial, AfterGreeting, RcptsLeft, Names

LEMMA VerbIsLate ==
  ASSUME CInv(Late)
  PROVE  Verb \in Names /\ Turn \in Nat /\ (Verb \in {"authPlain", "user", "pass"} => step \in Late)
BY DEF CInv, Types, Counts, Verb, Turn, Names, Late

\* What the server does to the commands in flight.
LEMMA ServerTakes ==
  ASSUME Serves \/ Leaves
  PROVE  \/ c2s' = c2s
         \/ c2s # <<>> /\ c2s' = Tail(c2s)
         \/ Len(c2s) > 1 /\ c2s' = Tail(Tail(c2s))
<1>1. CASE Greets \/ Shutdown \/ Crash \/ AbortsHandshake
  BY <1>1 DEF Greets, Shutdown, Crash, AbortsHandshake, wire
<1>2. CASE Handles \/ JoinsPartials
  BY <1>2 DEF Handles, JoinsPartials, Reads
<1>3. CASE HandlesPartial
  BY <1>3 DEF HandlesPartial, Reads
<1>. QED
  BY <1>1, <1>2, <1>3 DEF Serves, Leaves

LEMMA InitSmtp == Init => CInv(Late)
BY InitCInv DEF Init, SessionInit

LEMMA DialsSmtp == ASSUME CInv(Late), Dials \/ DialFailed PROVE CInv(Late)'
<1>1. CASE Dials
  <2>1. step = "dial" /\ op = "connect" /\ DialSucceeds(NextStep("dial"))
    BY <1>1 DEF Dials, DialsTo, DialSucceeds, CInv, Placed
  <2>2. Fits(NextStep("dial"), Late)
    BY <2>1, NextStepFits
  <2>. QED
    BY <2>1, <2>2, DialCInv
<1>2. CASE DialFailed
  BY <1>2, NothingInFlight, ReturnCInv DEF DialFailed, DialFails, histVars
<1>. QED
  BY <1>1, <1>2

LEMMA UpgradesSmtp == ASSUME CInv(Late), Upgrades PROVE CInv(Late)'
<1>1. step = "upgrade" /\ op # "none"
  BY DEF Upgrades, UpgradesTo, UpgradeSucceeds, CInv, Placed
<1>2. Fits(NextStep("upgrade"), Late)
  BY <1>1, UpgradeFits DEF Upgrades, UpgradesTo, UpgradeSucceeds
<1>. QED
  BY <1>1, <1>2, ProceedCInv DEF Upgrades, UpgradesTo, UpgradeSucceeds, histVars, wire

LEMMA RecvChunkSmtp == ASSUME CInv(Late), RecvChunk PROVE CInv(Late)'
<1>. PICK chunk \in Chunks : LET data == buffer \o chunk IN
       \/ Incomplete(data) /\ Keeps(chunk)
       \/ /\ Complete(data) /\ Takes(chunk, ReplyIn(data))
          /\ LET code == Head(reply').code IN
             IF GoesOn(step, code) THEN Proceed(NextStep(step), code)
             ELSE Return(IF op \in {"connect", "startTls"} THEN "ServerError" ELSE "reply", code)
       \/ ~Incomplete(data) /\ ~Complete(data) /\ Rejects(chunk)
  BY DEF RecvChunk
<1>0. op # "none" /\ step \notin {"dial", "upgrade"}
  BY DEF RecvChunk, CInv, Placed
<1>1. CASE Keeps(chunk)
  BY <1>1, KeepsCInv
<1>2. CASE Rejects(chunk)
  BY <1>2, GiveUpCInv DEF Rejects
<1>3. CASE Takes(chunk, ReplyIn(buffer \o chunk)) /\ \E code : Proceed(NextStep(step), code)
  <2>1. PICK code : Proceed(NextStep(step), code)
    BY <1>3
  <2>2. chan' = chan /\ endpoint' = endpoint /\ UNCHANGED <<calls, peer, cmds, lost, c2s>>
    BY <1>3 DEF Takes
  <2>. QED
    BY <1>0, <2>1, <2>2, NextStepFits, ProceedCInv
<1>4. CASE Takes(chunk, ReplyIn(buffer \o chunk)) /\ \E kind, code : Return(kind, code)
  <2>1. PICK kind, code : Return(kind, code)
    BY <1>4
  <2>2. UNCHANGED <<calls, peer, cmds>> /\ lost' \in {lost, lost + 1}
        /\ c2s' \in Seq(Commands) /\ AllSafe'
    BY <1>4 DEF Takes, CInv, Types, AllSafe
  <2>. QED
    BY <2>1, <2>2, ReturnCInv
<1>. QED
  BY <1>1, <1>2, <1>3, <1>4

LEMMA ContinuesSmtp == ASSUME CInv(Late), Continues PROVE CInv(Late)'
<1>1. CASE Unresolved
  <2>1. UNCHANGED <<calls, peer, cmds, lost, c2s>>
    BY <1>1 DEF Unresolved, histVars, wire
  <2>2. c2s' \in Seq(Commands) /\ AllSafe'
    BY <2>1 DEF CInv, Types, AllSafe
  <2>. QED
    BY <1>1, <2>1, <2>2, ReturnCInv DEF Unresolved
<1>2. CASE UpgradeFails
  BY <1>2, GiveUpCInv DEF UpgradeFails, wire
<1>3. CASE SendCommand(Verb, Turn)
  BY <1>3, VerbIsLate, SendCommandCInv
<1>4. CASE SendFails(Verb, Turn)
  BY <1>4, VerbIsLate, SendFailsCInv
<1>5. CASE SendRefused
  <2>1. UNCHANGED <<calls, peer, cmds, lost, c2s>>
    BY <1>5 DEF SendRefused, histVars, wire
  <2>2. c2s' \in Seq(Commands) /\ AllSafe'
    BY <2>1 DEF CInv, Types, AllSafe
  <2>. QED
    BY <1>5, <2>1, <2>2, ReturnCInv DEF SendRefused
<1>6. CASE RecvChunk
  BY <1>6, RecvChunkSmtp
<1>7. CASE RecvTimeout \/ ClosedAtOtherEnd
  BY <1>7, GiveUpCInv DEF RecvTimeout, ClosedAtOtherEnd, RecvClosed, wire
<1>. QED
  BY <1>1, <1>2, <1>3, <1>4, <1>5, <1>6, <1>7 DEF Continues

\* The user calls a method.
LEMMA CallsSmtp ==
  ASSUME CInv(Late),
         \/ \E m \in Methods : Call(m)
         \/ \E e \in Endpoints : Connect(e) \/ ConnectWrongScheme(e)
         \/ Close
  PROVE  CInv(Late)'
<1>1. ASSUME NEW m \in Methods, Call(m) PROVE CInv(Late)'
  <2>1. PICK n \in Nat : Begin(m, n, FirstStep(m))
    BY <1>1, SmtpAssumption DEF Call, SmtpAssumption
  <2>. QED
    BY <2>1, MethodsAreNames, BeginCInv
<1>2. ASSUME NEW e \in Endpoints, Connect(e) PROVE CInv(Late)'
  BY <1>2, SomeNames, BeginCInv DEF Connect, ConnectTo
<1>3. ASSUME NEW e \in Endpoints, ConnectWrongScheme(e) PROVE CInv(Late)'
  <2>1. c2s' = c2s /\ peer' = peer
    BY <1>3 DEF ConnectWrongScheme, RefuseScheme, Answers, wire
  <2>2. c2s' \in Seq(Commands) /\ AllSafe'
    BY <2>1 DEF CInv, Types, AllSafe
  <2>. QED
    BY <1>3, <2>2, AnswersCInv DEF ConnectWrongScheme, RefuseScheme
<1>4. CASE Close
  BY <1>4, SomeNames, BeginCInv DEF Close
<1>. QED
  BY <1>1, <1>2, <1>3, <1>4

LEMMA NextSmtp == ASSUME CInv(Late), [Next]_vars PROVE CInv(Late)'
<1>1. CASE Dials \/ DialFailed
  BY <1>1, DialsSmtp
<1>2. CASE Upgrades
  BY <1>2, UpgradesSmtp
<1>3. CASE Closes
  BY <1>3, NothingInFlight, ReturnCInv DEF Closes, CloseEnds, histVars
<1>4. CASE ClientStep
  <2>1. CASE Continues
    BY <2>1, ContinuesSmtp
  <2>2. CASE RecvFails
    BY <2>2, GiveUpCInv DEF RecvFails, wire
  <2>. QED
    BY <1>4, <2>1, <2>2, CallsSmtp DEF ClientStep
<1>5. CASE ServerStep
  BY <1>5, ServerTakes, ServerCInv DEF ServerStep
<1>6. CASE UNCHANGED vars \/ TakesLate
  BY <1>6, ServerCInv DEF vars, mailVars, wire, TakesLate
<1>. QED
  BY <1>1, <1>2, <1>3, <1>4, <1>5, <1>6 DEF Next, Departs
-----------------------------------------------------------------------------
\* connect gives the credentials of an endpoint with TLS or STARTTLS to nobody
\* in clear (SmtpClient::connect runs authPlain behind the handshake).
THEOREM SmtpCredentialsEncrypted == Spec => []CredentialsEncrypted
<1>1. CInv(Late) /\ [Next]_vars => CInv(Late)'
  BY NextSmtp
<1>2. CInv(Late) => CredentialsEncrypted
  BY CInvIsEnough
<1>. QED
  BY <1>1, <1>2, InitSmtp, PTL DEF Spec

\* In one step the endpoint and the connection part only by InvalidHost.
LEMMA PartsSmtp ==
  ASSUME CInv(Late), Next, ~Misplaced, Misplaced' PROVE result'.kind = "InvalidHost"
<1>. DEFINE Kept == UNCHANGED <<endpoint, peer>> /\ (chan' # "Closed" => chan # "Closed")
<1>1. CASE Dials \/ DialFailed \/ Closes
  BY <1>1, PartsAtDial DEF Dials, DialsTo, DialSucceeds, DialFailed, DialFails, Closes, CloseEnds
<1>2. CASE Upgrades
  <2>1. Kept /\ step # "dial"
    BY <1>2 DEF Upgrades, UpgradesTo, UpgradeSucceeds, histVars
  <2>. QED
    BY <2>1, PartsAtDial
<1>3. CASE Unresolved
  <2>1. result'.kind = "InvalidHost"
    BY <1>3 DEF Unresolved, Return
  <2>. QED
    BY <2>1
<1>4. CASE UpgradeFails \/ RecvTimeout \/ RecvFails \/ ClosedAtOtherEnd
  <2>1. Kept
    BY <1>4 DEF UpgradeFails, RecvTimeout, RecvFails, ClosedAtOtherEnd, RecvClosed, GiveUp
  <2>2. step # "dial"
    BY <1>4 DEF UpgradeFails, RecvTimeout, RecvFails, ClosedAtOtherEnd, RecvClosed, CInv, Placed
  <2>. QED
    BY <2>1, <2>2, PartsAtDial
<1>5. CASE SendCommand(Verb, Turn) \/ SendFails(Verb, Turn) \/ SendRefused
  <2>1. Kept /\ step # "dial"
    BY <1>5 DEF SendCommand, SendFails, SendRefused, Sends, GiveUp, histVars
  <2>. QED
    BY <2>1, PartsAtDial
<1>6. CASE RecvChunk
  <2>1. Kept /\ step # "dial"
    BY <1>6 DEF RecvChunk, Keeps, Takes, Rejects, GiveUp, histVars, CInv, Placed
  <2>. QED
    BY <2>1, PartsAtDial
<1>7. CASE \E m \in Methods : Call(m)
  <2>1. Kept
    BY <1>7 DEF Call, Begin
  <2>2. step # "dial"
    BY <1>7 DEF Call, Begin, CInv, Placed
  <2>. QED
    BY <2>1, <2>2, PartsAtDial
<1>8. CASE \E e \in Endpoints : Connect(e) \/ ConnectWrongScheme(e)
  <2>1. CASE \E e \in Endpoints : Connect(e)
    BY <2>1, PartsAtDial DEF Connect, ConnectTo, Begin
  <2>2. CASE \E e \in Endpoints : ConnectWrongScheme(e)
    <3>1. Kept /\ step' = step
      BY <2>2 DEF ConnectWrongScheme, RefuseScheme, Answers, callVars
    <3>. QED
      BY <3>1, PartsAtDial
  <2>. QED
    BY <1>8, <2>1, <2>2
<1>9. CASE ServerStep \/ TakesLate
  BY <1>9 DEF ServerStep, TakesLate, clientVars, histVars, callVars, Misplaced
<1>10. CASE Close
  <2>1. Kept /\ step # "dial"
    BY <1>10 DEF Close, Begin, CInv, Placed
  <2>. QED
    BY <2>1, PartsAtDial
<1>. QED
  BY <1>1, <1>2, <1>3, <1>4, <1>5, <1>6, <1>7, <1>8, <1>9, <1>10
     DEF Next, Departs, ClientStep, Continues

\* m_endpoint is the endpoint of the open connection: startTls by hand secures
\* the connection it means to, except after a connect with InvalidHost.
THEOREM SmtpEndpointFollowsConnection == Spec => EndpointFollowsConnection
<1>1. CInv(Late) /\ [Next]_vars => CInv(Late)'
  BY NextSmtp
<1>2. CInv(Late) /\ [Next]_vars
        => [~Misplaced /\ Misplaced' => result'.kind = "InvalidHost"]_mailVars
  BY PartsSmtp DEF vars
<1>. QED
  BY <1>1, <1>2, InitSmtp, PTL DEF Spec, EndpointFollowsConnection
-----------------------------------------------------------------------------
\* What a server's step leaves of its own side.
StillOn == DOMAIN srv' = DOMAIN srv /\ (srv.tls = "on" => srv'.tls = "on")
StillEnc == s2c' \in Seq(Parts) /\ (srv.tls = "on" /\ AllEnc(s2c) => AllEnc(s2c'))

LEMMA RepliesEnc ==
  ASSUME Wired, NEW c, c.no \in Nat, NEW code \in Nat, Replies(c, code) PROVE StillEnc
<1>1. ASSUME NEW n \in 1..MaxLines, Writes([i \in 1..n |-> Line(c.no, code, i = n)])
      PROVE  StillEnc
  <2>. DEFINE lines == [i \in 1..n |-> Line(c.no, code, i = n)]
  <2>1. lines \in Seq(Lines)
    BY DEF Line, Lines
  <2>2. \A i \in DOMAIN lines : lines[i].enc = (srv.tls = "on")
    BY DEF Line
  <2>. QED
    BY <1>1, <2>1, <2>2, WrittenStream DEF StillEnc
<1>2. ASSUME WritesBadLine(c.no) PROVE StillEnc
  <2>. DEFINE lines == <<Line(c.no, 0, TRUE)>>
  <2>1. lines \in Seq(Lines) /\ \A i \in DOMAIN lines : lines[i].enc = (srv.tls = "on")
    BY DEF Line, Lines
  <2>. QED
    BY <1>2, <2>1, WrittenStream DEF StillEnc, WritesBadLine
<1>. QED
  BY <1>1, <1>2 DEF Replies

LEMMA WritesNothing == ASSUME Wired, s2c' = s2c PROVE StillEnc
BY DEF Wired, StillEnc, AllEnc

LEMMA WorkingOn == ASSUME Wired, NEW w, srv' = Working(w) \/ srv' = Gone(srv) PROVE StillOn
BY DEF Wired, StillOn, Working, Gone

LEMMA AcceptsEnc ==
  ASSUME Wired, NEW c, c.no \in Nat, NEW code \in Nat, NEW w, Accepts(c, code, w)
  PROVE  StillOn /\ StillEnc
BY RepliesEnc, WorkingOn DEF Accepts

LEMMA HandlesEnc ==
  ASSUME CInv(Late), Wired, Handles \/ HandlesPartial PROVE StillOn /\ StillEnc
<1>1. c2s \in Seq(Commands) /\ c2s # <<>>
  BY DEF Handles, HandlesPartial, Reads, CInv, Types
<1>2. Head(c2s).no \in Nat /\ (Len(c2s) > 1 => c2s[2].no \in Nat)
  <2>1. Head(c2s) \in Commands /\ (Len(c2s) > 1 => c2s[2] \in Commands)
    BY <1>1
  <2>. QED
    BY <2>1 DEF Commands
<1>3. ASSUME NEW c, c.no \in Nat, NEW w, Refuses(c, w) PROVE StillOn /\ StillEnc
  BY <1>3, AcceptsEnc DEF Refuses
<1>4. ASSUME NEW c, c.no \in Nat, NEW w, AcceptsCommand(c, w) PROVE StillOn /\ StillEnc
  <2>1. \E code \in {220, 221, 235, 250, 334, 354} : Replies(c, code)
    BY <1>4 DEF AcceptsCommand, Accepts
  <2>2. \/ \E v : srv' = Working(v)
        \/ srv.tls = "clear" /\ srv' = [srv EXCEPT !.tls = "await"]
        \/ srv' = Gone(srv)
    BY <1>4 DEF AcceptsCommand, Accepts
  <2>3. StillOn
    BY <2>2, WorkingOn DEF StillOn, Wired
  <2>. QED
    BY <1>4, <2>1, <2>3, RepliesEnc
<1>5. ASSUME NEW c, c.no \in Nat, NEW w, AcceptsCredential(c, w) PROVE StillOn /\ StillEnc
  BY <1>5, AcceptsEnc DEF AcceptsCredential
<1>6. ASSUME NEW c, c.no \in Nat, NEW w, TakesBody(c, w) PROVE StillOn /\ StillEnc
  BY <1>6, RepliesEnc, WorkingOn DEF TakesBody
<1>7. ASSUME UNCHANGED <<s2c, serverVars>> PROVE StillOn /\ StillEnc
  BY <1>7, WritesNothing DEF serverVars, StillOn
<1>8. CASE Handles
  BY <1>2, <1>3, <1>4, <1>5, <1>6, <1>7, <1>8 DEF Handles
<1>9. CASE HandlesPartial
  BY <1>2, <1>3, <1>7, <1>9 DEF HandlesPartial
<1>. QED
  BY <1>8, <1>9

LEMMA ServesEnc == ASSUME CInv(Late), Wired, Serves \/ Leaves PROVE StillOn /\ StillEnc
<1>1. CASE Greets
  <2>1. StillEnc
    <3>1. PICK code \in {220, 554} : Replies([no |-> 0], code)
      BY <1>1 DEF Greets
    <3>. QED
      BY <3>1, RepliesEnc
  <2>2. StillOn
    BY <1>1 DEF Greets, StillOn, Wired
  <2>. QED
    BY <2>1, <2>2
<1>2. CASE JoinsPartials
  BY <1>2, WritesNothing DEF JoinsPartials, serverVars, StillOn
<1>3. CASE AbortsHandshake
  BY <1>3, WritesNothing, WorkingOn DEF AbortsHandshake, wire
<1>4. CASE Shutdown
  <2>. DEFINE lines == <<Line(0, 421, TRUE)>>
  <2>1. lines \in Seq(Lines) /\ \A i \in DOMAIN lines : lines[i].enc = (srv.tls = "on")
    BY DEF Line, Lines
  <2>2. StillEnc
    BY <1>4, <2>1, WrittenStream DEF Shutdown, StillEnc
  <2>. QED
    BY <1>4, <2>2, WorkingOn DEF Shutdown
<1>5. CASE Crash
  <2>1. PICK n \in 0..Len(s2c) : s2c' = SubSeq(s2c, 1, n)
    BY <1>5 DEF Crash
  <2>2. StillEnc
    BY <2>1, PieceOfStream DEF StillEnc, Wired
  <2>. QED
    BY <1>5, <2>2, WorkingOn DEF Crash
<1>. QED
  BY <1>1, <1>2, <1>3, <1>4, <1>5, HandlesEnc DEF Serves, Leaves

LEMMA RecvChunkWired ==
  ASSUME Wired, RecvChunk, srv' = srv PROVE Wired'
<1>1. PICK chunk \in Chunks :
        \/ Keeps(chunk)
        \/ \E lines, next, code : Takes(chunk, lines) /\ Proceed(next, code)
        \/ \E lines, kind, code : Takes(chunk, lines) /\ Return(kind, code)
        \/ Rejects(chunk)
  BY DEF RecvChunk
<1>2. CASE Keeps(chunk)
  BY <1>2, KeepsWired DEF RecvChunk
<1>3. CASE ~Keeps(chunk)
  <2>1. chan' = chan /\ buffer' = <<>> /\ s2c' = After(chunk)
    BY <1>1, <1>3 DEF Takes, Rejects, GiveUp, Proceed, Return
  <2>. QED
    BY <2>1, ChunkOfStream, EmptiedWired DEF Wired
<1>. QED
  BY <1>2, <1>3

LEMMA ContinuesWired ==
  ASSUME Wired, Continues, srv' = srv PROVE Wired'
<1>1. CASE Unresolved \/ UpgradeFails \/ SendRefused \/ RecvTimeout \/ ClosedAtOtherEnd
           \/ SendFails(Verb, Turn)
  <2>1. chan' = chan /\ s2c' = s2c
    BY <1>1 DEF Unresolved, UpgradeFails, SendFails, SendRefused, RecvTimeout,
       ClosedAtOtherEnd, RecvClosed, wire
  <2>2. buffer' = <<>>
    BY <1>1 DEF Unresolved, UpgradeFails, SendFails, SendRefused, RecvTimeout,
       ClosedAtOtherEnd, RecvClosed, GiveUp, Return
  <2>. QED
    BY <2>1, <2>2, EmptiedWired DEF Wired, AllEnc
<1>2. CASE SendCommand(Verb, Turn)
  BY <1>2, UnchangedWired DEF SendCommand
<1>3. CASE RecvChunk
  BY <1>3, RecvChunkWired
<1>. QED
  BY <1>1, <1>2, <1>3 DEF Continues

LEMMA NextWired == ASSUME CInv(Late), Wired, [Next]_vars PROVE Wired'
<1>1. CASE Dials
  <2>1. NextStep("dial") # "done"
    BY DEF NextStep, AfterDial
  <2>. QED
    BY <1>1, <2>1, DialWired DEF Dials
<1>2. CASE DialFailed \/ Closes
  BY <1>2, GoneWired DEF DialFailed, DialFails, Return, Closes, CloseEnds
<1>3. CASE Upgrades
  BY <1>3, UpgradeWired DEF Upgrades
<1>4. CASE ClientStep
  <2>1. srv' = srv
    BY <1>4 DEF ClientStep, Continues, serverVars
  <2>2. CASE Continues
    BY <2>1, <2>2, ContinuesWired
  <2>3. CASE RecvFails
    <3>1. chan' = chan /\ s2c' = s2c /\ buffer' = <<>>
      BY <2>3 DEF RecvFails, GiveUp, Return, wire
    <3>. QED
      BY <2>1, <3>1, EmptiedWired DEF Wired, AllEnc
  <2>4. CASE \/ \E m \in Methods : Call(m)
             \/ \E e \in Endpoints : Connect(e) \/ ConnectWrongScheme(e)
             \/ Close
    <3>1. UNCHANGED <<chan, buffer, reading, s2c>>
      BY <2>4 DEF Call, Close, Connect, ConnectTo, Begin, ConnectWrongScheme, RefuseScheme,
         Answers, callVars, wire
    <3>. QED
      BY <2>1, <3>1, UnchangedWired
  <2>. QED
    BY <1>4, <2>2, <2>3, <2>4 DEF ClientStep
<1>5. CASE ServerStep
  BY <1>5, ServesEnc, ServerWired DEF ServerStep, StillOn, StillEnc
<1>6. CASE UNCHANGED vars \/ TakesLate
  BY <1>6, UnchangedWired DEF vars, mailVars, wire, clientVars, callVars, serverVars, TakesLate
<1>. QED
  BY <1>1, <1>2, <1>3, <1>4, <1>5, <1>6 DEF Next, Departs

LEMMA InitWired == Init => Wired
<1>1. ASSUME Init PROVE DOMAIN srv = {"open", "greeted", "tls", "work"}
  BY <1>1 DEF Init, SessionInit, ServerInit, Fresh, Gone
<1>. QED
  BY <1>1, NothingUnread DEF Init, SessionInit, ClientInit, Wired

\* Nothing the client reads on the encrypted channel was written in clear: the
\* buffer of readReply does not outlive the reply to STARTTLS.
THEOREM SmtpNoClearReplyUnderTls == Spec => []NoClearReplyUnderTls
<1>1. CInv(Late) /\ Wired /\ [Next]_vars => CInv(Late)' /\ Wired'
  BY NextSmtp, NextWired
<1>2. Init => CInv(Late) /\ Wired
  BY InitSmtp, InitWired
<1>3. Wired => NoClearReplyUnderTls
  BY WiredIsEnough
<1>. QED
  BY <1>1, <1>2, <1>3, PTL DEF Spec
-----------------------------------------------------------------------------
(***************************************************************************)
(* The text of a message is never read as commands, for any number of      *)
(* calls, replies of any length and any number of reads and sends given    *)
(* up.  A body is sent for a 354 that was read, and the server writes one  *)
(* when it goes into data mode: the invariant says that the right to send  *)
(* a body is in one place at a time, in the reply stream, with the client  *)
(* or in flight, and nowhere while the server is not in data mode.         *)
(***************************************************************************)

\* The pieces of lines, from the end: every second one ends a line.
Paired(s) == \A i \in 1..Len(s) : s[i].crlf <=> (Len(s) - i) % 2 = 0

\* No 354, or one whose end is the end of the stream.
NoGoAhead(s) == \A i \in 1..Len(s) : s[i].line.code # 354
GoAheadLast(s) ==
  \A i \in 1..Len(s) : s[i].crlf /\ s[i].line.last /\ s[i].line.code = 354 => i = Len(s)

NoBody  == \A i \in DOMAIN c2s : c2s[i].verb # "dataBody"
OneBody ==
  \A i, j \in DOMAIN c2s : c2s[i].verb = "dataBody" /\ c2s[j].verb = "dataBody" => i = j
ToSend  == step = "dataBody" /\ ~reading

Commanded == NoGoAhead(Unread) /\ NoBody /\ ~ToSend
InData ==
  /\ srv.greeted /\ srv.tls # "await"
  /\ GoAheadLast(Unread) /\ OneBody
  /\ ToSend => NoBody
  /\ ToSend \/ ~NoBody => NoGoAhead(Unread)

Bodied ==
  srv.open =>
    /\ DOMAIN srv.work = {"mode", "hello", "auth", "from", "to"}
    /\ Paired(Unread)
    /\ srv.work.mode # "data" => Commanded
    /\ srv.work.mode = "data" => InData
-----------------------------------------------------------------------------
\* The end of a stream.
RestOf(t, s, k) == Len(t) = Len(s) - k /\ \A i \in 1..Len(t) : t[i] = s[i + k]

LEMMA RestKeeps ==
  ASSUME NEW s \in Seq(Parts), NEW t \in Seq(Parts), NEW k \in 0..Len(s), RestOf(t, s, k)
  PROVE  /\ Paired(s) => Paired(t)
         /\ NoGoAhead(s) => NoGoAhead(t)
         /\ GoAheadLast(s) => GoAheadLast(t)
<1>1. \A i \in 1..Len(t) : /\ i + k \in 1..Len(s) /\ t[i] = s[i + k]
                           /\ Len(t) - i = Len(s) - (i + k) /\ (i + k = Len(s) => i = Len(t))
  BY DEF RestOf
<1>2. ASSUME Paired(s) PROVE Paired(t)
  BY <1>1, <1>2 DEF Paired
<1>3. ASSUME NoGoAhead(s) PROVE NoGoAhead(t)
  <2>1. SUFFICES ASSUME NEW i \in 1..Len(t) PROVE t[i].line.code # 354
    BY DEF NoGoAhead
  <2>2. i + k \in 1..Len(s) /\ t[i] = s[i + k]
    BY <1>1
  <2>3. s[i + k].line.code # 354
    BY <1>3, <2>2 DEF NoGoAhead
  <2>. QED
    BY <2>2, <2>3
<1>4. ASSUME GoAheadLast(s) PROVE GoAheadLast(t)
  BY <1>1, <1>4 DEF GoAheadLast
<1>. QED
  BY <1>2, <1>3, <1>4

LEMMA DroppedUnread ==
  ASSUME Wired, s2c' \in Seq(Parts), NEW n \in 0..Len(s2c), RestOf(s2c', s2c, n), buffer' = <<>>
  PROVE  RestOf(Unread', Unread, Len(buffer) + n)
<1>1. Unread' = s2c'
  BY DEF Unread
<1>2. Len(Unread') = Len(Unread) - (Len(buffer) + n)
  BY <1>1, UnreadType DEF RestOf, Wired
<1>3. \A i \in 1..Len(Unread') : Unread'[i] = Unread[i + (Len(buffer) + n)]
  BY <1>1 DEF RestOf, Wired, Unread
<1>. QED
  BY <1>2, <1>3 DEF RestOf

LEMMA EvenHalf == \A x \in Int : x % 2 = 0 => x = 2 * ((x + 1) \div 2)
<1>1. ASSUME NEW x \in Int, x % 2 = 0 PROVE x = 2 * ((x + 1) \div 2)
  BY <1>1
<1>. QED
  BY <1>1

LEMMA LineOfPart == ASSUME NEW s \in Seq(Parts), NEW i \in 1..Len(s) PROVE s[i].line \in Lines
<1>1. s[i] \in Parts
  OBVIOUS
<1>. QED
  BY <1>1 DEF Parts

\* The pieces behind the old ones are those of the lines.
LEMMA NewPiece ==
  ASSUME NEW s \in Seq(Parts), NEW t \in Seq(Parts), NEW lines \in Seq(Lines),
         Len(t) = Len(s) + 2 * Len(lines),
         \A i \in 1..Len(s) : t[i] = s[i],
         \A i \in 1..(2 * Len(lines)) :
           t[Len(s) + i] = [line |-> lines[(i + 1) \div 2], crlf |-> i % 2 = 0],
         NEW i \in 1..Len(t), i \notin 1..Len(s)
  PROVE  \E j \in 1..(2 * Len(lines)), k \in DOMAIN lines :
           /\ i = Len(s) + j /\ k = (j + 1) \div 2
           /\ t[i].line = lines[k] /\ (t[i].crlf = (j % 2 = 0))
<1>. DEFINE j == i - Len(s)
            k == (j + 1) \div 2
<1>1. j \in 1..(2 * Len(lines)) /\ i = Len(s) + j
  OBVIOUS
<1>2. k \in DOMAIN lines
  BY <1>1
<1>3. t[Len(s) + j] = [line |-> lines[k], crlf |-> j % 2 = 0]
  BY <1>1
<1>4. t[i].line = lines[k] /\ (t[i].crlf = (j % 2 = 0))
  BY <1>1, <1>3
<1>. QED
  BY <1>1, <1>2, <1>4

LEMMA PairedWritten ==
  ASSUME NEW s \in Seq(Parts), NEW t \in Seq(Parts), NEW lines \in Seq(Lines),
         Len(t) = Len(s) + 2 * Len(lines),
         \A i \in 1..Len(s) : t[i] = s[i],
         \A i \in 1..(2 * Len(lines)) :
           t[Len(s) + i] = [line |-> lines[(i + 1) \div 2], crlf |-> i % 2 = 0],
         Paired(s)
  PROVE  Paired(t)
<1>1. SUFFICES ASSUME NEW i \in 1..Len(t) PROVE t[i].crlf <=> (Len(t) - i) % 2 = 0
  BY DEF Paired
<1>2. CASE i \in 1..Len(s)
  <2>1. (Len(t) - i) % 2 = (Len(s) - i) % 2
    BY <1>2
  <2>2. t[i] = s[i]
    BY <1>2
  <2>. QED
    BY <1>2, <2>1, <2>2 DEF Paired
<1>3. CASE i \notin 1..Len(s)
  <2>1. PICK j \in 1..(2 * Len(lines)), k \in DOMAIN lines :
          /\ i = Len(s) + j /\ k = (j + 1) \div 2
          /\ t[i].line = lines[k] /\ (t[i].crlf = (j % 2 = 0))
    BY <1>3, NewPiece
  <2>2. Len(t) - i = 2 * Len(lines) - j
    BY <2>1
  <2>3. (2 * Len(lines) - j) % 2 = 0 <=> j % 2 = 0
    OBVIOUS
  <2>. QED
    BY <2>1, <2>2, <2>3
<1>. QED
  BY <1>2, <1>3

LEMMA WrittenKeeps ==
  ASSUME NEW s \in Seq(Parts), NEW t \in Seq(Parts), NEW lines \in Seq(Lines),
         Len(t) = Len(s) + 2 * Len(lines),
         \A i \in 1..Len(s) : t[i] = s[i],
         \A i \in 1..(2 * Len(lines)) :
           t[Len(s) + i] = [line |-> lines[(i + 1) \div 2], crlf |-> i % 2 = 0],
         \A i \in DOMAIN lines : lines[i].last => i = Len(lines),
         NoGoAhead(s)
  PROVE  /\ Paired(s) => Paired(t)
         /\ GoAheadLast(t)
         /\ (\A i \in DOMAIN lines : lines[i].code # 354) => NoGoAhead(t)
<1>1. ASSUME NEW i \in 1..Len(t), i \notin 1..Len(s)
      PROVE  \E j \in 1..(2 * Len(lines)), k \in DOMAIN lines :
               /\ i = Len(s) + j /\ k = (j + 1) \div 2
               /\ t[i].line = lines[k] /\ (t[i].crlf = (j % 2 = 0))
  BY <1>1, NewPiece
<1>2. ASSUME Paired(s) PROVE Paired(t)
  BY <1>2, PairedWritten
<1>3. GoAheadLast(t)
  <2>1. SUFFICES ASSUME NEW i \in 1..Len(t), t[i].crlf, t[i].line.last, t[i].line.code = 354
                 PROVE  i = Len(t)
    BY DEF GoAheadLast
  <2>2. i \notin 1..Len(s)
    BY <2>1 DEF NoGoAhead
  <2>3. PICK j \in 1..(2 * Len(lines)), k \in DOMAIN lines :
          /\ i = Len(s) + j /\ k = (j + 1) \div 2
          /\ t[i].line = lines[k] /\ (t[i].crlf = (j % 2 = 0))
    BY <1>1, <2>2
  <2>4. k = Len(lines)
    BY <2>1, <2>3
  <2>5. j % 2 = 0
    BY <2>1, <2>3
  <2>6. j \in Nat /\ Len(lines) \in Nat /\ (j + 1) \div 2 = Len(lines)
    BY <2>3, <2>4
  <2>7. j = 2 * Len(lines)
    <3>1. j \in Int
      BY <2>6
    <3>2. j = 2 * ((j + 1) \div 2)
      BY <2>5, <3>1, EvenHalf
    <3>. QED
      BY <2>6, <3>2
  <2>. QED
    BY <2>3, <2>7
<1>4. ASSUME \A i \in DOMAIN lines : lines[i].code # 354 PROVE NoGoAhead(t)
  <2>1. SUFFICES ASSUME NEW i \in 1..Len(t) PROVE t[i].line.code # 354
    BY DEF NoGoAhead
  <2>2. CASE i \in 1..Len(s)
    BY <2>2 DEF NoGoAhead
  <2>3. CASE i \notin 1..Len(s)
    <3>1. PICK k \in DOMAIN lines : t[i].line = lines[k]
      BY <1>1, <2>3
    <3>. QED
      BY <1>4, <3>1
  <2>. QED
    BY <2>2, <2>3
<1>. QED
  BY <1>2, <1>3, <1>4

LEMMA RepliesUnread ==
  ASSUME Wired, NEW c, c.no \in Nat, NEW code \in Nat, Replies(c, code), buffer' = buffer,
         Paired(Unread), NoGoAhead(Unread)
  PROVE  Paired(Unread') /\ GoAheadLast(Unread') /\ (code # 354 => NoGoAhead(Unread'))
<1>1. PICK lines \in Seq(Lines) :
        /\ Writes(lines)
        /\ \A i \in DOMAIN lines : lines[i].last => i = Len(lines)
        /\ \A i \in DOMAIN lines : lines[i].code \in {0, code}
  <2>1. CASE \E n \in 1..MaxLines : Writes([i \in 1..n |-> Line(c.no, code, i = n)])
    <3>1. PICK n \in 1..MaxLines : Writes([i \in 1..n |-> Line(c.no, code, i = n)])
      BY <2>1
    <3>. DEFINE lines == [i \in 1..n |-> Line(c.no, code, i = n)]
    <3>2. lines \in Seq(Lines) /\ Len(lines) = n
      BY SmtpServerAssumption DEF SmtpServerAssumption, Line, Lines
    <3>3. \A i \in DOMAIN lines : lines[i].code = code
      BY DEF Line
    <3>4. \A i \in DOMAIN lines : lines[i].last = (i = n)
      BY DEF Line
    <3>. QED
      BY <3>1, <3>2, <3>3, <3>4
  <2>2. CASE WritesBadLine(c.no)
    <3>. DEFINE lines == <<Line(c.no, 0, TRUE)>>
    <3>1. lines \in Seq(Lines) /\ Len(lines) = 1
          /\ \A i \in DOMAIN lines : i = 1 /\ lines[i].code = 0
      BY DEF Line, Lines
    <3>. QED
      BY <2>2, <3>1 DEF WritesBadLine
  <2>. QED
    BY <2>1, <2>2 DEF Replies
<1>2. /\ Unread' \in Seq(Parts) /\ Len(Unread') = Len(Unread) + 2 * Len(lines)
      /\ \A i \in 1..Len(Unread) : Unread'[i] = Unread[i]
      /\ \A i \in 1..(2 * Len(lines)) :
           Unread'[Len(Unread) + i] = [line |-> lines[(i + 1) \div 2], crlf |-> i % 2 = 0]
  BY <1>1, WrittenUnread
<1>3. Unread \in Seq(Parts)
  BY UnreadType
<1>4. /\ Paired(Unread) => Paired(Unread')
      /\ GoAheadLast(Unread')
      /\ (\A i \in DOMAIN lines : lines[i].code # 354) => NoGoAhead(Unread')
  BY <1>1, <1>2, <1>3, WrittenKeeps
<1>. QED
  BY <1>1, <1>4
-----------------------------------------------------------------------------
\* Where the reply in a buffer begins and ends in what is unread.
LEMMA ReplyInUnread ==
  ASSUME Wired, NEW chunk \in Chunks, Complete(buffer \o chunk)
  PROVE  /\ After(chunk) \in Seq(Parts) /\ Len(buffer \o chunk) \in Nat
         /\ Len(Unread) = Len(buffer \o chunk) + Len(After(chunk))
         /\ ~Unread[1].crlf
         /\ \E m \in Nat :
              /\ 2 * m \in 2..Len(buffer \o chunk)
              /\ Head(ReplyIn(buffer \o chunk)) = Unread[2].line
              /\ Unread[2 * m].line.last /\ Unread[2 * m].line.code = Unread[2].line.code
<1>. DEFINE data == buffer \o chunk
            m == Min(Stops(data))
<1>1. chunk \in Seq(Parts) /\ After(chunk) \in Seq(Parts) /\ data \in Seq(Parts)
  BY ChunkOfStream DEF Wired
<1>2. Unread = data \o After(chunk)
  <2>1. PICK n \in 1..Len(s2c) : chunk = SubSeq(s2c, 1, n)
    BY DEF Chunks
  <2>2. s2c = chunk \o After(chunk)
    BY <2>1 DEF After, Wired
  <2>3. (buffer \o chunk) \o After(chunk) = buffer \o (chunk \o After(chunk))
    BY <1>1 DEF Wired
  <2>. QED
    BY <2>2, <2>3 DEF Unread
<1>3. /\ Len(Unread) = Len(data) + Len(After(chunk))
      /\ \A i \in 1..Len(data) : Unread[i] = data[i]
  <2>. HIDE DEF data
  <2>. QED
    BY <1>1, <1>2, Concatenated
<1>4. m \in Stops(data) /\ m \in 1..(Len(data) \div 2)
  <2>. HIDE DEF data
  <2>1. Stops(data) \subseteq 1..(Len(data) \div 2)
    BY DEF Stops, FullLines
  <2>2. Stops(data) \subseteq Nat
    BY <2>1
  <2>3. Stops(data) # {}
    BY DEF Complete, data
  <2>. QED
    BY <2>1, <2>2, <2>3, SmallestIn
<1>5. 2 * m \in 1..Len(data) /\ Len(data) >= 2
  <2>. HIDE DEF data, m
  <2>1. Len(data) \in Nat
    BY <1>1
  <2>. QED
    BY <1>4, <2>1
<1>6. data[2 * m].line.last /\ data[2 * m].line.code = data[2].line.code
  <2>1. FullLines(data)[m] = data[2 * m].line
    <3>. HIDE DEF data, m
    <3>. QED
      BY <1>4 DEF FullLines
  <2>. QED
    BY <2>1 DEF Complete
<1>7. Head(ReplyIn(data)) = data[2].line
  <2>. HIDE DEF data
  <2>1. FullLines(data) \in Seq(Lines) /\ Len(FullLines(data)) = Len(data) \div 2
        /\ \A i \in 1..(Len(data) \div 2) : FullLines(data)[i] = data[2 * i].line
    <3>1. Len(data) \in Nat
      BY <1>1
    <3>2. \A i \in 1..(Len(data) \div 2) : 2 * i \in 1..Len(data)
      BY <3>1
    <3>3. \A i \in 1..(Len(data) \div 2) : data[2 * i].line \in Lines
      BY <1>1, <3>2, LineOfPart
    <3>. QED
      BY <3>1, <3>3 DEF FullLines
  <2>2. Head(SubSeq(FullLines(data), 1, m)) = FullLines(data)[1]
    <3>. HIDE DEF m
    <3>. QED
      BY <1>4, <2>1
  <2>3. 1 \in 1..(Len(data) \div 2)
    <3>. HIDE DEF m
    <3>1. Len(data) \div 2 \in Int
      BY <1>5
    <3>. QED
      BY <1>4, <3>1
  <2>4. FullLines(data)[1] = data[2 * 1].line
    BY <2>1, <2>3
  <2>5. ReplyIn(data) = SubSeq(FullLines(data), 1, m)
    BY DEF ReplyIn
  <2>6. Head(ReplyIn(data)) = FullLines(data)[1]
    <3>. HIDE DEF m
    <3>. QED
      BY <2>2, <2>5
  <2>7. data[2 * 1] = data[2]
    OBVIOUS
  <2>. QED
    BY <2>4, <2>6, <2>7
<1>8. Unread[2] = data[2] /\ Unread[1] = data[1] /\ Unread[2 * m] = data[2 * m]
  <2>. HIDE DEF data, m
  <2>1. 1 \in 1..Len(data) /\ 2 \in 1..Len(data)
    <3>1. Len(data) \in Nat
      BY <1>1
    <3>. QED
      BY <1>5, <3>1
  <2>. QED
    BY <1>3, <1>5, <2>1
<1>9. ~data[1].crlf
  <2>1. data # <<>>
    <3>. HIDE DEF data, m
    <3>. QED
      BY <1>1, <1>5
  <2>. QED
    BY <2>1 DEF Complete, StartsInside
<1>10. m \in Nat /\ 2 * m \in 2..Len(data)
  <2>. HIDE DEF data, m
  <2>1. Len(data) \in Nat
    BY <1>1
  <2>2. m \in Nat /\ m >= 1
    BY <1>4
  <2>. QED
    BY <1>5, <2>1, <2>2
<1>. HIDE DEF m
<1>11. Len(data) \in Nat
  <2>. HIDE DEF data
  <2>. QED
    BY <1>1
<1>. QED
  BY <1>1, <1>3, <1>6, <1>7, <1>8, <1>9, <1>10, <1>11

\* A reply that ends in a 354 ends what is unread: the server is in data mode
\* and has written nothing since.
LEMMA GoAheadEnds ==
  ASSUME Wired, Bodied, srv.open, NEW chunk \in Chunks, Complete(buffer \o chunk),
         Head(ReplyIn(buffer \o chunk)).code = 354
  PROVE  /\ After(chunk) = <<>> /\ NoBody /\ srv.work.mode = "data"
<1>1. /\ After(chunk) \in Seq(Parts) /\ Len(buffer \o chunk) \in Nat
      /\ Len(Unread) = Len(buffer \o chunk) + Len(After(chunk))
      /\ ~Unread[1].crlf
  BY ReplyInUnread
<1>2. PICK m \in Nat :
        /\ 2 * m \in 2..Len(buffer \o chunk)
        /\ Head(ReplyIn(buffer \o chunk)) = Unread[2].line
        /\ Unread[2 * m].line.last /\ Unread[2 * m].line.code = Unread[2].line.code
  BY ReplyInUnread
<1>3. Len(After(chunk)) \in Nat
  BY <1>1
<1>4. Len(Unread) \in Nat /\ 1 \in 1..Len(Unread) /\ 2 * m \in 1..Len(Unread)
  BY <1>1, <1>2, <1>3
<1>5. ~NoGoAhead(Unread)
  BY <1>2, <1>4 DEF NoGoAhead
<1>6. srv.work.mode = "data" /\ NoBody /\ GoAheadLast(Unread)
  BY <1>5 DEF Bodied, Commanded, InData
<1>7. Unread[2 * m].crlf
  <2>1. ~((Len(Unread) - 1) % 2 = 0)
    BY <1>1, <1>4 DEF Bodied, Paired
  <2>2. (Len(Unread) - 2 * m) % 2 = 0
    BY <1>4, <2>1
  <2>. QED
    BY <1>4, <2>2 DEF Bodied, Paired
<1>8. 2 * m = Len(Unread)
  BY <1>2, <1>4, <1>6, <1>7 DEF GoAheadLast
<1>9. Len(After(chunk)) = 0
  BY <1>1, <1>2, <1>3, <1>8
<1>. QED
  BY <1>1, <1>6, <1>9
-----------------------------------------------------------------------------
(* The client's steps                                                      *)

\* Nothing is sent and nothing becomes readable.
LEMMA QuietBodied ==
  ASSUME Wired, Bodied, srv' = srv, c2s' = c2s, Unread' \in Seq(Parts), ~ToSend',
         NEW k \in 0..Len(Unread), RestOf(Unread', Unread, k)
  PROVE  Bodied'
<1>1. /\ Paired(Unread) => Paired(Unread')
      /\ NoGoAhead(Unread) => NoGoAhead(Unread')
      /\ GoAheadLast(Unread) => GoAheadLast(Unread')
  BY UnreadType, RestKeeps
<1>2. (NoBody' <=> NoBody) /\ (OneBody' <=> OneBody)
  BY DEF NoBody, OneBody
<1>3. ASSUME Commanded PROVE Commanded'
  BY <1>1, <1>2, <1>3 DEF Commanded, NoGoAhead
<1>4. ASSUME InData PROVE InData'
  BY <1>1, <1>2, <1>4 DEF InData, NoGoAhead, GoAheadLast
<1>. QED
  BY <1>1, <1>3, <1>4 DEF Bodied, Paired

LEMMA SameUnread ==
  ASSUME Wired, Unread' = Unread
  PROVE  Unread' \in Seq(Parts) /\ 0 \in 0..Len(Unread) /\ RestOf(Unread', Unread, 0)
BY UnreadType DEF RestOf

\* A call ends: what it has read is dropped.
LEMMA EndsBodied ==
  ASSUME Wired, Bodied, srv' = srv, c2s' = c2s, buffer' = <<>>, ~ToSend',
         NEW n \in 0..Len(s2c), s2c' \in Seq(Parts), RestOf(s2c', s2c, n)
  PROVE  Bodied'
<1>1. RestOf(Unread', Unread, Len(buffer) + n)
  BY DroppedUnread
<1>2. Unread' = s2c'
  BY DEF Unread
<1>3. Len(buffer) + n \in 0..Len(Unread)
  BY UnreadType DEF Wired
<1>. QED
  BY <1>1, <1>2, <1>3, QuietBodied

LEMMA AllUnread ==
  ASSUME Wired, s2c' = s2c
  PROVE  0 \in 0..Len(s2c) /\ s2c' \in Seq(Parts) /\ RestOf(s2c', s2c, 0)
BY DEF RestOf, Wired

LEMMA ChunkTaken ==
  ASSUME Wired, NEW chunk \in Chunks, s2c' = After(chunk)
  PROVE  Len(chunk) \in 0..Len(s2c) /\ s2c' \in Seq(Parts) /\ RestOf(s2c', s2c, Len(chunk))
<1>1. PICK n \in 1..Len(s2c) : chunk = SubSeq(s2c, 1, n)
  BY DEF Chunks
<1>2. Len(chunk) = n
  BY <1>1 DEF Wired
<1>3. s2c' \in Seq(Parts)
  BY ChunkOfStream DEF Wired
<1>4. Len(s2c') = Len(s2c) - n /\ \A i \in 1..Len(s2c') : s2c'[i] = s2c[i + n]
  BY <1>2 DEF After, Wired
<1>. QED
  BY <1>2, <1>3, <1>4 DEF RestOf

\* A command is sent, or the beginning of one.
LEMMA SentBodied ==
  ASSUME CInv(Late), Wired, Bodied, srv' = srv, NEW c, c.verb = Verb,
         Sends, c2s' = Append(c2s, c), ~ToSend', Unread' = Unread
  PROVE  Bodied'
<1>1. c2s \in Seq(Commands)
  BY DEF CInv, Types
<1>2. c.verb = "dataBody" <=> ToSend
  BY DEF Verb, ToSend, Sends
<1>3. /\ Len(c2s') = Len(c2s) + 1 /\ DOMAIN c2s' = 1..(Len(c2s) + 1) /\ DOMAIN c2s = 1..Len(c2s)
      /\ \A i \in 1..Len(c2s) : c2s'[i] = c2s[i]
      /\ c2s'[Len(c2s) + 1] = c
  BY <1>1
<1>4. ASSUME NoBody PROVE OneBody' /\ (~ToSend => NoBody')
  <2>1. \A i \in DOMAIN c2s' : c2s'[i].verb = "dataBody" => i = Len(c2s) + 1 /\ ToSend
    BY <1>2, <1>3, <1>4 DEF NoBody
  <2>. QED
    BY <2>1 DEF OneBody, NoBody
<1>5. ASSUME OneBody, ~ToSend PROVE OneBody' /\ (~NoBody' => ~NoBody)
  <2>1. \A i \in DOMAIN c2s' : c2s'[i].verb = "dataBody" =>
          i \in DOMAIN c2s /\ c2s[i].verb = "dataBody"
    BY <1>2, <1>3, <1>5
  <2>. QED
    BY <1>5, <2>1 DEF OneBody, NoBody
<1>6. ASSUME Commanded PROVE Commanded'
  BY <1>4, <1>6 DEF Commanded, NoGoAhead
<1>7. ASSUME InData PROVE InData'
  <2>1. OneBody' /\ (~NoBody' => NoGoAhead(Unread))
    BY <1>4, <1>5, <1>7 DEF InData
  <2>. QED
    BY <1>7, <2>1 DEF InData, NoGoAhead, GoAheadLast
<1>. QED
  BY <1>6, <1>7 DEF Bodied, Paired

LEMMA NotDone == ASSUME step' = "done" \/ reading' PROVE ~ToSend'
BY DEF ToSend

LEMMA CommandVerb == ASSUME NEW t, NEW w PROVE Command(Verb, t, w).verb = Verb
BY DEF Command

LEMMA SendsBodied ==
  ASSUME CInv(Late), Wired, Bodied, srv' = srv,
         SendCommand(Verb, Turn) \/ SendFails(Verb, Turn)
  PROVE  Bodied'
<1>1. CASE SendCommand(Verb, Turn)
  <2>1. Unread' = Unread /\ Sends /\ reading'
        /\ c2s' = Append(c2s, Command(Verb, Turn, TRUE))
    BY <1>1 DEF SendCommand, Unread
  <2>. QED
    BY <2>1, NotDone, CommandVerb, SentBodied
<1>2. CASE SendFails(Verb, Turn)
  <2>1. s2c' = s2c /\ buffer' = <<>> /\ step' = "done" /\ Sends
        /\ (c2s' = c2s \/ c2s' = Append(c2s, Command(Verb, Turn, FALSE)))
    BY <1>2 DEF SendFails, GiveUp, Return
  <2>2. Unread' = Unread
    BY <2>1 DEF Wired, Sends, Unread
  <2>3. CASE c2s' = c2s
    BY <2>1, <2>3, NotDone, AllUnread, EndsBodied
  <2>4. CASE c2s' = Append(c2s, Command(Verb, Turn, FALSE))
    BY <2>1, <2>2, <2>4, NotDone, CommandVerb, SentBodied
  <2>. QED
    BY <2>1, <2>3, <2>4
<1>. QED
  BY <1>1, <1>2

\* The reply to DATA is read: the body may be sent after a 354.
LEMMA GoesOnToBody ==
  ASSUME NEW code, GoesOn(step, code), NextStep(step) = "dataBody" PROVE code = 354
<1>1. step = "data"
  BY DEF NextStep, AfterDial, AfterGreeting, RcptsLeft
<1>. QED
  BY <1>1 DEF GoesOn, DataOk

LEMMA RecvChunkBodied ==
  ASSUME Wired, Bodied, RecvChunk, srv' = srv PROVE Bodied'
<1>1. PICK chunk \in Chunks : LET data == buffer \o chunk IN
        \/ Incomplete(data) /\ Keeps(chunk)
        \/ /\ Complete(data) /\ Takes(chunk, ReplyIn(data))
           /\ LET code == Head(reply').code IN
              IF GoesOn(step, code) THEN Proceed(NextStep(step), code)
              ELSE Return(IF op \in {"connect", "startTls"} THEN "ServerError" ELSE "reply", code)
        \/ ~Incomplete(data) /\ ~Complete(data) /\ Rejects(chunk)
  BY DEF RecvChunk
<1>2. CASE Keeps(chunk)
  <2>1. c2s' = c2s /\ ~ToSend'
    BY <1>2 DEF Keeps, RecvChunk, ToSend
  <2>. QED
    BY <1>2, <2>1, KeptUnread, SameUnread, QuietBodied
<1>3. CASE Rejects(chunk)
  <2>1. c2s' = c2s /\ buffer' = <<>> /\ s2c' = After(chunk) /\ step' = "done"
    BY <1>3 DEF Rejects, GiveUp, Return
  <2>. QED
    BY <2>1, NotDone, ChunkTaken, EndsBodied
<1>4. CASE Takes(chunk, ReplyIn(buffer \o chunk)) /\ \E kind, code : Return(kind, code)
  <2>1. c2s' = c2s /\ buffer' = <<>> /\ s2c' = After(chunk) /\ step' = "done"
    BY <1>4 DEF Takes, Return
  <2>. QED
    BY <2>1, NotDone, ChunkTaken, EndsBodied
<1>5. CASE /\ Complete(buffer \o chunk) /\ Takes(chunk, ReplyIn(buffer \o chunk))
           /\ GoesOn(step, Head(reply').code) /\ Proceed(NextStep(step), Head(reply').code)
  <2>1. c2s' = c2s /\ buffer' = <<>> /\ s2c' = After(chunk)
        /\ (step' = "dataBody" => NextStep(step) = "dataBody")
    BY <1>5 DEF Takes, Proceed, Return
  <2>2. CASE step' # "dataBody"
    <3>1. ~ToSend'
      BY <2>2 DEF ToSend
    <3>. QED
      BY <2>1, <3>1, ChunkTaken, EndsBodied
  <2>3. CASE step' = "dataBody"
    <3>1. Head(ReplyIn(buffer \o chunk)).code = 354
      BY <1>5, <2>1, <2>3, GoesOnToBody DEF Takes
    <3>2. SUFFICES ASSUME srv.open PROVE Bodied'
      BY DEF Bodied
    <3>3. After(chunk) = <<>> /\ NoBody /\ srv.work.mode = "data"
      BY <1>5, <3>1, <3>2, GoAheadEnds
    <3>4. Unread' = <<>>
      BY <2>1, <3>3 DEF Unread
    <3>5. Paired(<<>>) /\ NoGoAhead(<<>>) /\ GoAheadLast(<<>>)
      BY DEF Paired, NoGoAhead, GoAheadLast
    <3>6. NoBody' /\ OneBody'
      BY <2>1, <3>3 DEF NoBody, OneBody
    <3>7. InData'
      BY <3>2, <3>3, <3>4, <3>5, <3>6 DEF InData, Bodied
    <3>. QED
      BY <3>2, <3>3, <3>4, <3>5, <3>7 DEF Bodied
  <2>. QED
    BY <2>2, <2>3
<1>. QED
  BY <1>1, <1>2, <1>3, <1>4, <1>5

LEMMA ContinuesBodied ==
  ASSUME CInv(Late), Wired, Bodied, Continues, srv' = srv PROVE Bodied'
<1>1. CASE Unresolved \/ UpgradeFails \/ SendRefused \/ RecvTimeout \/ ClosedAtOtherEnd
  <2>1. c2s' = c2s /\ s2c' = s2c
    BY <1>1 DEF Unresolved, UpgradeFails, SendRefused, RecvTimeout, ClosedAtOtherEnd,
       RecvClosed, wire
  <2>2. buffer' = <<>> /\ step' = "done"
    BY <1>1 DEF Unresolved, UpgradeFails, SendRefused, RecvTimeout, ClosedAtOtherEnd,
       RecvClosed, GiveUp, Return
  <2>. QED
    BY <2>1, <2>2, NotDone, AllUnread, EndsBodied
<1>2. CASE SendCommand(Verb, Turn) \/ SendFails(Verb, Turn)
  BY <1>2, SendsBodied
<1>3. CASE RecvChunk
  BY <1>3, RecvChunkBodied
<1>. QED
  BY <1>1, <1>2, <1>3 DEF Continues

\* A call begins.
LEMMA CallsBodied ==
  ASSUME CInv(Late), Wired, Bodied, srv' = srv,
         \/ \E m \in Methods : Call(m)
         \/ \E e \in Endpoints : Connect(e) \/ ConnectWrongScheme(e)
         \/ Close
  PROVE  Bodied'
<1>1. UNCHANGED <<c2s, s2c, buffer>>
  BY DEF Call, Close, Connect, ConnectTo, Begin, ConnectWrongScheme, RefuseScheme, Answers,
     callVars, wire
<1>2. ~ToSend'
  <2>1. CASE \E m \in Methods : Call(m)
    BY <2>1, SmtpAssumption DEF SmtpAssumption, AllMethods, Call, Begin, FirstStep, ToSend
  <2>2. CASE \E e \in Endpoints : Connect(e)
    BY <2>2 DEF Connect, ConnectTo, Begin, ToSend
  <2>4. CASE Close
    BY <2>4 DEF Close, Begin, ToSend
  <2>3. CASE \E e \in Endpoints : ConnectWrongScheme(e)
    BY <2>3 DEF ConnectWrongScheme, RefuseScheme, Answers, callVars, ToSend, CInv, Placed
  <2>. QED
    BY <2>1, <2>2, <2>3, <2>4
<1>3. Unread' = Unread
  BY <1>1 DEF Unread
<1>. QED
  BY <1>1, <1>2, <1>3, SameUnread, QuietBodied
-----------------------------------------------------------------------------
(* The server's steps                                                      *)

Fields == {"mode", "hello", "auth", "from", "to"}

LEMMA ClientWaits ==
  ASSUME UNCHANGED clientVars PROVE buffer' = buffer /\ (ToSend' <=> ToSend)
BY DEF clientVars, callVars, ToSend


LEMMA TakenBodies ==
  ASSUME c2s \in Seq(Commands),
         \/ c2s' = c2s
         \/ c2s # <<>> /\ c2s' = Tail(c2s)
         \/ Len(c2s) > 1 /\ c2s' = Tail(Tail(c2s))
  PROVE  (NoBody => NoBody') /\ (OneBody => OneBody')
<1>1. PICK k \in 0..2 :
        \A i \in DOMAIN c2s' : i + k \in DOMAIN c2s /\ c2s'[i] = c2s[i + k] /\ i \in Nat
  BY TakenFromFront
<1>2. ASSUME NoBody PROVE NoBody'
  BY <1>1, <1>2 DEF NoBody
<1>3. ASSUME OneBody PROVE OneBody'
  <2>1. SUFFICES ASSUME NEW i \in DOMAIN c2s', NEW j \in DOMAIN c2s',
                        c2s'[i].verb = "dataBody", c2s'[j].verb = "dataBody"
                 PROVE  i = j
    BY DEF OneBody
  <2>2. i + k = j + k
    BY <1>1, <1>3, <2>1 DEF OneBody
  <2>. QED
    BY <1>1, <2>1, <2>2
<1>. QED
  BY <1>2, <1>3

LEMMA BodyTaken ==
  ASSUME c2s \in Seq(Commands), OneBody, c2s # <<>>, Head(c2s).verb = "dataBody", c2s' = Tail(c2s)
  PROVE  ~NoBody /\ NoBody'
<1>1. c2s' \in Seq(Commands) /\ Len(c2s') = Len(c2s) - 1
      /\ \A i \in 1..Len(c2s') : c2s'[i] = c2s[i + 1]
  BY TailKeeps
<1>2. 1 \in DOMAIN c2s /\ c2s[1].verb = "dataBody"
  OBVIOUS
<1>3. ASSUME NEW i \in DOMAIN c2s' PROVE c2s'[i].verb # "dataBody"
  <2>1. i \in Nat /\ i # 0 /\ i + 1 \in DOMAIN c2s /\ c2s'[i] = c2s[i + 1]
    BY <1>1
  <2>. QED
    BY <1>2, <2>1 DEF OneBody
<1>. QED
  BY <1>2, <1>3 DEF NoBody

\* Commands are read and nothing else happens.
LEMMA SwallowsBodied ==
  ASSUME Bodied, UNCHANGED clientVars, UNCHANGED <<s2c, srv>>,
         NoBody => NoBody', OneBody => OneBody'
  PROVE  Bodied'
<1>1. Unread' = Unread /\ (ToSend' <=> ToSend)
  BY ClientWaits DEF Unread
<1>2. ASSUME Commanded PROVE Commanded'
  BY <1>1, <1>2 DEF Commanded, NoGoAhead
<1>3. ASSUME InData PROVE InData'
  BY <1>1, <1>3 DEF InData, NoGoAhead, GoAheadLast
<1>. QED
  BY <1>1, <1>2, <1>3 DEF Bodied, Paired

\* A reply outside data mode.
LEMMA RepliesBodied ==
  ASSUME Wired, Bodied, UNCHANGED clientVars, srv.open, srv.work.mode # "data",
         NoBody => NoBody', NEW c, c.no \in Nat, NEW code \in Nat, Replies(c, code),
         DOMAIN srv'.work = Fields,
         srv'.work.mode = "data" => code = 354 /\ srv'.greeted /\ srv'.tls # "await",
         code = 354 => srv'.work.mode = "data"
  PROVE  Bodied'
<1>1. buffer' = buffer /\ (ToSend' <=> ToSend)
  BY ClientWaits
<1>2. Paired(Unread) /\ NoGoAhead(Unread) /\ NoBody' /\ ~ToSend'
  BY <1>1 DEF Bodied, Commanded
<1>3. Paired(Unread') /\ GoAheadLast(Unread') /\ (code # 354 => NoGoAhead(Unread'))
  BY <1>1, <1>2, RepliesUnread
<1>4. OneBody'
  BY <1>2 DEF NoBody, OneBody
<1>5. ASSUME srv'.work.mode # "data" PROVE Commanded'
  BY <1>2, <1>3, <1>5 DEF Commanded, NoGoAhead
<1>6. ASSUME srv'.work.mode = "data" PROVE InData'
  BY <1>2, <1>3, <1>4, <1>6 DEF InData, GoAheadLast
<1>. QED
  BY <1>3, <1>5, <1>6 DEF Bodied, Paired, Fields

LEMMA GoneBodied == ASSUME Wired, srv' = Gone(srv) PROVE Bodied'
<1>1. ~srv'.open
  BY DEF Gone, Wired
<1>. QED
  BY <1>1 DEF Bodied

\* The session after a command.
LEMMA WorkingWork ==
  ASSUME Wired, NEW w, srv' = Working(w)
  PROVE  srv'.work = w /\ srv'.greeted = srv.greeted /\ srv'.tls = srv.tls
BY DEF Wired, Working

LEMMA AcceptsBodied ==
  ASSUME Wired, Bodied, UNCHANGED clientVars, srv.open, srv.work.mode # "data",
         NoBody => NoBody', NEW c, c.no \in Nat, NEW code \in Nat, NEW w, Accepts(c, code, w),
         DOMAIN w = Fields, code # 354, w.mode # "data"
  PROVE  Bodied'
BY WorkingWork, RepliesBodied DEF Accepts

LEMMA RefusesBodied ==
  ASSUME Wired, Bodied, UNCHANGED clientVars, srv.open, srv.work.mode # "data",
         NoBody => NoBody', NEW c, c.no \in Nat, Refuses(c, srv.work)
  PROVE  Bodied'
<1>. DEFINE w == [srv.work EXCEPT !.mode = "command"]
<1>1. DOMAIN w = Fields /\ w.mode # "data"
  BY DEF Bodied, Fields
<1>2. Accepts(c, 550, w)
  BY DEF Refuses
<1>. HIDE DEF w
<1>. QED
  BY <1>1, <1>2, AcceptsBodied

\* What a command leaves of the session outside data mode.
Ordinary(v) == DOMAIN v = Fields /\ v.mode # "data"

LEMMA OrdinaryBodied ==
  ASSUME Wired, Bodied, UNCHANGED clientVars, srv.open, srv.work.mode # "data",
         NoBody => NoBody', NEW c, c.no \in Nat, NEW code \in {235, 250, 334}, NEW v,
         Accepts(c, code, v), Ordinary(v)
  PROVE  Bodied'
BY AcceptsBodied DEF Ordinary

LEMMA AcceptsCommandBodied ==
  ASSUME Wired, Bodied, UNCHANGED clientVars, srv.open, srv.greeted, srv.tls # "await",
         srv.work.mode = "command", NoBody => NoBody',
         NEW c, c.no \in Nat, AcceptsCommand(c, srv.work)
  PROVE  Bodied'
<1>. DEFINE w == srv.work
<1>1. DOMAIN w = Fields
  BY DEF Bodied, Fields
<1>2. CASE \/ Accepts(c, 250, [NoMail(w) EXCEPT !.hello = TRUE])
           \/ Accepts(c, 235, [w EXCEPT !.auth = TRUE])
           \/ Accepts(c, 334, [w EXCEPT !.mode = "username"])
           \/ Accepts(c, 250, [w EXCEPT !.from = c.call])
           \/ Accepts(c, 250, [w EXCEPT !.to = Append(@, [mail |-> c.call, rcpt |-> c.turn])])
  <2>1. ASSUME NEW code \in {235, 250, 334}, NEW v, Accepts(c, code, v), Ordinary(v) PROVE Bodied'
    BY <2>1, OrdinaryBodied
  <2>2. CASE Accepts(c, 250, [NoMail(w) EXCEPT !.hello = TRUE])
    <3>. DEFINE v == [NoMail(w) EXCEPT !.hello = TRUE]
    <3>1. Ordinary(v)
      BY <1>1 DEF Ordinary, NoMail, Fields
    <3>2. Accepts(c, 250, v)
      BY <2>2
    <3>. HIDE DEF v
    <3>. QED
      BY <2>1, <3>1, <3>2
  <2>3. CASE Accepts(c, 235, [w EXCEPT !.auth = TRUE])
    <3>. DEFINE v == [w EXCEPT !.auth = TRUE]
    <3>1. Ordinary(v)
      BY <1>1 DEF Ordinary, NoMail, Fields
    <3>2. Accepts(c, 235, v)
      BY <2>3
    <3>. HIDE DEF v
    <3>. QED
      BY <2>1, <3>1, <3>2
  <2>4. CASE Accepts(c, 334, [w EXCEPT !.mode = "username"])
    <3>. DEFINE v == [w EXCEPT !.mode = "username"]
    <3>1. Ordinary(v)
      BY <1>1 DEF Ordinary, NoMail, Fields
    <3>2. Accepts(c, 334, v)
      BY <2>4
    <3>. HIDE DEF v
    <3>. QED
      BY <2>1, <3>1, <3>2
  <2>5. CASE Accepts(c, 250, [w EXCEPT !.from = c.call])
    <3>. DEFINE v == [w EXCEPT !.from = c.call]
    <3>1. Ordinary(v)
      BY <1>1 DEF Ordinary, NoMail, Fields
    <3>2. Accepts(c, 250, v)
      BY <2>5
    <3>. HIDE DEF v
    <3>. QED
      BY <2>1, <3>1, <3>2
  <2>6. CASE Accepts(c, 250, [w EXCEPT !.to = Append(@, [mail |-> c.call, rcpt |-> c.turn])])
    <3>. DEFINE v == [w EXCEPT !.to = Append(@, [mail |-> c.call, rcpt |-> c.turn])]
    <3>1. Ordinary(v)
      BY <1>1 DEF Ordinary, NoMail, Fields
    <3>2. Accepts(c, 250, v)
      BY <2>6
    <3>. HIDE DEF v
    <3>. QED
      BY <2>1, <3>1, <3>2
  <2>. QED
    BY <1>2, <2>2, <2>3, <2>4, <2>5, <2>6
<1>3. CASE Replies(c, 220) /\ srv' = [srv EXCEPT !.tls = "await"]
  <2>1. srv'.work = srv.work
    BY <1>3 DEF Wired
  <2>. QED
    BY <1>1, <1>3, <2>1, RepliesBodied
<1>4. CASE Accepts(c, 354, [w EXCEPT !.mode = "data"])
  <2>1. srv'.work = [w EXCEPT !.mode = "data"] /\ srv'.greeted /\ srv'.tls # "await"
    BY <1>4, WorkingWork DEF Accepts
  <2>2. DOMAIN srv'.work = Fields /\ srv'.work.mode = "data"
    BY <1>1, <2>1 DEF Fields
  <2>3. Replies(c, 354)
    BY <1>4 DEF Accepts
  <2>. QED
    BY <2>1, <2>2, <2>3, RepliesBodied
<1>5. CASE srv' = Gone(srv)
  BY <1>5, GoneBodied
<1>. QED
  BY <1>2, <1>3, <1>4, <1>5 DEF AcceptsCommand

LEMMA AcceptsCredentialBodied ==
  ASSUME Wired, Bodied, UNCHANGED clientVars, srv.open, NoBody => NoBody',
         NEW c, c.no \in Nat, AcceptsCredential(c, srv.work)
  PROVE  Bodied'
<1>. DEFINE w == srv.work
<1>1. DOMAIN w = Fields
  BY DEF Bodied, Fields
<1>2. w.mode # "data"
  BY DEF AcceptsCredential
<1>3. ASSUME NEW code \in {235, 250, 334}, NEW v, Accepts(c, code, v), Ordinary(v) PROVE Bodied'
  BY <1>2, <1>3, OrdinaryBodied
<1>4. CASE Accepts(c, 334, [w EXCEPT !.mode = "password"])
  <2>. DEFINE v == [w EXCEPT !.mode = "password"]
  <2>1. Ordinary(v)
    BY <1>1, <1>2 DEF Ordinary, NoMail, Fields
  <2>2. Accepts(c, 334, v)
    BY <1>4
  <2>. HIDE DEF v
  <2>. QED
    BY <1>3, <2>1, <2>2
<1>5. CASE Accepts(c, 235, [w EXCEPT !.mode = "command", !.auth = TRUE])
  <2>. DEFINE v == [w EXCEPT !.mode = "command", !.auth = TRUE]
  <2>1. Ordinary(v)
    BY <1>1, <1>2 DEF Ordinary, NoMail, Fields
  <2>2. Accepts(c, 235, v)
    BY <1>5
  <2>. HIDE DEF v
  <2>. QED
    BY <1>3, <2>1, <2>2
<1>. QED
  BY <1>4, <1>5 DEF AcceptsCredential

\* The body takes the right to send one with it.
LEMMA TakesBodyBodied ==
  ASSUME CInv(Late), Wired, Bodied, UNCHANGED clientVars, srv.open, srv.work.mode = "data",
         c2s # <<>>, Head(c2s).verb = "dataBody", c2s' = Tail(c2s), Head(c2s).no \in Nat,
         TakesBody(Head(c2s), srv.work)
  PROVE  Bodied'
<1>1. c2s \in Seq(Commands) /\ InData /\ Paired(Unread)
  BY DEF CInv, Types, Bodied
<1>2. ~NoBody /\ NoBody'
  BY <1>1, BodyTaken DEF InData
<1>3. buffer' = buffer /\ (ToSend' <=> ToSend)
  BY ClientWaits
<1>4. NoGoAhead(Unread) /\ ~ToSend'
  BY <1>1, <1>2, <1>3 DEF InData
<1>5. PICK code \in {250, 554} : Replies(Head(c2s), code)
  BY DEF TakesBody
<1>6. Paired(Unread') /\ NoGoAhead(Unread')
  BY <1>1, <1>3, <1>4, <1>5, RepliesUnread
<1>7. srv'.work = NoMail(srv.work)
  BY WorkingWork DEF TakesBody
<1>8. DOMAIN srv'.work = Fields /\ srv'.work.mode = "command"
  BY <1>7 DEF Bodied, NoMail, Fields
<1>9. Commanded'
  BY <1>2, <1>4, <1>6 DEF Commanded, NoGoAhead
<1>. QED
  BY <1>6, <1>8, <1>9 DEF Bodied, Paired, Fields

LEMMA HandlesBodied ==
  ASSUME CInv(Late), Wired, Bodied, UNCHANGED clientVars, Handles \/ HandlesPartial
  PROVE  Bodied'
<1>1. c2s \in Seq(Commands) /\ c2s # <<>> /\ srv.open /\ srv.greeted /\ srv.tls # "await"
  BY DEF Handles, HandlesPartial, Reads, CInv, Types
<1>2. Head(c2s).no \in Nat /\ (Len(c2s) > 1 => c2s[2].no \in Nat)
  <2>1. Head(c2s) \in Commands /\ (Len(c2s) > 1 => c2s[2] \in Commands)
    BY <1>1
  <2>. QED
    BY <2>1 DEF Commands
<1>3. (NoBody => NoBody') /\ (OneBody => OneBody')
  <2>1. \/ c2s # <<>> /\ c2s' = Tail(c2s)
        \/ Len(c2s) > 1 /\ c2s' = Tail(Tail(c2s))
    BY <1>1 DEF Handles, HandlesPartial
  <2>. QED
    BY <1>1, <2>1, TakenBodies
<1>4. ASSUME UNCHANGED <<s2c, serverVars>> PROVE Bodied'
  BY <1>3, <1>4, SwallowsBodied DEF serverVars
<1>5. CASE Handles
  <2>. DEFINE c == Head(c2s)
  <2>1. CASE srv.work.mode # "data" /\ Refuses(c, srv.work)
    BY <1>1, <1>2, <1>3, <2>1, RefusesBodied
  <2>2. CASE srv.work.mode = "command" /\ AcceptsCommand(c, srv.work)
    BY <1>1, <1>2, <1>3, <2>2, AcceptsCommandBodied
  <2>3. CASE AcceptsCredential(c, srv.work)
    BY <1>1, <1>2, <1>3, <2>3, AcceptsCredentialBodied
  <2>4. CASE srv.work.mode = "data" /\ c.verb = "dataBody" /\ TakesBody(c, srv.work)
    <3>1. c2s' = Tail(c2s)
      BY <1>5 DEF Handles
    <3>. QED
      BY <1>1, <1>2, <2>4, <3>1, TakesBodyBodied
  <2>. QED
    BY <1>4, <1>5, <2>1, <2>2, <2>3, <2>4 DEF Handles
<1>6. CASE HandlesPartial
  <2>1. CASE srv.work.mode # "data" /\ Len(c2s) > 1 /\ Refuses(c2s[2], srv.work)
    BY <1>1, <1>2, <1>3, <2>1, RefusesBodied
  <2>. QED
    BY <1>4, <1>6, <2>1 DEF HandlesPartial
<1>. QED
  BY <1>5, <1>6

LEMMA ServerBodied ==
  ASSUME CInv(Late), Wired, Bodied, UNCHANGED clientVars, Serves \/ Leaves PROVE Bodied'
<1>1. CASE Greets
  <2>1. PICK code \in {220, 554} : Replies([no |-> 0], code)
    BY <1>1 DEF Greets
  <2>2. srv.open /\ srv.work.mode # "data" /\ DOMAIN srv.work = Fields
    BY <1>1 DEF Greets, Bodied, InData, Fields
  <2>3. srv'.work = srv.work
    BY <1>1 DEF Greets, Wired
  <2>4. NoBody => NoBody'
    BY <1>1 DEF Greets, NoBody
  <2>. QED
    BY <2>1, <2>2, <2>3, <2>4, RepliesBodied
<1>2. CASE JoinsPartials
  <2>1. c2s \in Seq(Commands) /\ c2s # <<>> /\ c2s' = Tail(c2s) /\ UNCHANGED <<s2c, srv>>
    BY <1>2 DEF JoinsPartials, Reads, serverVars, CInv, Types
  <2>. QED
    BY <2>1, TakenBodies, SwallowsBodied
<1>3. CASE AbortsHandshake \/ Shutdown \/ Crash
  BY <1>3, GoneBodied DEF AbortsHandshake, Shutdown, Crash
<1>. QED
  BY <1>1, <1>2, <1>3, HandlesBodied DEF Serves, Leaves
-----------------------------------------------------------------------------
\* A connection begins or is encrypted: nothing is unread, nothing in flight
\* is a body.
LEMMA DialsBodied == ASSUME Dials PROVE Bodied'
<1>1. buffer' = <<>> /\ s2c' = <<>> /\ c2s' = <<>> /\ step' # "dataBody"
  BY DEF Dials, DialsTo, DialSucceeds, Proceed, NextStep, AfterDial
<1>2. srv'.work = NewWork
  BY DEF Dials, DialsTo, Fresh
<1>3. Unread' = <<>> /\ NoBody' /\ ~ToSend'
  BY <1>1 DEF Unread, NoBody, ToSend
<1>4. Paired(<<>>) /\ NoGoAhead(<<>>)
  BY DEF Paired, NoGoAhead
<1>5. Commanded' /\ Paired(Unread')
  BY <1>3, <1>4 DEF Commanded
<1>. QED
  BY <1>2, <1>5 DEF Bodied, NewWork

LEMMA UpgradesBodied == ASSUME Wired, Bodied, Upgrades PROVE Bodied'
<1>1. buffer' = <<>> /\ s2c' = <<>> /\ c2s' = c2s /\ step' # "dataBody"
  BY DEF Upgrades, UpgradesTo, UpgradeSucceeds, Proceed, Return, NextStep, AfterDial,
     AfterGreeting, RcptsLeft, wire
<1>2. srv'.work = NewWork
  BY DEF Upgrades, UpgradesTo, Secured, Wired
<1>3. NoBody
  BY DEF Upgrades, UpgradesTo, Bodied, Commanded, InData
<1>4. Unread' = <<>> /\ NoBody' /\ ~ToSend'
  BY <1>1, <1>3 DEF Unread, NoBody, ToSend
<1>5. Paired(<<>>) /\ NoGoAhead(<<>>)
  BY DEF Paired, NoGoAhead
<1>6. Commanded' /\ Paired(Unread')
  BY <1>4, <1>5 DEF Commanded
<1>. QED
  BY <1>2, <1>6 DEF Bodied, NewWork

LEMMA NextBodied == ASSUME CInv(Late), Wired, Bodied, [Next]_vars PROVE Bodied'
<1>1. CASE Dials
  BY <1>1, DialsBodied
<1>2. CASE DialFailed \/ Closes
  BY <1>2, GoneBodied DEF DialFailed, Closes
<1>3. CASE Upgrades
  BY <1>3, UpgradesBodied
<1>4. CASE ClientStep
  <2>1. srv' = srv
    BY <1>4 DEF ClientStep, Continues, serverVars
  <2>2. CASE Continues
    BY <2>1, <2>2, ContinuesBodied
  <2>3. CASE RecvFails
    <3>1. c2s' = c2s /\ s2c' = s2c /\ buffer' = <<>> /\ step' = "done"
      BY <2>3 DEF RecvFails, GiveUp, Return, wire
    <3>. QED
      BY <2>1, <3>1, NotDone, AllUnread, EndsBodied
  <2>. QED
    BY <1>4, <2>1, <2>2, <2>3, CallsBodied DEF ClientStep
<1>5. CASE ServerStep
  BY <1>5, ServerBodied DEF ServerStep
<1>6. CASE UNCHANGED vars \/ TakesLate
  <2>1. UNCHANGED clientVars /\ UNCHANGED <<c2s, s2c, srv>>
    BY <1>6 DEF vars, mailVars, wire, serverVars, TakesLate
  <2>2. (NoBody => NoBody') /\ (OneBody => OneBody')
    BY <2>1 DEF NoBody, OneBody
  <2>. QED
    BY <2>1, <2>2, SwallowsBodied
<1>. QED
  BY <1>1, <1>2, <1>3, <1>4, <1>5, <1>6 DEF Next, Departs

LEMMA InitBodied == ASSUME Init PROVE Bodied
<1>1. ~srv.open
  BY DEF Init, SessionInit, ServerInit, Gone, Fresh
<1>. QED
  BY <1>1 DEF Bodied

LEMMA BodiedIsEnough == ASSUME CInv(Late), Bodied PROVE BodyNeverReadAsCommands
<1>. SUFFICES ASSUME srv.open, c2s # <<>>, Head(c2s).verb = "dataBody", srv.work.mode # "data"
              PROVE  FALSE
  BY DEF BodyNeverReadAsCommands
<1>1. 1 \in DOMAIN c2s /\ c2s[1].verb = "dataBody"
  BY DEF CInv, Types
<1>. QED
  BY <1>1 DEF Bodied, Commanded, NoBody

\* The text of a message reaches the server in data mode or not at all,
\* however many timeouts, failed sends and late replies there were before it.
THEOREM SmtpBodyNeverReadAsCommands == Spec => []BodyNeverReadAsCommands
<1>1. CInv(Late) /\ Wired /\ Bodied /\ [Next]_vars => CInv(Late)' /\ Wired' /\ Bodied'
  BY NextSmtp, NextWired, NextBodied
<1>2. Init => CInv(Late) /\ Wired /\ Bodied
  BY InitSmtp, InitWired, InitBodied
<1>3. CInv(Late) /\ Bodied => BodyNeverReadAsCommands
  BY BodiedIsEnough
<1>. QED
  BY <1>1, <1>2, <1>3, PTL DEF Spec
-----------------------------------------------------------------------------
(***************************************************************************)
(* How far a reply that is read can be behind the last command, for any    *)
(* number of calls, replies of any length and any number of reads and      *)
(* sends given up.  The invariant numbers everything on the connection:    *)
(* replies are read in the order of their commands, each at most once, and *)
(* the oldest of them is behind by no more than what was given up.         *)
(***************************************************************************)

\* The pieces of lines are every second one the end of its line.
Alternates(s) == \E b \in 0..1 : \A i \in 1..Len(s) : s[i].crlf <=> (i + b) % 2 = 0

\* A line that is not the server's goodbye, which nothing follows.
Asked(p) == p.line.code # 421

\* Replies are in the order of their commands, and one reply for each.
Ordered(s) ==
  \A i, j \in 1..Len(s) : i < j /\ Asked(s[j]) =>
    /\ Asked(s[i]) /\ s[i].line.re <= s[j].line.re
    /\ s[i].crlf /\ s[i].line.last => s[i].line.re < s[j].line.re

\* The command whose reply is waited for, or the next one.
Awaited == IF reading THEN cmds ELSE cmds + 1

\* A command or a reply that is behind by no more than what was given up.
Near(n) == n + lost >= Awaited

Bounded(s) == \A i \in 1..Len(s) : Asked(s[i]) => s[i].line.re <= cmds /\ Near(s[i].line.re)

\* While the server reads: the commands it will answer come after all replies.
Queued ==
  /\ ~srv.greeted => Unread = <<>> /\ Near(0)
  /\ \A i \in 1..Len(Unread) : Asked(Unread[i])
  /\ \A i \in 1..Len(c2s) : c2s[i].whole =>
       /\ c2s[i].no \in 1..cmds /\ Near(c2s[i].no)
       /\ \A j \in 1..Len(c2s) : j < i /\ c2s[j].whole => c2s[j].no < c2s[i].no
       /\ \A j \in 1..Len(Unread) : Unread[j].line.re < c2s[i].no

\* The reply that was read last.
Replied ==
  /\ step = "greeting" => reply = <<>>
  /\ reply # <<>> => Head(reply) \in Lines
  /\ chan # "Closed" /\ reply # <<>> /\ LastCode # 421 =>
       Head(reply).re <= cmds /\ Near(Head(reply).re + 1)

Lagging ==
  /\ Alternates(Unread) /\ Ordered(Unread) /\ Bounded(Unread)
  /\ srv.open => Queued
  /\ Replied
-----------------------------------------------------------------------------
LEMMA RestIsLag ==
  ASSUME NEW s \in Seq(Parts), NEW t \in Seq(Parts), NEW k \in 0..Len(s), RestOf(t, s, k)
  PROVE  (Alternates(s) => Alternates(t)) /\ (Ordered(s) => Ordered(t))
<1>1. \A i \in 1..Len(t) : i + k \in 1..Len(s) /\ t[i] = s[i + k]
  BY DEF RestOf
<1>2. ASSUME Alternates(s) PROVE Alternates(t)
  <2>1. PICK b \in 0..1 : \A i \in 1..Len(s) : s[i].crlf <=> (i + b) % 2 = 0
    BY <1>2 DEF Alternates
  <2>. DEFINE c == (b + k) % 2
  <2>2. c \in 0..1
    OBVIOUS
  <2>3. \A i \in 1..Len(t) : (i + k + b) % 2 = 0 <=> (i + c) % 2 = 0
    <3>1. k \in Nat /\ b \in Nat /\ \A i \in 1..Len(t) : i \in Nat
      OBVIOUS
    <3>2. \A i \in Nat : (i + k + b) % 2 = 0 <=> (i + ((b + k) % 2)) % 2 = 0
      BY <3>1
    <3>. QED
      BY <3>1, <3>2
  <2>. HIDE DEF c
  <2>4. \A i \in 1..Len(t) : t[i].crlf <=> (i + c) % 2 = 0
    BY <1>1, <2>1, <2>3
  <2>. QED
    BY <2>2, <2>4 DEF Alternates
<1>3. ASSUME Ordered(s) PROVE Ordered(t)
  <2>1. SUFFICES ASSUME NEW i \in 1..Len(t), NEW j \in 1..Len(t), i < j, Asked(t[j])
                 PROVE  /\ Asked(t[i]) /\ t[i].line.re <= t[j].line.re
                        /\ t[i].crlf /\ t[i].line.last => t[i].line.re < t[j].line.re
    BY DEF Ordered
  <2>2. i + k < j + k /\ i + k \in 1..Len(s) /\ j + k \in 1..Len(s)
        /\ t[i] = s[i + k] /\ t[j] = s[j + k]
    BY <1>1, <2>1
  <2>. QED
    BY <1>3, <2>1, <2>2 DEF Ordered
<1>. QED
  BY <1>2, <1>3

LEMMA NumberOfPart == ASSUME NEW s \in Seq(Parts), NEW i \in 1..Len(s) PROVE s[i].line.re \in Nat
BY LineOfPart DEF Lines

LEMMA Numbers == ASSUME CInv(Late) PROVE cmds \in Nat /\ lost \in Nat /\ Awaited \in Nat
BY DEF CInv, Types, Counts, Awaited

\* What was given up makes up for what is waited for.
LEMMA StaysNear ==
  ASSUME CInv(Late), lost' \in Nat, Awaited' \in Nat, Awaited' + lost <= Awaited + lost',
         NEW n \in Nat, Near(n)
  PROVE  n + lost' >= Awaited'
<1>1. \A a, b, c, d, x \in Nat : c + b <= a + d /\ x + b >= a => x + d >= c
  OBVIOUS
<1>2. Awaited \in Nat /\ lost \in Nat /\ n + lost >= Awaited
  BY Numbers DEF Near
<1>. QED
  BY <1>1, <1>2

\* Nothing is sent and nothing becomes readable.
LEMMA QuietLag ==
  ASSUME CInv(Late), Wired, Lagging, c2s \in Seq(Commands), UNCHANGED <<c2s, reply>>, cmds' = cmds,
         lost' \in Nat, Awaited' \in Nat, Awaited' + lost <= Awaited + lost',
         srv'.open => srv.open, srv'.open => (srv'.greeted <=> srv.greeted),
         chan' # "Closed" => chan # "Closed", step' = "greeting" => step = "greeting",
         Unread' \in Seq(Parts), NEW k \in 0..Len(Unread), RestOf(Unread', Unread, k)
  PROVE  Lagging'
<1>1. Unread \in Seq(Parts) /\ \A i \in 1..Len(Unread') : i + k \in 1..Len(Unread) /\ Unread'[i] = Unread[i + k]
  BY UnreadType DEF RestOf
<1>2. Alternates(Unread') /\ Ordered(Unread')
  BY <1>1, RestIsLag DEF Lagging
<1>3. Bounded(Unread)'
  <2>1. SUFFICES ASSUME NEW i \in 1..Len(Unread'), Asked(Unread'[i])
                 PROVE  Unread'[i].line.re <= cmds /\ Unread'[i].line.re + lost' >= Awaited'
    BY DEF Bounded, Near, Asked
  <2>2. Unread[i + k].line.re <= cmds /\ Near(Unread[i + k].line.re)
    BY <1>1, <2>1 DEF Lagging, Bounded
  <2>3. Unread[i + k].line.re \in Nat
    BY <1>1, NumberOfPart
  <2>. QED
    BY <1>1, <2>2, <2>3, StaysNear
<1>4. ASSUME srv'.open PROVE Queued'
  <2>1. Queued
    BY <1>4 DEF Lagging
  <2>2. ASSUME ~srv'.greeted PROVE Unread' = <<>> /\ 0 + lost' >= Awaited'
    <3>1. Unread = <<>> /\ Near(0) /\ 0 \in Nat
      BY <1>4, <2>1, <2>2 DEF Queued
    <3>2. Len(Unread') = 0
      BY <3>1 DEF RestOf
    <3>3. Unread' = <<>>
      BY <3>2
    <3>4. 0 + lost' >= Awaited'
      BY <3>1, StaysNear
    <3>. QED
      BY <3>3, <3>4
  <2>3. \A i \in 1..Len(Unread') : Asked(Unread'[i])
    BY <1>1, <2>1 DEF Queued
  <2>4. ASSUME NEW i \in 1..Len(c2s), c2s[i].whole
        PROVE  /\ c2s[i].no \in 1..cmds /\ c2s[i].no + lost' >= Awaited'
               /\ \A j \in 1..Len(c2s) : j < i /\ c2s[j].whole => c2s[j].no < c2s[i].no
               /\ \A j \in 1..Len(Unread') : Unread'[j].line.re < c2s[i].no
    <3>1. /\ c2s[i].no \in 1..cmds /\ Near(c2s[i].no)
          /\ \A j \in 1..Len(c2s) : j < i /\ c2s[j].whole => c2s[j].no < c2s[i].no
          /\ \A j \in 1..Len(Unread) : Unread[j].line.re < c2s[i].no
      BY <2>1, <2>4 DEF Queued
    <3>2. c2s[i].no \in Nat
      BY <3>1, Numbers
    <3>3. c2s[i].no + lost' >= Awaited'
      BY <3>1, <3>2, StaysNear
    <3>. QED
      BY <1>1, <3>1, <3>3
  <2>. QED
    BY <2>2, <2>3, <2>4 DEF Queued, Near, Asked
<1>5. Replied'
  <2>1. (step' = "greeting" => reply' = <<>>) /\ (reply' # <<>> => Head(reply') \in Lines)
    BY DEF Lagging, Replied
  <2>2. ASSUME chan' # "Closed", reply # <<>>, LastCode # 421
        PROVE  Head(reply).re <= cmds /\ Head(reply).re + 1 + lost' >= Awaited'
    <3>1. Head(reply).re <= cmds /\ Near(Head(reply).re + 1) /\ Head(reply).re + 1 \in Nat
      BY <2>2 DEF Lagging, Replied, Lines
    <3>. QED
      BY <3>1, StaysNear
  <2>3. LastCode' = LastCode
    BY DEF LastCode
  <2>. QED
    BY <2>1, <2>2, <2>3 DEF Replied, Near
<1>. QED
  BY <1>2, <1>3, <1>4, <1>5 DEF Lagging, Alternates, Ordered, Asked
-----------------------------------------------------------------------------
(* The client's steps                                                      *)

\* The end of a call.
LEMMA EndsLag ==
  ASSUME CInv(Late), Wired, Lagging, srv' = srv, UNCHANGED <<c2s, reply, chan, cmds>>,
         buffer' = <<>>, step' = "done", ~reading',
         lost' = lost + 1 \/ (lost' = lost /\ ~reading),
         NEW n \in 0..Len(s2c), s2c' \in Seq(Parts), RestOf(s2c', s2c, n)
  PROVE  Lagging'
<1>1. RestOf(Unread', Unread, Len(buffer) + n)
  BY DroppedUnread
<1>2. Unread' \in Seq(Parts) /\ Len(buffer) + n \in 0..Len(Unread)
  BY UnreadType DEF Wired, Unread
<1>3. Awaited' = cmds + 1 /\ (reading => Awaited = cmds) /\ (~reading => Awaited = cmds + 1)
  BY DEF Awaited
<1>4. lost' \in Nat /\ Awaited' \in Nat /\ Awaited' + lost <= Awaited + lost'
  BY <1>3, Numbers
<1>5. c2s \in Seq(Commands)
  BY DEF CInv, Types
<1>. QED
  BY <1>1, <1>2, <1>4, <1>5, QuietLag

LEMMA GiveUpLag ==
  ASSUME CInv(Late), Wired, Lagging, srv' = srv, NEW kind, GiveUp(kind), UNCHANGED <<c2s, chan>>,
         s2c' = s2c \/ \E chunk \in Chunks : s2c' = After(chunk)
  PROVE  Lagging'
<1>1. /\ buffer' = <<>> /\ step' = "done" /\ ~reading' /\ lost' = lost + 1
      /\ UNCHANGED <<reply, cmds>>
  BY DEF GiveUp, Return
<1>2. PICK n \in 0..Len(s2c) : s2c' \in Seq(Parts) /\ RestOf(s2c', s2c, n)
  BY AllUnread, ChunkTaken
<1>. QED
  BY <1>1, <1>2, EndsLag

LEMMA ReturnLag ==
  ASSUME CInv(Late), Wired, Lagging, srv' = srv, ~reading, NEW kind, NEW code, Return(kind, code),
         UNCHANGED <<c2s, s2c, chan, reply, cmds, lost>>
  PROVE  Lagging'
<1>1. buffer' = <<>> /\ step' = "done" /\ ~reading'
  BY DEF Return
<1>2. PICK n \in 0..Len(s2c) : s2c' \in Seq(Parts) /\ RestOf(s2c', s2c, n)
  BY AllUnread
<1>. QED
  BY <1>1, <1>2, EndsLag

\* A step that leaves the wire and the numbers alone.
LEMMA SameLag ==
  ASSUME CInv(Late), Wired, Lagging, srv' = srv, UNCHANGED <<c2s, reply, chan, cmds, lost, reading>>,
         Unread' = Unread, step' = "greeting" => step = "greeting"
  PROVE  Lagging'
<1>1. Awaited' = Awaited
  BY DEF Awaited
<1>2. lost' \in Nat /\ Awaited' \in Nat /\ Awaited' + lost <= Awaited + lost'
  BY <1>1, Numbers
<1>3. c2s \in Seq(Commands)
  BY DEF CInv, Types
<1>. QED
  BY <1>2, <1>3, SameUnread, QuietLag

\* A command is sent, or the beginning of one.
LEMMA SentLag ==
  ASSUME CInv(Late), Wired, Lagging, srv' = srv, Sends, NEW c, c2s' = Append(c2s, c),
         c.whole => c.no = cmds + 1 /\ cmds' = cmds + 1, cmds' \in {cmds, cmds + 1},
         lost' \in {lost, lost + 1}, Awaited' = cmds + 1, step' # "greeting",
         UNCHANGED <<reply, chan>>, Unread' = Unread
  PROVE  Lagging'
<1>1. cmds \in Nat /\ lost \in Nat /\ Awaited = cmds + 1
  BY Numbers DEF Sends, Awaited
<1>2. \A n \in Nat : n <= cmds => n <= cmds'
  BY <1>1
<1>3. \A n \in Nat : Near(n) => n + lost' >= Awaited'
  <2>1. \A n \in Nat : Near(n) => n + lost >= cmds + 1
    BY <1>1 DEF Near
  <2>2. lost' \in Nat /\ lost' >= lost /\ Awaited' = cmds + 1
    BY <1>1
  <2>3. \A l, m, k, n \in Nat : n + l >= k + 1 /\ m >= l => n + m >= k + 1
    OBVIOUS
  <2>. QED
    BY <1>1, <2>1, <2>2, <2>3
<1>4. \A i \in 1..Len(Unread) : Unread[i].line.re \in Nat
  BY UnreadType, NumberOfPart
<1>5. Bounded(Unread)'
  <2>1. SUFFICES ASSUME NEW i \in 1..Len(Unread), Asked(Unread[i])
                 PROVE  Unread[i].line.re <= cmds' /\ Unread[i].line.re + lost' >= Awaited'
    BY DEF Bounded, Near, Asked
  <2>2. Unread[i].line.re <= cmds /\ Near(Unread[i].line.re) /\ Unread[i].line.re \in Nat
    BY <1>4, <2>1 DEF Lagging, Bounded
  <2>. QED
    BY <1>2, <1>3, <2>2
<1>6. ASSUME srv.open PROVE Queued'
  <2>1. Queued
    BY <1>6 DEF Lagging
  <2>2. c2s \in Seq(Commands)
    BY DEF CInv, Types
  <2>3. Len(c2s') = Len(c2s) + 1 /\ (\A i \in 1..Len(c2s) : c2s'[i] = c2s[i])
        /\ c2s'[Len(c2s) + 1] = c /\ Len(c2s) \in Nat
    BY <2>2
  <2>4. ASSUME NEW i \in 1..Len(c2s'), c2s'[i].whole
        PROVE  /\ c2s'[i].no \in 1..cmds' /\ c2s'[i].no + lost' >= Awaited'
               /\ \A j \in 1..Len(c2s') : j < i /\ c2s'[j].whole => c2s'[j].no < c2s'[i].no
               /\ \A j \in 1..Len(Unread) : Unread[j].line.re < c2s'[i].no
    <3>1. CASE i \in 1..Len(c2s)
      <4>1. c2s'[i] = c2s[i] /\ \A j \in 1..Len(c2s') : j < i => j \in 1..Len(c2s) /\ c2s'[j] = c2s[j]
        BY <2>3, <3>1
      <4>2. /\ c2s[i].no \in 1..cmds /\ Near(c2s[i].no)
            /\ \A j \in 1..Len(c2s) : j < i /\ c2s[j].whole => c2s[j].no < c2s[i].no
            /\ \A j \in 1..Len(Unread) : Unread[j].line.re < c2s[i].no
        BY <2>1, <2>4, <3>1, <4>1 DEF Queued
      <4>3. c2s[i].no \in Nat /\ c2s[i].no >= 1 /\ c2s[i].no <= cmds
        BY <1>1, <4>2
      <4>4. c2s[i].no + lost' >= Awaited' /\ c2s[i].no <= cmds'
        BY <1>2, <1>3, <4>2, <4>3
      <4>5. c2s[i].no \in 1..cmds'
        <5>1. cmds' \in Nat
          BY <1>1
        <5>. QED
          BY <4>3, <4>4, <5>1
      <4>. QED
        BY <4>1, <4>2, <4>4, <4>5
    <3>2. CASE i = Len(c2s) + 1
      <4>1. c2s'[i].no = cmds + 1 /\ cmds' = cmds + 1
        BY <2>3, <2>4, <3>2
      <4>2. \A j \in 1..Len(c2s') : j < i => j \in 1..Len(c2s) /\ c2s'[j] = c2s[j]
        BY <2>3, <3>2
      <4>3. \A j \in 1..Len(c2s) : c2s[j].whole => c2s[j].no < cmds + 1
        <5>1. \A j \in 1..Len(c2s) : c2s[j].whole => c2s[j].no \in 1..cmds
          BY <2>1 DEF Queued
        <5>. QED
          BY <1>1, <5>1
      <4>4. \A j \in 1..Len(Unread) : Unread[j].line.re < cmds + 1
        <5>1. \A j \in 1..Len(Unread) : Unread[j].line.re <= cmds
          BY <2>1 DEF Queued, Lagging, Bounded
        <5>. QED
          BY <1>1, <1>4, <5>1
      <4>5. c2s'[i].no \in 1..cmds'
        BY <1>1, <4>1
      <4>8. c2s'[i].no + lost' >= Awaited'
        <5>1. lost' \in Nat
          BY <1>1
        <5>2. \A x, y \in Nat : x + 1 + y >= x + 1
          OBVIOUS
        <5>. QED
          BY <1>1, <4>1, <5>1, <5>2
      <4>6. \A j \in 1..Len(c2s') : j < i /\ c2s'[j].whole => c2s'[j].no < c2s'[i].no
        BY <4>1, <4>2, <4>3
      <4>7. \A j \in 1..Len(Unread) : Unread[j].line.re < c2s'[i].no
        BY <4>1, <4>4
      <4>. QED
        BY <4>5, <4>8, <4>6, <4>7
    <3>. QED
      BY <2>3, <3>1, <3>2
  <2>5. ~srv.greeted => 0 + lost' >= Awaited'
    BY <1>3, <2>1 DEF Queued
  <2>. QED
    BY <2>1, <2>4, <2>5 DEF Queued, Near, Asked
<1>7. Replied'
  <2>1. (step' = "greeting" => reply' = <<>>) /\ (reply' # <<>> => Head(reply') \in Lines)
    BY DEF Lagging, Replied
  <2>2. ASSUME chan # "Closed", reply # <<>>, LastCode # 421
        PROVE  Head(reply).re <= cmds' /\ Head(reply).re + 1 + lost' >= Awaited'
    <3>1. Head(reply).re <= cmds /\ Near(Head(reply).re + 1) /\ Head(reply).re \in Nat
      BY <2>2 DEF Lagging, Replied, Lines
    <3>. QED
      BY <1>2, <1>3, <3>1
  <2>3. LastCode' = LastCode
    BY DEF LastCode
  <2>. QED
    BY <2>1, <2>2, <2>3 DEF Replied, Near
<1>. QED
  BY <1>5, <1>6, <1>7 DEF Lagging, Alternates, Ordered, Asked

LEMMA CommandFields ==
  ASSUME NEW t, NEW w
  PROVE  Command(Verb, t, w).no = cmds + 1 /\ Command(Verb, t, w).whole = w
BY DEF Command

LEMMA SendsLag ==
  ASSUME CInv(Late), Wired, Lagging, srv' = srv,
         SendCommand(Verb, Turn) \/ SendFails(Verb, Turn)
  PROVE  Lagging'
<1>1. CASE SendCommand(Verb, Turn)
  <2>1. /\ Unread' = Unread /\ Sends /\ reading' /\ UNCHANGED <<reply, chan, lost, step>>
        /\ cmds' = cmds + 1 /\ c2s' = Append(c2s, Command(Verb, Turn, TRUE))
    BY <1>1 DEF SendCommand, Unread
  <2>2. Awaited' = cmds + 1 /\ step' # "greeting"
    BY <2>1 DEF Awaited, Sends
  <2>. QED
    BY <2>1, <2>2, CommandFields, SentLag
<1>2. CASE SendFails(Verb, Turn)
  <2>1. /\ s2c' = s2c /\ buffer' = <<>> /\ step' = "done" /\ ~reading' /\ Sends
        /\ UNCHANGED <<reply, chan, cmds>> /\ lost' = lost + 1 /\ GiveUp("SendError")
        /\ (c2s' = c2s \/ c2s' = Append(c2s, Command(Verb, Turn, FALSE)))
    BY <1>2 DEF SendFails, GiveUp, Return
  <2>2. Unread' = Unread /\ Awaited' = cmds + 1
    BY <2>1 DEF Wired, Sends, Unread, Awaited
  <2>3. CASE c2s' = c2s
    BY <2>1, <2>3, GiveUpLag
  <2>4. CASE c2s' = Append(c2s, Command(Verb, Turn, FALSE))
    BY <2>1, <2>2, <2>4, CommandFields, SentLag
  <2>. QED
    BY <2>1, <2>3, <2>4
<1>. QED
  BY <1>1, <1>2

\* A reply is taken: everything behind its last line answers later commands.
LEMMA TakenReply ==
  ASSUME Wired, Lagging, NEW chunk \in Chunks, Complete(buffer \o chunk)
  PROVE  \E m \in Nat :
           /\ 2 * m \in 1..Len(Unread) /\ 2 * m <= Len(buffer \o chunk)
           /\ Unread[2 * m].crlf /\ Unread[2 * m].line.last
           /\ 2 \in 1..Len(Unread)
           /\ Head(ReplyIn(buffer \o chunk)) = Unread[2].line
           /\ Unread[2 * m].line.code = Unread[2].line.code
<1>1. /\ After(chunk) \in Seq(Parts) /\ Len(buffer \o chunk) \in Nat
      /\ Len(Unread) = Len(buffer \o chunk) + Len(After(chunk))
      /\ ~Unread[1].crlf
  BY ReplyInUnread
<1>2. PICK m \in Nat :
        /\ 2 * m \in 2..Len(buffer \o chunk)
        /\ Head(ReplyIn(buffer \o chunk)) = Unread[2].line
        /\ Unread[2 * m].line.last /\ Unread[2 * m].line.code = Unread[2].line.code
  BY ReplyInUnread
<1>3. Len(After(chunk)) \in Nat
  BY <1>1
<1>4. Len(Unread) \in Nat /\ 1 \in 1..Len(Unread) /\ 2 \in 1..Len(Unread) /\ 2 * m \in 1..Len(Unread)
  BY <1>1, <1>2, <1>3
<1>5. Unread[2 * m].crlf
  <2>1. PICK b \in 0..1 : \A i \in 1..Len(Unread) : Unread[i].crlf <=> (i + b) % 2 = 0
    BY DEF Lagging, Alternates
  <2>2. ~((1 + b) % 2 = 0)
    BY <1>1, <1>4, <2>1
  <2>3. b = 0
    BY <2>2
  <2>4. (2 * m + b) % 2 = 0
    BY <2>3
  <2>. QED
    BY <1>4, <2>1, <2>4
<1>. QED
  BY <1>1, <1>2, <1>4, <1>5

LEMMA TakesLag ==
  ASSUME CInv(Late), Wired, Lagging, srv' = srv, reading, NEW chunk \in Chunks,
         Complete(buffer \o chunk), Takes(chunk, ReplyIn(buffer \o chunk)),
         buffer' = <<>>, ~reading', step' # "greeting"
  PROVE  Lagging'
<1>1. PICK m \in Nat :
        /\ 2 * m \in 1..Len(Unread) /\ 2 * m <= Len(buffer \o chunk)
        /\ Unread[2 * m].crlf /\ Unread[2 * m].line.last
        /\ 2 \in 1..Len(Unread)
        /\ Head(ReplyIn(buffer \o chunk)) = Unread[2].line
        /\ Unread[2 * m].line.code = Unread[2].line.code
  BY TakenReply
<1>2. /\ UNCHANGED <<chan, cmds, lost, c2s>> /\ s2c' = After(chunk)
      /\ reply' = ReplyIn(buffer \o chunk)
  BY DEF Takes
<1>3. cmds \in Nat /\ lost \in Nat /\ Awaited = cmds /\ Awaited' = cmds + 1
  BY <1>2, Numbers DEF Awaited
<1>. DEFINE k == Len(buffer) + Len(chunk)
<1>4. /\ k \in 0..Len(Unread) /\ RestOf(Unread', Unread, k) /\ Unread' \in Seq(Parts)
      /\ Unread \in Seq(Parts) /\ 2 * m <= k
  <2>1. Len(chunk) \in 0..Len(s2c) /\ s2c' \in Seq(Parts) /\ RestOf(s2c', s2c, Len(chunk))
    BY <1>2, ChunkTaken
  <2>2. RestOf(Unread', Unread, k)
    BY <2>1, DroppedUnread
  <2>3. Unread' = s2c'
    BY DEF Unread
  <2>4. Len(buffer \o chunk) = k
    <3>1. chunk \in Seq(Parts) /\ buffer \in Seq(Parts)
      BY ChunkOfStream DEF Wired
    <3>. QED
      BY <3>1
  <2>5. k \in 0..Len(Unread)
    BY <2>1, UnreadType DEF Wired
  <2>. QED
    BY <1>1, <2>1, <2>2, <2>3, <2>4, <2>5, UnreadType
<1>. HIDE DEF k
<1>5. \A i \in 1..Len(Unread') : i + k \in 1..Len(Unread) /\ Unread'[i] = Unread[i + k] /\ 2 * m < i + k
  <2>1. k \in Nat /\ 2 * m \in Nat
    BY <1>1, <1>4
  <2>2. \A i \in 1..Len(Unread') : i + k \in 1..Len(Unread) /\ Unread'[i] = Unread[i + k]
    BY <1>4 DEF RestOf
  <2>3. \A i \in 1..Len(Unread') : 2 * m < i + k
    BY <1>4, <2>1
  <2>. QED
    BY <2>2, <2>3
<1>6. Alternates(Unread') /\ Ordered(Unread')
  BY <1>4, RestIsLag DEF Lagging
<1>. DEFINE e == Unread[2 * m].line.re
<1>7. e \in Nat /\ (Asked(Unread[2 * m]) => e + lost >= cmds)
  <2>1. e \in Nat
    BY <1>1, <1>4, NumberOfPart
  <2>2. Asked(Unread[2 * m]) => Near(e)
    BY <1>1 DEF Lagging, Bounded
  <2>. QED
    BY <1>3, <2>1, <2>2 DEF Near
<1>. HIDE DEF e
<1>8. Bounded(Unread)'
  <2>1. SUFFICES ASSUME NEW i \in 1..Len(Unread'), Asked(Unread'[i])
                 PROVE  Unread'[i].line.re <= cmds /\ Unread'[i].line.re + lost >= cmds + 1
    BY <1>2, <1>3 DEF Bounded, Near, Asked
  <2>. DEFINE r == Unread[i + k].line.re
  <2>2. Asked(Unread[i + k]) /\ i + k \in 1..Len(Unread) /\ 2 * m < i + k
    BY <1>5, <2>1
  <2>3. Asked(Unread[2 * m]) /\ e < r
    BY <1>1, <2>2 DEF Lagging, Ordered, e
  <2>4. r \in Nat /\ r <= cmds
    BY <1>4, <2>2, NumberOfPart DEF Lagging, Bounded
  <2>5. Unread'[i].line.re = r
    BY <1>5
  <2>. HIDE DEF r
  <2>6. r + lost >= cmds + 1
    BY <1>3, <1>7, <2>3, <2>4
  <2>. QED
    BY <2>4, <2>5, <2>6
<1>9. ASSUME srv.open PROVE Queued'
  <2>1. Queued
    BY <1>9 DEF Lagging
  <2>2. srv.greeted
    <3>1. Unread # <<>>
      BY <1>1, <1>4
    <3>. QED
      BY <2>1, <3>1 DEF Queued
  <2>3. \A i \in 1..Len(Unread') : Asked(Unread'[i])
    BY <1>5, <2>1 DEF Queued
  <2>4. ASSUME NEW i \in 1..Len(c2s), c2s[i].whole
        PROVE  /\ c2s[i].no \in 1..cmds /\ c2s[i].no + lost >= cmds + 1
               /\ \A j \in 1..Len(c2s) : j < i /\ c2s[j].whole => c2s[j].no < c2s[i].no
               /\ \A j \in 1..Len(Unread') : Unread'[j].line.re < c2s[i].no
    <3>1. /\ c2s[i].no \in 1..cmds
          /\ \A j \in 1..Len(c2s) : j < i /\ c2s[j].whole => c2s[j].no < c2s[i].no
          /\ \A j \in 1..Len(Unread) : Unread[j].line.re < c2s[i].no
      BY <2>1, <2>4 DEF Queued
    <3>2. e < c2s[i].no /\ Asked(Unread[2 * m])
      BY <1>1, <2>1, <3>1 DEF e, Queued
    <3>3. c2s[i].no \in Nat
      BY <1>3, <3>1
    <3>4. c2s[i].no + lost >= cmds + 1
      BY <1>3, <1>7, <3>2, <3>3
    <3>. QED
      BY <1>5, <3>1, <3>4
  <2>. QED
    BY <1>2, <1>3, <2>2, <2>3, <2>4 DEF Queued, Near, Asked
<1>10. Replied'
  <2>1. Head(reply') = Unread[2].line /\ Head(reply') \in Lines
    BY <1>1, <1>2, <1>4, LineOfPart
  <2>2. ASSUME Head(reply').code # 421
        PROVE  Head(reply').re <= cmds /\ Head(reply').re + 1 + lost >= cmds + 1
    <3>1. Asked(Unread[2])
      BY <2>1, <2>2 DEF Asked
    <3>2. Unread[2].line.re <= cmds /\ Near(Unread[2].line.re) /\ Unread[2].line.re \in Nat
      BY <1>1, <1>4, <3>1, NumberOfPart DEF Lagging, Bounded
    <3>3. Unread[2].line.re + lost >= cmds
      BY <1>3, <3>2 DEF Near
    <3>. QED
      BY <1>3, <2>1, <3>2, <3>3
  <2>3. reply' # <<>> => LastCode' = Head(reply').code
    BY DEF LastCode
  <2>. QED
    BY <1>2, <1>3, <2>1, <2>2, <2>3 DEF Replied, Near
<1>. QED
  BY <1>6, <1>8, <1>9, <1>10 DEF Lagging, Alternates, Ordered, Asked

\* The greeting is read once, behind the dial.
LEMMA NotTheGreeting == ASSUME step # "dial" PROVE NextStep(step) # "greeting"
BY DEF NextStep, AfterDial, AfterGreeting, RcptsLeft

LEMMA RecvChunkLag ==
  ASSUME CInv(Late), Wired, Lagging, RecvChunk, srv' = srv PROVE Lagging'
<1>1. PICK chunk \in Chunks :
        \/ Keeps(chunk)
        \/ /\ Complete(buffer \o chunk) /\ Takes(chunk, ReplyIn(buffer \o chunk))
           /\ \/ \E code : Proceed(NextStep(step), code)
              \/ \E kind, code : Return(kind, code)
        \/ Rejects(chunk)
  BY DEF RecvChunk
<1>2. CASE Keeps(chunk)
  <2>1. UNCHANGED <<c2s, reply, chan, cmds, lost, reading, step>>
    BY <1>2 DEF Keeps, histVars
  <2>2. Unread' = Unread
    BY <1>2, KeptUnread
  <2>. QED
    BY <2>1, <2>2, SameLag
<1>3. CASE Rejects(chunk)
  BY <1>3, GiveUpLag DEF Rejects
<1>4. CASE /\ Complete(buffer \o chunk) /\ Takes(chunk, ReplyIn(buffer \o chunk))
           /\ \/ \E code : Proceed(NextStep(step), code)
              \/ \E kind, code : Return(kind, code)
  <2>1. reading /\ step # "dial"
    BY DEF RecvChunk, CInv, Placed
  <2>2. buffer' = <<>> /\ ~reading' /\ step' # "greeting"
    BY <1>4, <2>1, NotTheGreeting DEF Proceed, Return
  <2>. QED
    BY <1>4, <2>1, <2>2, TakesLag
<1>. QED
  BY <1>1, <1>2, <1>3, <1>4

LEMMA ContinuesLag ==
  ASSUME CInv(Late), Wired, Lagging, Continues, srv' = srv PROVE Lagging'
<1>1. CASE Unresolved
  <2>1. ~reading
    BY <1>1 DEF Unresolved, CInv, Placed
  <2>. QED
    BY <1>1, <2>1, ReturnLag DEF Unresolved, histVars, wire
<1>2. CASE UpgradeFails
  BY <1>2, GiveUpLag DEF UpgradeFails, wire
<1>3. CASE SendCommand(Verb, Turn) \/ SendFails(Verb, Turn)
  BY <1>3, SendsLag
<1>4. CASE SendRefused
  BY <1>4, ReturnLag DEF SendRefused, Sends, histVars, wire
<1>5. CASE RecvChunk
  BY <1>5, RecvChunkLag
<1>6. CASE RecvTimeout
  BY <1>6, GiveUpLag DEF RecvTimeout, wire
<1>7. CASE ClosedAtOtherEnd
  BY <1>7, GiveUpLag DEF ClosedAtOtherEnd, RecvClosed, wire
<1>. QED
  BY <1>1, <1>2, <1>3, <1>4, <1>5, <1>6, <1>7 DEF Continues

LEMMA CallsLag ==
  ASSUME CInv(Late), Wired, Lagging, srv' = srv,
         \/ \E m \in Methods : Call(m)
         \/ \E e \in Endpoints : Connect(e) \/ ConnectWrongScheme(e)
         \/ Close
  PROVE  Lagging'
<1>1. UNCHANGED <<c2s, s2c, buffer, reply, chan, cmds, lost, reading>>
  BY DEF Call, Close, Connect, ConnectTo, Begin, ConnectWrongScheme, RefuseScheme, Answers,
     callVars, wire
<1>2. step' = "greeting" => step = "greeting"
  <2>1. CASE \E m \in Methods : Call(m)
    BY <2>1, SmtpAssumption DEF SmtpAssumption, AllMethods, Call, Begin, FirstStep
  <2>2. CASE \E e \in Endpoints : Connect(e)
    BY <2>2 DEF Connect, ConnectTo, Begin
  <2>3. CASE \E e \in Endpoints : ConnectWrongScheme(e)
    BY <2>3 DEF ConnectWrongScheme, RefuseScheme, Answers, callVars
  <2>4. CASE Close
    BY <2>4 DEF Close, Begin
  <2>. QED
    BY <2>1, <2>2, <2>3, <2>4
<1>3. Unread' = Unread
  BY <1>1 DEF Unread
<1>. QED
  BY <1>1, <1>2, <1>3, SameLag
-----------------------------------------------------------------------------
(* The server's steps                                                      *)

LEMMA WaitsLag ==
  ASSUME UNCHANGED clientVars
  PROVE  /\ UNCHANGED <<buffer, step, reading, reply, cmds, lost, chan>>
         /\ Awaited' = Awaited /\ (Replied => Replied')
<1>1. UNCHANGED <<buffer, step, reading, reply, cmds, lost, chan>>
  BY DEF clientVars, callVars, histVars
<1>2. Awaited' = Awaited /\ LastCode' = LastCode
  BY <1>1 DEF Awaited, LastCode
<1>. QED
  BY <1>1, <1>2 DEF Replied, Near

\* What Queued says of the commands in flight, when they are behind number n.
Waiting(s, n) ==
  \A i \in 1..Len(s) : s[i].whole =>
    /\ s[i].no \in 1..cmds /\ Near(s[i].no) /\ n < s[i].no
    /\ \A j \in 1..Len(s) : j < i /\ s[j].whole => s[j].no < s[i].no

\* Commands are read and nothing is answered.
LEMMA SwallowsLag ==
  ASSUME Lagging, UNCHANGED clientVars, s2c' = s2c, c2s \in Seq(Commands),
         srv'.open => srv.open /\ (srv'.greeted <=> srv.greeted),
         \/ c2s' = c2s
         \/ c2s # <<>> /\ c2s' = Tail(c2s)
         \/ Len(c2s) > 1 /\ c2s' = Tail(Tail(c2s))
  PROVE  Lagging'
<1>1. UNCHANGED <<cmds, lost>> /\ Unread' = Unread /\ Awaited' = Awaited /\ Replied'
  BY WaitsLag DEF Lagging, Unread
<1>2. PICK k \in 0..2 :
        \A i \in DOMAIN c2s' : i + k \in DOMAIN c2s /\ c2s'[i] = c2s[i + k] /\ i \in Nat
  BY TakenFromFront
<1>3. c2s' \in Seq(Commands)
  BY TailKeeps, TailTailKeeps
<1>4. ASSUME srv'.open PROVE Queued'
  <2>1. Queued
    BY <1>4 DEF Lagging
  <2>2. ASSUME NEW i \in 1..Len(c2s'), c2s'[i].whole
        PROVE  /\ c2s'[i].no \in 1..cmds /\ Near(c2s'[i].no)
               /\ \A j \in 1..Len(c2s') : j < i /\ c2s'[j].whole => c2s'[j].no < c2s'[i].no
               /\ \A j \in 1..Len(Unread) : Unread[j].line.re < c2s'[i].no
    <3>1. \A j \in 1..Len(c2s') : j \in Nat /\ j + k \in 1..Len(c2s) /\ c2s'[j] = c2s[j + k]
      BY <1>2, <1>3
    <3>2. \A j \in 1..Len(c2s') : j < i => j + k < i + k
      BY <3>1
    <3>. QED
      BY <2>1, <2>2, <3>1, <3>2 DEF Queued
  <2>. QED
    BY <1>1, <1>4, <2>1, <2>2 DEF Queued, Near, Asked
<1>. QED
  BY <1>1, <1>4 DEF Lagging, Bounded, Near, Alternates, Ordered, Asked

LEMMA PairedAlternates == ASSUME NEW s \in Seq(Parts), Paired(s) PROVE Alternates(s)
<1>. DEFINE b == Len(s) % 2
<1>1. b \in 0..1
  OBVIOUS
<1>2. \A i \in 1..Len(s) : (Len(s) - i) % 2 = 0 <=> (i + b) % 2 = 0
  OBVIOUS
<1>. HIDE DEF b
<1>3. \A i \in 1..Len(s) : s[i].crlf <=> (i + b) % 2 = 0
  BY <1>2 DEF Paired
<1>. QED
  BY <1>1, <1>3 DEF Alternates

\* Lines that are one reply to command number n, and no goodbye.
OneReply(lines, n) ==
  /\ \A i \in DOMAIN lines : lines[i].last => i = Len(lines)
  /\ \A i \in DOMAIN lines : lines[i].re = n /\ lines[i].code # 421

\* The lines behind s, in pieces, make t.
Adds(s, t, lines) ==
  /\ Len(t) = Len(s) + 2 * Len(lines)
  /\ \A i \in 1..Len(s) : t[i] = s[i]
  /\ \A i \in 1..(2 * Len(lines)) :
       t[Len(s) + i] = [line |-> lines[(i + 1) \div 2], crlf |-> i % 2 = 0]

\* What t has behind s is one reply to command number n.
Answered(s, t, n) ==
  \A i \in 1..Len(t) : i \notin 1..Len(s) =>
    /\ Asked(t[i]) /\ t[i].line.re = n
    /\ t[i].crlf /\ t[i].line.last => i = Len(t)

LEMMA LastPiece ==
  ASSUME NEW s \in Seq(Parts), NEW t \in Seq(Parts), NEW lines \in Seq(Lines),
         Adds(s, t, lines), NEW n \in Nat, OneReply(lines, n)
  PROVE  Answered(s, t, n)
<1>. SUFFICES ASSUME NEW i \in 1..Len(t), i \notin 1..Len(s)
              PROVE  /\ Asked(t[i]) /\ t[i].line.re = n
                     /\ t[i].crlf /\ t[i].line.last => i = Len(t)
  BY DEF Answered
<1>1. PICK j \in 1..(2 * Len(lines)), k \in DOMAIN lines :
        /\ i = Len(s) + j /\ k = (j + 1) \div 2
        /\ t[i].line = lines[k] /\ (t[i].crlf = (j % 2 = 0))
  BY NewPiece DEF Adds
<1>2. ASSUME t[i].crlf, t[i].line.last PROVE i = Len(t)
  <2>1. k = Len(lines)
    BY <1>1, <1>2 DEF OneReply
  <2>2. j % 2 = 0
    BY <1>1, <1>2
  <2>3. j = 2 * ((j + 1) \div 2)
    <3>1. j \in Int
      OBVIOUS
    <3>. QED
      BY <2>2, <3>1, EvenHalf
  <2>4. j = 2 * Len(lines)
    BY <1>1, <2>1, <2>3
  <2>. QED
    BY <1>1, <2>4 DEF Adds
<1>3. t[i].line.re = n /\ Asked(t[i])
  BY <1>1 DEF OneReply, Asked
<1>. QED
  BY <1>2, <1>3

\* One reply behind replies to earlier commands.
LEMMA OrderedWritten ==
  ASSUME NEW s \in Seq(Parts), NEW t \in Seq(Parts), NEW n \in Nat,
         Len(s) <= Len(t), \A i \in 1..Len(s) : t[i] = s[i],
         Answered(s, t, n), \A i \in 1..Len(s) : Asked(s[i]) /\ s[i].line.re < n, Ordered(s)
  PROVE  Ordered(t)
<1>1. SUFFICES ASSUME NEW i \in 1..Len(t), NEW j \in 1..Len(t), i < j
               PROVE  /\ Asked(t[i]) /\ t[i].line.re <= t[j].line.re
                      /\ t[i].crlf /\ t[i].line.last => t[i].line.re < t[j].line.re
  BY DEF Ordered
<1>2. CASE j \in 1..Len(s)
  <2>1. i \in 1..Len(s) /\ t[i] = s[i] /\ t[j] = s[j] /\ Asked(s[j])
    BY <1>1, <1>2
  <2>. QED
    BY <1>1, <1>2, <2>1 DEF Ordered
<1>3. CASE j \notin 1..Len(s) /\ i \in 1..Len(s)
  <2>1. t[j].line.re = n /\ t[i] = s[i] /\ s[i].line.re < n /\ Asked(s[i])
    BY <1>3 DEF Answered
  <2>2. s[i].line.re \in Nat
    BY <1>3, NumberOfPart
  <2>. QED
    BY <2>1, <2>2
<1>4. CASE j \notin 1..Len(s) /\ i \notin 1..Len(s)
  <2>1. t[j].line.re = n /\ t[i].line.re = n /\ Asked(t[i])
    BY <1>4 DEF Answered
  <2>2. ~(t[i].crlf /\ t[i].line.last)
    <3>1. i # Len(t)
      BY <1>1
    <3>. QED
      BY <1>4, <3>1 DEF Answered
  <2>. QED
    BY <2>1, <2>2
<1>. QED
  BY <1>2, <1>3, <1>4

\* Everything in s answers what was sent before command number n.
Earlier(s, n) == \A i \in 1..Len(s) : s[i].line.re < n

\* A reply to c, behind the replies to what was sent before it.
LEMMA RepliesLag ==
  ASSUME CInv(Late), Wired, Bodied, Lagging, UNCHANGED clientVars, srv.open,
         NEW c, c.no \in 0..cmds, Near(c.no), NEW code \in Nat, code # 421, Replies(c, code),
         Earlier(Unread, c.no),
         srv'.open => srv'.greeted /\ Waiting(c2s', c.no)
  PROVE  Lagging'
<1>1. cmds \in Nat /\ c.no \in Nat /\ UNCHANGED <<buffer, cmds, lost>> /\ Awaited' = Awaited
      /\ Replied'
  BY Numbers, WaitsLag DEF Lagging
<1>2. PICK lines \in Seq(Lines) : Writes(lines) /\ OneReply(lines, c.no)
  <2>1. CASE \E n \in 1..MaxLines : Writes([i \in 1..n |-> Line(c.no, code, i = n)])
    <3>1. PICK n \in 1..MaxLines : Writes([i \in 1..n |-> Line(c.no, code, i = n)])
      BY <2>1
    <3>. DEFINE lines == [i \in 1..n |-> Line(c.no, code, i = n)]
    <3>2. lines \in Seq(Lines) /\ Len(lines) = n
      BY SmtpServerAssumption DEF SmtpServerAssumption, Line, Lines
    <3>3. \A i \in DOMAIN lines : lines[i].re = c.no /\ lines[i].code # 421
      BY DEF Line
    <3>4. \A i \in DOMAIN lines : lines[i].last => i = Len(lines)
      <4>1. \A i \in DOMAIN lines : lines[i].last = (i = n)
        BY DEF Line
      <4>. QED
        BY <3>2, <4>1
    <3>5. Writes(lines) /\ lines \in Seq(Lines)
      BY <3>1, <3>2
    <3>. HIDE DEF lines
    <3>6. OneReply(lines, c.no)
      BY <3>3, <3>4 DEF OneReply
    <3>. QED
      BY <3>5, <3>6
  <2>2. CASE WritesBadLine(c.no)
    <3>. DEFINE lines == <<Line(c.no, 0, TRUE)>>
    <3>1. lines \in Seq(Lines) /\ Len(lines) = 1
          /\ \A i \in DOMAIN lines : i = 1 /\ lines[i].code # 421 /\ lines[i].re = c.no
      BY DEF Line, Lines
    <3>2. Writes(lines)
      BY <2>2 DEF WritesBadLine
    <3>. HIDE DEF lines
    <3>3. OneReply(lines, c.no)
      BY <3>1 DEF OneReply
    <3>. QED
      BY <3>1, <3>2, <3>3
  <2>. QED
    BY <2>1, <2>2 DEF Replies
<1>3. /\ Unread' \in Seq(Parts) /\ Len(Unread') = Len(Unread) + 2 * Len(lines)
      /\ \A i \in 1..Len(Unread) : Unread'[i] = Unread[i]
      /\ \A i \in 1..(2 * Len(lines)) :
           Unread'[Len(Unread) + i] = [line |-> lines[(i + 1) \div 2], crlf |-> i % 2 = 0]
  BY <1>1, <1>2, WrittenUnread
<1>4. Unread \in Seq(Parts) /\ Paired(Unread) /\ Queued /\ Ordered(Unread) /\ Bounded(Unread)
  BY UnreadType DEF Bodied, Lagging
<1>5. Alternates(Unread')
  <2>1. Paired(Unread')
    BY <1>3, <1>4, PairedWritten
  <2>. QED
    BY <1>3, <2>1, PairedAlternates
<1>6. Answered(Unread, Unread', c.no)
  <2>1. Adds(Unread, Unread', lines)
    BY <1>3 DEF Adds
  <2>. QED
    BY <1>1, <1>2, <1>3, <1>4, <2>1, LastPiece
<1>7. \A i \in 1..Len(Unread) : Asked(Unread[i])
  BY <1>4 DEF Queued
<1>8. Ordered(Unread')
  <2>1. Len(Unread) <= Len(Unread')
    BY <1>3
  <2>. QED
    BY <1>1, <1>3, <1>4, <1>6, <1>7, <2>1, OrderedWritten DEF Earlier
<1>9. \A i \in 1..Len(Unread') :
        /\ Asked(Unread'[i]) /\ Unread'[i].line.re <= c.no
        /\ Unread'[i].line.re <= cmds /\ Near(Unread'[i].line.re)
  <2>1. SUFFICES ASSUME NEW i \in 1..Len(Unread')
                 PROVE  /\ Asked(Unread'[i]) /\ Unread'[i].line.re <= c.no
                        /\ Unread'[i].line.re <= cmds /\ Near(Unread'[i].line.re)
    OBVIOUS
  <2>2. CASE i \in 1..Len(Unread)
    <3>1. Unread'[i] = Unread[i] /\ Unread[i].line.re < c.no /\ Unread[i].line.re \in Nat
      BY <1>3, <1>4, <2>2, NumberOfPart DEF Earlier
    <3>2. Asked(Unread[i]) /\ Unread[i].line.re <= cmds /\ Near(Unread[i].line.re)
      BY <1>4, <1>7, <2>2 DEF Bounded
    <3>. QED
      BY <1>1, <3>1, <3>2
  <2>3. CASE i \notin 1..Len(Unread)
    BY <1>1, <1>6, <2>3 DEF Answered
  <2>. QED
    BY <2>2, <2>3
<1>10. Bounded(Unread)'
  BY <1>1, <1>9 DEF Bounded, Near
<1>11. ASSUME srv'.open PROVE Queued'
  <2>1. srv'.greeted /\ Waiting(c2s', c.no)
    BY <1>11
  <2>2. \A i \in 1..Len(Unread') : Asked(Unread'[i]) /\ Unread'[i].line.re \in Nat
        /\ Unread'[i].line.re <= c.no
    BY <1>3, <1>9, NumberOfPart
  <2>3. \A i \in 1..Len(c2s') : c2s'[i].whole =>
          /\ c2s'[i].no \in 1..cmds /\ c2s'[i].no + lost >= Awaited
          /\ \A j \in 1..Len(c2s') : j < i /\ c2s'[j].whole => c2s'[j].no < c2s'[i].no
          /\ \A j \in 1..Len(Unread') : Unread'[j].line.re < c2s'[i].no
    <3>1. \A i \in 1..Len(c2s') : c2s'[i].whole =>
            /\ c2s'[i].no \in 1..cmds /\ Near(c2s'[i].no) /\ c.no < c2s'[i].no
            /\ \A j \in 1..Len(c2s') : j < i /\ c2s'[j].whole => c2s'[j].no < c2s'[i].no
      BY <2>1 DEF Waiting
    <3>2. ASSUME NEW i \in 1..Len(c2s'), c2s'[i].whole, NEW j \in 1..Len(Unread')
          PROVE  Unread'[j].line.re < c2s'[i].no
      <4>1. c.no < c2s'[i].no /\ c2s'[i].no \in Nat
        BY <1>1, <3>1, <3>2
      <4>. QED
        BY <1>1, <2>2, <4>1
    <3>. QED
      BY <3>1, <3>2 DEF Near
  <2>. QED
    BY <1>1, <2>1, <2>2, <2>3 DEF Queued, Near, Asked
<1>. QED
  BY <1>1, <1>5, <1>8, <1>10, <1>11 DEF Lagging, Alternates, Ordered, Asked

\* The commands behind the one that is answered.
LEMMA WaitingBehind ==
  ASSUME CInv(Late), Queued, c2s \in Seq(Commands), NEW k \in 1..Len(c2s), c2s[k].whole,
         c2s' \in Seq(Commands), Len(c2s') = Len(c2s) - k,
         \A i \in 1..Len(c2s') : c2s'[i] = c2s[i + k]
  PROVE  /\ c2s[k].no \in 0..cmds /\ Near(c2s[k].no) /\ Earlier(Unread, c2s[k].no)
         /\ Waiting(c2s', c2s[k].no)
<1>1. /\ c2s[k].no \in 0..cmds /\ Near(c2s[k].no)
      /\ \A j \in 1..Len(Unread) : Unread[j].line.re < c2s[k].no
  BY DEF Queued
<1>2. ASSUME NEW i \in 1..Len(c2s'), c2s'[i].whole
      PROVE  /\ c2s'[i].no \in 1..cmds /\ Near(c2s'[i].no) /\ c2s[k].no < c2s'[i].no
             /\ \A j \in 1..Len(c2s') : j < i /\ c2s'[j].whole => c2s'[j].no < c2s'[i].no
  <2>1. \A j \in 1..Len(c2s') : j + k \in 1..Len(c2s) /\ c2s'[j] = c2s[j + k] /\ k < j + k
    OBVIOUS
  <2>2. /\ c2s[i + k].no \in 1..cmds /\ Near(c2s[i + k].no)
        /\ \A j \in 1..Len(c2s) : j < i + k /\ c2s[j].whole => c2s[j].no < c2s[i + k].no
    BY <1>2, <2>1 DEF Queued
  <2>3. c2s[k].no < c2s'[i].no
    BY <2>1, <2>2
  <2>4. ASSUME NEW j \in 1..Len(c2s'), j < i, c2s'[j].whole PROVE c2s'[j].no < c2s'[i].no
    <3>1. j + k < i + k
      BY <2>4
    <3>. QED
      BY <2>1, <2>2, <2>4, <3>1
  <2>. QED
    BY <2>1, <2>2, <2>3, <2>4
<1>. QED
  BY <1>1, <1>2 DEF Earlier, Waiting

\* A command that is answered gets one reply, and not the goodbye.
LEMMA OneAnswer ==
  ASSUME Wired, srv.greeted, NEW c,
         \/ Refuses(c, srv.work) \/ AcceptsCommand(c, srv.work)
         \/ AcceptsCredential(c, srv.work) \/ TakesBody(c, srv.work)
  PROVE  \E code \in Nat \ {421} : Replies(c, code) /\ (srv'.open => srv'.greeted)
<1>1. ASSUME NEW code \in Nat \ {421}, NEW w, Accepts(c, code, w)
      PROVE  Replies(c, code) /\ srv'.greeted
  BY <1>1, WorkingWork DEF Accepts
<1>2. CASE Refuses(c, srv.work)
  <2>. DEFINE w == [srv.work EXCEPT !.mode = "command"]
  <2>1. Accepts(c, 550, w)
    BY <1>2 DEF Refuses
  <2>. HIDE DEF w
  <2>. QED
    BY <1>1, <2>1
<1>3. CASE AcceptsCommand(c, srv.work)
  <2>1. CASE Replies(c, 220) /\ srv' = [srv EXCEPT !.tls = "await"]
    <3>1. srv'.greeted
      BY <2>1 DEF Wired
    <3>. QED
      BY <2>1, <3>1
  <2>2. CASE Replies(c, 221) /\ srv' = Gone(srv)
    <3>1. ~srv'.open
      BY <2>2 DEF Gone, Wired
    <3>. QED
      BY <2>2, <3>1
  <2>3. ASSUME ~(Replies(c, 220) /\ srv' = [srv EXCEPT !.tls = "await"]),
               ~(Replies(c, 221) /\ srv' = Gone(srv))
        PROVE  (\E code \in {235, 250, 334, 354} : Replies(c, code)) /\ srv'.greeted
    <3>1. \E code \in {235, 250, 334, 354} : Replies(c, code)
      BY <1>3, <2>3 DEF AcceptsCommand, Accepts
    <3>2. srv'.greeted
      BY <1>3, <2>3 DEF AcceptsCommand, Accepts, Working, Wired
    <3>. QED
      BY <3>1, <3>2
  <2>. QED
    BY <2>1, <2>2, <2>3
<1>4. CASE AcceptsCredential(c, srv.work)
  <2>1. \E code \in {235, 334} : Replies(c, code)
    BY <1>4 DEF AcceptsCredential, Accepts
  <2>2. srv'.greeted
    BY <1>4 DEF AcceptsCredential, Accepts, Working, Wired
  <2>. QED
    BY <2>1, <2>2
<1>5. CASE TakesBody(c, srv.work)
  <2>1. srv'.greeted
    BY <1>5, WorkingWork DEF TakesBody
  <2>. QED
    BY <1>5, <2>1 DEF TakesBody
<1>. QED
  BY <1>2, <1>3, <1>4, <1>5

LEMMA HandlesLag ==
  ASSUME CInv(Late), Wired, Bodied, Lagging, UNCHANGED clientVars, Handles \/ HandlesPartial
  PROVE  Lagging'
<1>1. c2s \in Seq(Commands) /\ c2s # <<>> /\ srv.open /\ srv.greeted /\ Head(c2s) = c2s[1]
      /\ 1 \in 1..Len(c2s) /\ Queued
  BY DEF Handles, HandlesPartial, Reads, CInv, Types, Lagging
<1>2. \/ c2s # <<>> /\ c2s' = Tail(c2s)
      \/ Len(c2s) > 1 /\ c2s' = Tail(Tail(c2s))
  BY <1>1 DEF Handles, HandlesPartial
<1>3. ASSUME UNCHANGED <<s2c, serverVars>> PROVE Lagging'
  BY <1>1, <1>2, <1>3, SwallowsLag DEF serverVars
<1>4. ASSUME NEW k \in 1..Len(c2s), c2s[k].whole, c2s' \in Seq(Commands),
             Len(c2s') = Len(c2s) - k, \A i \in 1..Len(c2s') : c2s'[i] = c2s[i + k],
             \/ Refuses(c2s[k], srv.work) \/ AcceptsCommand(c2s[k], srv.work)
             \/ AcceptsCredential(c2s[k], srv.work) \/ TakesBody(c2s[k], srv.work)
      PROVE  Lagging'
  <2>. DEFINE c == c2s[k]
  <2>1. c.no \in 0..cmds /\ Near(c.no) /\ Earlier(Unread, c.no) /\ Waiting(c2s', c.no)
    BY <1>1, <1>4, WaitingBehind
  <2>2. \/ Refuses(c, srv.work) \/ AcceptsCommand(c, srv.work)
        \/ AcceptsCredential(c, srv.work) \/ TakesBody(c, srv.work)
    BY <1>4
  <2>. HIDE DEF c
  <2>3. PICK code \in Nat \ {421} : Replies(c, code) /\ (srv'.open => srv'.greeted)
    BY <1>1, <2>2, OneAnswer
  <2>. QED
    BY <1>1, <2>1, <2>3, RepliesLag
<1>5. CASE Handles
  <2>. DEFINE c == Head(c2s)
  <2>1. CASE \/ Refuses(c, srv.work) \/ AcceptsCommand(c, srv.work)
             \/ AcceptsCredential(c, srv.work) \/ TakesBody(c, srv.work)
    <3>1. c2s' \in Seq(Commands) /\ Len(c2s') = Len(c2s) - 1
          /\ \A i \in 1..Len(c2s') : c2s'[i] = c2s[i + 1]
      BY <1>1, <1>5, TailKeeps DEF Handles
    <3>2. c2s[1].whole
      BY <1>1, <1>5 DEF Handles
    <3>3. c = c2s[1]
      BY <1>1
    <3>. HIDE DEF c
    <3>. QED
      BY <1>1, <1>4, <2>1, <3>1, <3>2, <3>3
  <2>. QED
    BY <1>3, <1>5, <2>1 DEF Handles
<1>6. CASE HandlesPartial
  <2>1. CASE Len(c2s) > 1 /\ c2s[2].whole /\ c2s' = Tail(Tail(c2s)) /\ Refuses(c2s[2], srv.work)
    <3>1. c2s' \in Seq(Commands) /\ Len(c2s') = Len(c2s) - 2
          /\ \A i \in 1..Len(c2s') : c2s'[i] = c2s[i + 2]
      BY <1>1, <2>1, TailTailKeeps
    <3>2. 2 \in 1..Len(c2s)
      BY <1>1, <2>1
    <3>. QED
      BY <1>4, <2>1, <3>1, <3>2
  <2>. QED
    BY <1>3, <1>6, <2>1 DEF HandlesPartial
<1>. QED
  BY <1>5, <1>6

LEMMA GreetsLag ==
  ASSUME CInv(Late), Wired, Bodied, Lagging, UNCHANGED clientVars, Greets PROVE Lagging'
<1>1. PICK code \in {220, 554} : Replies([no |-> 0], code)
  BY DEF Greets
<1>2. srv.open /\ ~srv.greeted /\ c2s' = c2s /\ srv'.greeted
  BY DEF Greets, Wired
<1>3. Queued /\ Unread = <<>> /\ Near(0) /\ cmds \in Nat /\ c2s \in Seq(Commands)
  BY <1>2, Numbers DEF Lagging, Queued, CInv, Types
<1>4. Earlier(Unread, 0)
  BY <1>3 DEF Earlier
<1>5. Waiting(c2s, 0)
  BY <1>3 DEF Queued, Waiting
<1>. DEFINE c == [no |-> 0]
<1>6. c.no = 0 /\ c.no \in 0..cmds /\ Replies(c, code)
  BY <1>1, <1>3
<1>. HIDE DEF c
<1>. QED
  BY <1>2, <1>3, <1>4, <1>5, <1>6, RepliesLag

\* The server goes, with what can still be read.
LEMMA GoneLag ==
  ASSUME CInv(Late), Wired, Bodied, Lagging, UNCHANGED clientVars,
         srv.open, ~srv'.open, Alternates(Unread'), NEW n \in 0..Len(Unread),
         Unread' \in Seq(Parts), n <= Len(Unread'), \A i \in 1..n : Unread'[i] = Unread[i],
         \A i \in 1..Len(Unread') : i > n => ~Asked(Unread'[i])
  PROVE  Lagging'
<1>1. UNCHANGED <<cmds, lost>> /\ Awaited' = Awaited /\ Replied'
  BY WaitsLag DEF Lagging
<1>2. \A i \in 1..Len(Unread') : Asked(Unread'[i]) => i \in 1..Len(Unread) /\ Unread'[i] = Unread[i]
  OBVIOUS
<1>3. Ordered(Unread')
  <2>1. SUFFICES ASSUME NEW i \in 1..Len(Unread'), NEW j \in 1..Len(Unread'), i < j, Asked(Unread'[j])
                 PROVE  /\ Asked(Unread'[i]) /\ Unread'[i].line.re <= Unread'[j].line.re
                        /\ Unread'[i].crlf /\ Unread'[i].line.last =>
                             Unread'[i].line.re < Unread'[j].line.re
    BY DEF Ordered
  <2>2. j <= n /\ i \in 1..n /\ j \in 1..Len(Unread) /\ i \in 1..Len(Unread)
    BY <2>1
  <2>3. Unread'[j] = Unread[j] /\ Unread'[i] = Unread[i]
    BY <2>2
  <2>. QED
    BY <2>1, <2>2, <2>3 DEF Lagging, Ordered
<1>4. Bounded(Unread)'
  BY <1>1, <1>2 DEF Lagging, Bounded, Near, Asked
<1>. QED
  BY <1>1, <1>3, <1>4 DEF Lagging, Alternates, Ordered, Asked

LEMMA ShutdownLag ==
  ASSUME CInv(Late), Wired, Bodied, Lagging, UNCHANGED clientVars, Shutdown PROVE Lagging'
<1>. DEFINE lines == <<Line(0, 421, TRUE)>>
<1>1. lines \in Seq(Lines) /\ \A i \in DOMAIN lines : lines[i].code = 421
  BY DEF Line, Lines
<1>2. Writes(lines) /\ srv.open /\ srv' = Gone(srv)
  BY DEF Shutdown
<1>. HIDE DEF lines
<1>3. ~srv'.open /\ buffer' = buffer
  BY <1>2, WaitsLag DEF Gone, Wired
<1>4. /\ Unread' \in Seq(Parts) /\ Len(Unread') = Len(Unread) + 2 * Len(lines)
      /\ \A i \in 1..Len(Unread) : Unread'[i] = Unread[i]
      /\ \A i \in 1..(2 * Len(lines)) :
           Unread'[Len(Unread) + i] = [line |-> lines[(i + 1) \div 2], crlf |-> i % 2 = 0]
  BY <1>1, <1>2, <1>3, WrittenUnread
<1>5. Unread \in Seq(Parts) /\ Paired(Unread)
  BY <1>2, UnreadType DEF Bodied
<1>6. Alternates(Unread')
  <2>1. Paired(Unread')
    BY <1>1, <1>4, <1>5, PairedWritten
  <2>. QED
    BY <1>4, <2>1, PairedAlternates
<1>7. ASSUME NEW i \in 1..Len(Unread'), i > Len(Unread) PROVE ~Asked(Unread'[i])
  <2>. DEFINE j == i - Len(Unread)
  <2>1. j \in 1..(2 * Len(lines)) /\ i = Len(Unread) + j
    BY <1>1, <1>4, <1>5, <1>7
  <2>. HIDE DEF j
  <2>2. Unread'[i] = [line |-> lines[(j + 1) \div 2], crlf |-> j % 2 = 0]
    BY <1>4, <2>1
  <2>3. (j + 1) \div 2 \in DOMAIN lines
    BY <1>1, <2>1
  <2>. QED
    BY <1>1, <2>2, <2>3 DEF Asked
<1>8. Len(Unread) \in 0..Len(Unread) /\ Len(Unread) <= Len(Unread')
  BY <1>1, <1>4, <1>5
<1>. QED
  BY <1>2, <1>3, <1>4, <1>6, <1>7, <1>8, GoneLag

LEMMA CrashLag ==
  ASSUME CInv(Late), Wired, Bodied, Lagging, UNCHANGED clientVars, Crash PROVE Lagging'
<1>1. PICK n \in 0..Len(s2c) : s2c' = SubSeq(s2c, 1, n)
  BY DEF Crash
<1>2. s2c' \in Seq(Parts) /\ Len(s2c') = n /\ \A i \in 1..n : s2c'[i] = s2c[i]
  BY <1>1 DEF Wired
<1>3. srv.open /\ ~srv'.open /\ buffer' = buffer
  BY WaitsLag DEF Crash, Gone, Wired
<1>. DEFINE m == Len(buffer) + n
<1>4. /\ Unread \in Seq(Parts) /\ Unread' \in Seq(Parts) /\ Len(Unread') = m /\ m \in 0..Len(Unread)
      /\ \A i \in 1..m : Unread'[i] = Unread[i]
  <2>1. Unread' = buffer \o s2c' /\ Len(Unread') = m /\ m \in 0..Len(Unread)
    BY <1>2, <1>3, UnreadType DEF Unread, Wired
  <2>2. \A i \in 1..m : (buffer \o s2c')[i] = (buffer \o s2c)[i]
    BY <1>2 DEF Wired
  <2>3. Unread' \in Seq(Parts)
    BY <1>2, <2>1 DEF Wired
  <2>. QED
    BY <2>1, <2>2, <2>3, UnreadType DEF Unread
<1>. HIDE DEF m
<1>5. Alternates(Unread')
  <2>1. PICK b \in 0..1 : \A i \in 1..Len(Unread) : Unread[i].crlf <=> (i + b) % 2 = 0
    BY DEF Lagging, Alternates
  <2>2. \A i \in 1..Len(Unread') : Unread'[i].crlf <=> (i + b) % 2 = 0
    BY <1>4, <2>1
  <2>. QED
    BY <2>2 DEF Alternates
<1>6. \A i \in 1..Len(Unread') : i > m => ~Asked(Unread'[i])
  BY <1>4
<1>7. m <= Len(Unread')
  BY <1>4
<1>. QED
  BY <1>3, <1>4, <1>5, <1>6, <1>7, GoneLag

LEMMA ServerLag ==
  ASSUME CInv(Late), Wired, Bodied, Lagging, UNCHANGED clientVars, Serves \/ Leaves PROVE Lagging'
<1>1. c2s \in Seq(Commands)
  BY DEF CInv, Types
<1>2. CASE JoinsPartials
  <2>1. c2s # <<>> /\ c2s' = Tail(c2s) /\ UNCHANGED <<s2c, srv>>
    BY <1>2 DEF JoinsPartials, Reads, serverVars
  <2>. QED
    BY <1>1, <2>1, SwallowsLag
<1>3. CASE AbortsHandshake
  <2>1. UNCHANGED <<c2s, s2c>> /\ ~srv'.open
    BY <1>3 DEF AbortsHandshake, wire, Gone, Wired
  <2>. QED
    BY <1>1, <2>1, SwallowsLag
<1>. QED
  BY <1>2, <1>3, GreetsLag, HandlesLag, ShutdownLag, CrashLag DEF Serves, Leaves
-----------------------------------------------------------------------------
(* The steps of both                                                       *)

\* Nothing is on the wire.
LEMMA EmptyLag ==
  ASSUME Unread' = <<>>, c2s' = <<>>, Replied', srv'.open /\ ~srv'.greeted => Near(0)'
  PROVE  Lagging'
<1>1. Alternates(<<>>) /\ Ordered(<<>>)
  BY DEF Alternates, Ordered
<1>2. Bounded(Unread)'
  BY DEF Bounded
<1>3. srv'.open => Queued'
  BY DEF Queued
<1>. QED
  BY <1>1, <1>2, <1>3 DEF Lagging

LEMMA DialsLag == ASSUME Wired, Dials PROVE Lagging'
<1>1. /\ buffer' = <<>> /\ s2c' = <<>> /\ c2s' = <<>> /\ step' = "greeting" /\ reading'
      /\ reply' = <<>> /\ cmds' = 0 /\ lost' = 0
  BY DEF Dials, DialsTo, DialSucceeds, Proceed, NextStep, AfterDial
<1>2. Unread' = <<>>
  BY <1>1 DEF Unread
<1>3. Near(0)' /\ Replied'
  BY <1>1 DEF Near, Awaited, Replied
<1>. QED
  BY <1>1, <1>2, <1>3, EmptyLag

\* The connection ends.
LEMMA ClosesLag == ASSUME CInv(Late), Wired, Lagging, DialFailed \/ Closes PROVE Lagging'
<1>1. /\ buffer' = <<>> /\ s2c' = <<>> /\ c2s' = <<>> /\ chan' = "Closed" /\ srv' = Gone(srv)
      /\ UNCHANGED reply /\ (step' = "greeting" => step = "greeting")
  <2>1. CASE DialFailed
    BY <2>1 DEF DialFailed, DialFails, Return, histVars
  <2>2. CASE Closes
    BY <2>2 DEF Closes, CloseEnds, Return, histVars
  <2>. QED
    BY <2>1, <2>2
<1>2. Unread' = <<>> /\ ~srv'.open
  BY <1>1 DEF Unread, Gone, Wired
<1>3. Replied'
  BY <1>1 DEF Lagging, Replied
<1>. QED
  BY <1>1, <1>2, <1>3, EmptyLag

LEMMA UpgradesLag == ASSUME CInv(Late), Wired, Lagging, Upgrades PROVE Lagging'
<1>1. /\ buffer' = <<>> /\ s2c' = <<>> /\ c2s' = c2s /\ step' # "greeting" /\ ~reading /\ ~reading'
      /\ UNCHANGED <<reply, cmds, lost>> /\ chan = "Plain"
  BY DEF Upgrades, UpgradesTo, UpgradeSucceeds, Proceed, Return, NextStep, AfterDial,
     AfterGreeting, RcptsLeft, histVars, wire, CInv, Placed
<1>2. srv'.open => srv.open /\ (srv'.greeted <=> srv.greeted)
  BY DEF Upgrades, UpgradesTo, Secured, Wired
<1>3. Unread' = <<>> /\ Awaited' = Awaited
  BY <1>1 DEF Unread, Awaited
<1>4. Unread' \in Seq(Parts) /\ Len(Unread) \in 0..Len(Unread) /\ RestOf(Unread', Unread, Len(Unread))
  BY <1>3, UnreadType DEF RestOf, Wired
<1>5. lost' \in Nat /\ Awaited' \in Nat /\ Awaited' + lost <= Awaited + lost'
  BY <1>1, <1>3, Numbers
<1>6. c2s \in Seq(Commands)
  BY DEF CInv, Types
<1>. QED
  BY <1>1, <1>2, <1>4, <1>5, <1>6, QuietLag

LEMMA NextLag == ASSUME CInv(Late), Wired, Bodied, Lagging, [Next]_vars PROVE Lagging'
<1>1. CASE Dials
  BY <1>1, DialsLag
<1>2. CASE DialFailed \/ Closes
  BY <1>2, ClosesLag
<1>3. CASE Upgrades
  BY <1>3, UpgradesLag
<1>4. CASE ClientStep
  <2>1. srv' = srv
    BY <1>4 DEF ClientStep, Continues, serverVars
  <2>2. CASE RecvFails
    BY <2>1, <2>2, GiveUpLag DEF RecvFails, wire
  <2>. QED
    BY <1>4, <2>1, <2>2, ContinuesLag, CallsLag DEF ClientStep
<1>5. CASE ServerStep
  BY <1>5, ServerLag DEF ServerStep
<1>6. CASE UNCHANGED vars \/ TakesLate
  <2>1. UNCHANGED clientVars /\ UNCHANGED <<c2s, s2c, srv>> /\ c2s \in Seq(Commands)
    BY <1>6 DEF vars, mailVars, wire, serverVars, TakesLate, CInv, Types
  <2>. QED
    BY <2>1, SwallowsLag
<1>. QED
  BY <1>1, <1>2, <1>3, <1>4, <1>5, <1>6 DEF Next, Departs

LEMMA InitLag == ASSUME Init PROVE Lagging
<1>1. ~srv.open /\ Unread = <<>> /\ reply = <<>>
  BY DEF Init, SessionInit, ServerInit, ClientInit, Gone, Fresh, Unread
<1>2. Alternates(<<>>) /\ Ordered(<<>>)
  BY DEF Alternates, Ordered
<1>. QED
  BY <1>1, <1>2 DEF Lagging, Bounded, Replied

LEMMA LaggingIsEnough == ASSUME CInv(Late), Lagging PROVE ReplyLag
<1>. SUFFICES ASSUME chan # "Closed", reply # <<>>, LastCode # 421
              PROVE  LET last == IF reading THEN cmds - 1 ELSE cmds
                     IN  Head(reply).re <= cmds /\ Head(reply).re + lost >= last
  BY DEF ReplyLag
<1>1. Head(reply).re <= cmds /\ Head(reply).re + 1 + lost >= Awaited /\ Head(reply).re \in Nat
  BY DEF Lagging, Replied, Near, Lines
<1>. QED
  BY <1>1, Numbers DEF Awaited

\* A reply that is read is behind the last command by at most what was given
\* up on the connection, and never ahead of it, however many calls there were.
THEOREM SmtpReplyLag == Spec => []ReplyLag
<1>1. CInv(Late) /\ Wired /\ Bodied /\ Lagging /\ [Next]_vars =>
        CInv(Late)' /\ Wired' /\ Bodied' /\ Lagging'
  BY NextSmtp, NextWired, NextBodied, NextLag
<1>2. Init => CInv(Late) /\ Wired /\ Bodied /\ Lagging
  BY InitSmtp, InitWired, InitBodied, InitLag
<1>3. CInv(Late) /\ Lagging => ReplyLag
  BY LaggingIsEnough
<1>. QED
  BY <1>1, <1>2, <1>3, PTL DEF Spec
=============================================================================
