----------------------------- MODULE Pop3Session -----------------------------
(***************************************************************************)
(* A Pop3Client and a POP3 server, and what a caller of the client may     *)
(* rely on.                                                                *)
(***************************************************************************)
EXTENDS Pop3Client, Pop3Server, MailSession

VARIABLE told  \* history: what the client was told since the dial or the login
               \* [drop: the maildrop then, gone: the numbers deleted since,
               \*  held: it is the login's, and no other session changed it since]

vars == <<mailVars, told>>

Snapshot(held) == [drop |-> store, gone |-> {}, held |-> held]

Init == SessionInit(NewWork) /\ store = Maildrop /\ told = Snapshot(FALSE)

Dials    == DialsTo(NextStep("dial"), NewWork) /\ told' = Snapshot(FALSE)
Upgrades == UpgradesTo(NextStep("upgrade"), NewWork) /\ UNCHANGED <<told, adrift>>

\* The client leaves its connection; what it sent is not taken back.
Departs ==
  /\ \/ Dials
     \/ (DialFailed \/ Closes) /\ UNCHANGED told
  /\ adrift' = adrift \cup LeftBehind

\* The server of such a connection ends its session: it removes what it has
\* marked by then, or nothing.  Another session that is open keeps it out.
QuitsLate ==
  /\ ~(srv.open /\ srv.work.login)
  /\ \E q \in adrift : \E some \in SUBSET (q.marked \cap DOMAIN store) :
       store' = Without(store, some) /\ adrift' = adrift \ {q}
  /\ told' = [told EXCEPT !.held = FALSE]
  /\ UNCHANGED <<clientVars, wire, srv>>

\* What a call that returns tells the caller about the maildrop.
Tells ==
  LET ok == result' # result /\ result'.kind = "reply" /\ result'.code = Ok
  IN  told' = [told EXCEPT !.gone =
                 CASE ok /\ op = "dele" -> @ \cup {arg}
                   [] ok /\ op = "rset" -> {}
                   [] OTHER -> @]

\* The client goes on with the method that runs.
Continues ==
  /\ \/ Unresolved \/ UpgradeFails
     \/ SendCommand(Verb, 0) \/ SendFails(Verb, 0) \/ SendRefused
     \/ RecvChunk \/ RecvTimeout \/ ClosedAtOtherEnd
  /\ Tells /\ UNCHANGED <<serverVars, adrift>>

ClientStep ==
  \/ Continues
  \/ /\ \/ \E m \in Methods : Call(m)
        \/ \E e \in Endpoints : Connect(e) \/ ConnectWrongScheme(e)
        \/ Close \/ RecvFails
     /\ UNCHANGED <<serverVars, adrift, told>>

\* A maildrop has one session at a time: nobody is let in as long as one that the
\* client left holds it.  The numbers of the messages count from the login on.
Admits ==
  IF srv'.work.login /\ ~srv.work.login
  THEN (\A q \in adrift : ~q.login) /\ told' = Snapshot(TRUE)
  ELSE UNCHANGED told

ServerStep == (Serves \/ Crash) /\ Admits /\ UNCHANGED <<clientVars, adrift>>

Next == Departs \/ Upgrades \/ ClientStep \/ ServerStep \/ QuitsLate

Spec == Init /\ [][Next]_vars

\* The scheduler and the timers, as in SmtpSession.
TimerSpec == Spec /\ WF_vars(~Shutting /\ (Departs \/ Upgrades \/ Continues))

\* A server that does not stop in the middle of its work, and answers a closing
\* alert (or closes the connection) too.
WorkingServer ==
  WF_vars(Serves /\ Admits /\ UNCHANGED <<clientVars, adrift>>) /\ WF_vars(Departs)
-----------------------------------------------------------------------------
TypeOK ==
  /\ MailTypeOK /\ arg \in 0..MaxNumber
  /\ srv.work.marked \subseteq DOMAIN told.drop /\ told.gone \subseteq 1..MaxNumber

\* connect succeeds only if the server has let the user of the endpoint in, on
\* the channel the endpoint asked for.
ConnectOkMeansLoggedIn ==
  /\ ChannelAsAsked
  /\ op = "none" /\ result.of = "connect" /\ result.kind = "ok" /\ endpoint.user =>
       srv.work.login

\* The lines retr returns are those of the message asked for, all of them and
\* no others, even when lines of the message look like a status, as long as
\* nothing was given up on the connection.
RetrReturnsTheMessage ==
  op = "none" /\ result.of = "retr" /\ result.kind = "reply" /\ result.code = Ok /\ lost = 0 =>
    [i \in DOMAIN reply |-> reply[i].code] = <<Ok>> \o told.drop[arg] \o <<Dot>>

\* After a quit that was answered +OK the maildrop is what the caller was told
\* it would be: without the messages dele reported deleted and no rset brought
\* back, and with all others, as long as nothing was given up (and no session
\* the client left has come late and changed it).
MaildropAsTold ==
  op = "none" /\ result.of = "quit" /\ result.kind = "reply" /\ result.code = Ok /\ lost = 0
    /\ told.held => store = Without(told.drop, told.gone)

\* The methods Removal is about, of one command each.
Simple == {"retr", "dele", "rset", "quit"}

\* retr, dele, rset and quit keep the promise of Removal, as long as nothing was
\* given up on the connection and the maildrop is held.  A quit given up may
\* remove messages at any time later, after a reconnect too.
Says ==
  CASE op # "none" \/ result.of \notin Simple -> "none"
    [] op = "none" /\ result.of \in Simple ->
         IF result.kind # "reply" THEN "unknown" ELSE IF result.code = Ok THEN "ok" ELSE "refused"
Runs == IF op \in Simple THEN op ELSE "none"
TextRead ==
  IF Says = "ok" /\ result.of = "retr" THEN [i \in 1 .. Len(reply) - 2 |-> reply[i + 1].code]
  ELSE <<>>
Quiet == chan # "Closed" /\ lost = 0 /\ told.held
Removals ==
  INSTANCE Removal WITH
    drop <- store, shown <- told.drop, gone <- told.gone, running <- Runs, number <- arg,
    answer <- Says, text <- TextRead, sure <- Quiet
ImplementsRemoval == Removals!Spec

\* With a server that goes on working every call comes back, those that wait
\* for a dot too, on an encrypted channel too.
ServedCallsReturn == WorkingServer => CallsReturn
=============================================================================
