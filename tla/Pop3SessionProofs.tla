------------------------- MODULE Pop3SessionProofs --------------------------
(***************************************************************************)
(* Theorems about Pop3Session for any set of endpoints, of methods and of  *)
(* calls, any maildrop and replies of any length.  First what holds        *)
(* whatever was given up on a connection: credentials, the endpoint, the   *)
(* types and the encryption of what is unread.  Then the account of a      *)
(* connection on which nothing was given up: what is in flight is nothing, *)
(* the greeting, one command or the one reply to it, and what the server   *)
(* has marked is what the caller was told, so that a method returns what   *)
(* its own reply says.                                                     *)
(***************************************************************************)
EXTENDS Pop3Session, MailSessionProofs, FiniteSetTheorems

\* The steps of connect that come after the encryption where it was asked for.
Late == {"authPlain", "user", "pass"}

LEMMA MethodsAreNames ==
  ASSUME NEW m \in Methods
  PROVE  m \in Names /\ m \notin {"none", "connect", "close"}
         /\ FirstStep(m) \in Names /\ FirstStep(m) \notin {"dial", "close"}
BY Pop3Assumption DEF Pop3Assumption, AllMethods, FirstStep, Names

\* What follows a step of connect that was answered over the same channel.
LEMMA NextStepFits ==
  ASSUME CInv(Late), step # "upgrade", chan' = chan \/ step = "dial"
  PROVE  Fits(NextStep(step), Late)
<1>1. NextStep(step) \in Names /\ NextStep(step) \notin {"dial", "close"}
  BY DEF NextStep, AfterGreeting, LoginStep, Names
<1>2. ASSUME op = "connect", endpoint.security = "StartTls", NextStep(step) \in Late
      PROVE  chan' = "Tls"
  <2>1. step = "user"
    BY <1>2 DEF NextStep, AfterGreeting, LoginStep, Late
  <2>. QED
    BY <1>2, <2>1 DEF CInv, Placed, Late
<1>. QED
  BY <1>1, <1>2 DEF Fits

LEMMA UpgradeFits ==
  ASSUME step = "upgrade", chan' = "Tls" PROVE Fits(NextStep("upgrade"), Late)
BY DEF Fits, NextStep, AfterGreeting, LoginStep, Names

LEMMA VerbIsLate ==
  ASSUME CInv(Late)
  PROVE  Verb \in Names /\ (Verb \in {"authPlain", "user", "pass"} => step \in Late)
BY DEF CInv, Types, Counts, Verb, Late

\* What the server does to the commands in flight.
LEMMA ServerTakes ==
  ASSUME Serves \/ Crash
  PROVE  \/ c2s' = c2s
         \/ c2s # <<>> /\ c2s' = Tail(c2s)
         \/ Len(c2s) > 1 /\ c2s' = Tail(Tail(c2s))
<1>1. CASE Greets \/ Crash \/ AbortsHandshake
  BY <1>1 DEF Greets, Crash, AbortsHandshake, wire
<1>2. CASE Handles \/ JoinsPartials
  BY <1>2 DEF Handles, JoinsPartials, Reads
<1>3. CASE HandlesPartial
  BY <1>3 DEF HandlesPartial, Reads
<1>. QED
  BY <1>1, <1>2, <1>3 DEF Serves

LEMMA InitPop3 == Init => CInv(Late)
BY InitCInv DEF Init, SessionInit

LEMMA DialsPop3 == ASSUME CInv(Late), Dials \/ DialFailed PROVE CInv(Late)'
<1>1. CASE Dials
  <2>1. step = "dial" /\ op = "connect" /\ DialSucceeds(NextStep("dial"))
    BY <1>1 DEF Dials, DialsTo, DialSucceeds, CInv, Placed
  <2>2. Fits(NextStep("dial"), Late)
    BY <2>1, NextStepFits
  <2>. QED
    BY <2>1, <2>2, DialCInv
<1>2. CASE DialFailed
  BY <1>2, NothingInFlight, ReturnCInv DEF DialFailed, DialFails, histVars
<1>. QED
  BY <1>1, <1>2

LEMMA UpgradesPop3 == ASSUME CInv(Late), Upgrades PROVE CInv(Late)'
<1>1. step = "upgrade" /\ op # "none"
  BY DEF Upgrades, UpgradesTo, UpgradeSucceeds, CInv, Placed
<1>2. Fits(NextStep("upgrade"), Late)
  BY <1>1, UpgradeFits DEF Upgrades, UpgradesTo, UpgradeSucceeds
<1>. QED
  BY <1>1, <1>2, ProceedCInv DEF Upgrades, UpgradesTo, UpgradeSucceeds, histVars, wire

LEMMA RecvChunkPop3 == ASSUME CInv(Late), RecvChunk PROVE CInv(Late)'
<1>1. PICK chunk \in Chunks :
        \/ Keeps(chunk)
        \/ \E lines, code : Takes(chunk, lines) /\ Proceed(NextStep(step), code)
        \/ \E lines, kind, code : Takes(chunk, lines) /\ Return(kind, code)
        \/ Rejects(chunk)
  BY DEF RecvChunk
<1>2. op # "none" /\ step \notin {"dial", "upgrade"}
  BY DEF RecvChunk, CInv, Placed
<1>3. CASE Keeps(chunk)
  BY <1>3, KeepsCInv
<1>4. CASE Rejects(chunk)
  BY <1>4, GiveUpCInv DEF Rejects
<1>5. CASE \E lines, code : Takes(chunk, lines) /\ Proceed(NextStep(step), code)
  <2>1. PICK code : Proceed(NextStep(step), code)
    BY <1>5
  <2>2. chan' = chan /\ endpoint' = endpoint /\ UNCHANGED <<calls, peer, cmds, lost, c2s>>
    BY <1>5 DEF Takes
  <2>. QED
    BY <1>2, <2>1, <2>2, NextStepFits, ProceedCInv
<1>6. CASE \E lines, kind, code : Takes(chunk, lines) /\ Return(kind, code)
  <2>1. PICK kind, code : Return(kind, code)
    BY <1>6
  <2>2. UNCHANGED <<calls, peer, cmds>> /\ lost' \in {lost, lost + 1}
        /\ c2s' \in Seq(Commands) /\ AllSafe'
    BY <1>6 DEF Takes, CInv, Types, AllSafe
  <2>. QED
    BY <2>1, <2>2, ReturnCInv
<1>. QED
  BY <1>1, <1>3, <1>4, <1>5, <1>6

LEMMA ContinuesPop3 == ASSUME CInv(Late), Continues PROVE CInv(Late)'
<1>1. CASE Unresolved \/ SendRefused
  <2>1. UNCHANGED <<calls, peer, cmds, lost, c2s>>
    BY <1>1 DEF Unresolved, SendRefused, histVars, wire
  <2>2. c2s' \in Seq(Commands) /\ AllSafe'
    BY <2>1 DEF CInv, Types, AllSafe
  <2>. QED
    BY <1>1, <2>1, <2>2, ReturnCInv DEF Unresolved, SendRefused
<1>2. CASE UpgradeFails
  BY <1>2, GiveUpCInv DEF UpgradeFails, wire
<1>3. CASE SendCommand(Verb, 0)
  BY <1>3, VerbIsLate, SendCommandCInv
<1>4. CASE SendFails(Verb, 0)
  BY <1>4, VerbIsLate, SendFailsCInv
<1>5. CASE RecvChunk
  BY <1>5, RecvChunkPop3
<1>6. CASE RecvTimeout \/ ClosedAtOtherEnd
  BY <1>6, GiveUpCInv DEF RecvTimeout, ClosedAtOtherEnd, RecvClosed, wire
<1>. QED
  BY <1>1, <1>2, <1>3, <1>4, <1>5, <1>6 DEF Continues

\* The user calls a method.
LEMMA CallsPop3 ==
  ASSUME CInv(Late),
         \/ \E m \in Methods : Call(m)
         \/ \E e \in Endpoints : Connect(e) \/ ConnectWrongScheme(e)
         \/ Close
  PROVE  CInv(Late)'
<1>1. ASSUME NEW m \in Methods, Call(m) PROVE CInv(Late)'
  <2>1. PICK n \in Nat : Begin(m, n, FirstStep(m))
    BY <1>1, Pop3Assumption DEF Call, Pop3Assumption
  <2>. QED
    BY <2>1, MethodsAreNames, BeginCInv
<1>2. ASSUME NEW e \in Endpoints, Connect(e) PROVE CInv(Late)'
  BY <1>2, SomeNames, BeginCInv DEF Connect, ConnectTo
<1>3. ASSUME NEW e \in Endpoints, ConnectWrongScheme(e) PROVE CInv(Late)'
  <2>1. c2s' = c2s /\ peer' = peer
    BY <1>3 DEF ConnectWrongScheme, RefuseScheme, Answers, wire
  <2>2. c2s' \in Seq(Commands) /\ AllSafe'
    BY <2>1 DEF CInv, Types, AllSafe
  <2>. QED
    BY <1>3, <2>2, AnswersCInv DEF ConnectWrongScheme, RefuseScheme
<1>4. CASE Close
  BY <1>4, SomeNames, BeginCInv DEF Close
<1>. QED
  BY <1>1, <1>2, <1>3, <1>4

LEMMA NextPop3 == ASSUME CInv(Late), [Next]_vars PROVE CInv(Late)'
<1>1. CASE Dials \/ DialFailed
  BY <1>1, DialsPop3
<1>2. CASE Upgrades
  BY <1>2, UpgradesPop3
<1>3. CASE Closes
  BY <1>3, NothingInFlight, ReturnCInv DEF Closes, CloseEnds, histVars
<1>4. CASE ClientStep
  <2>1. CASE Continues
    BY <2>1, ContinuesPop3
  <2>2. CASE RecvFails
    BY <2>2, GiveUpCInv DEF RecvFails, wire
  <2>. QED
    BY <1>4, <2>1, <2>2, CallsPop3 DEF ClientStep
<1>5. CASE ServerStep
  BY <1>5, ServerTakes, ServerCInv DEF ServerStep
<1>6. CASE UNCHANGED vars \/ QuitsLate
  BY <1>6, ServerCInv DEF vars, mailVars, wire, QuitsLate
<1>. QED
  BY <1>1, <1>2, <1>3, <1>4, <1>5, <1>6 DEF Next, Departs
-----------------------------------------------------------------------------
\* connect gives the user name and the password of an endpoint with TLS or
\* STLS to nobody in clear (Pop3Client::connect logs in behind the handshake).
THEOREM Pop3CredentialsEncrypted == Spec => []CredentialsEncrypted
<1>1. CInv(Late) /\ [Next]_vars => CInv(Late)'
  BY NextPop3
<1>2. CInv(Late) => CredentialsEncrypted
  BY CInvIsEnough
<1>. QED
  BY <1>1, <1>2, InitPop3, PTL DEF Spec

\* In one step the endpoint and the connection part only by InvalidHost.
LEMMA PartsPop3 ==
  ASSUME CInv(Late), Next, ~Misplaced, Misplaced' PROVE result'.kind = "InvalidHost"
<1>. DEFINE Kept == UNCHANGED <<endpoint, peer>> /\ (chan' # "Closed" => chan # "Closed")
<1>1. CASE Dials \/ DialFailed \/ Closes
  BY <1>1, PartsAtDial DEF Dials, DialsTo, DialSucceeds, DialFailed, DialFails, Closes, CloseEnds
<1>2. CASE Unresolved
  BY <1>2 DEF Unresolved, Return
<1>3. CASE Upgrades \/ UpgradeFails
  <2>1. Kept /\ step # "dial"
    BY <1>3 DEF Upgrades, UpgradesTo, UpgradeSucceeds, UpgradeFails, GiveUp, histVars
  <2>. QED
    BY <2>1, PartsAtDial
<1>4. CASE RecvTimeout \/ RecvFails \/ ClosedAtOtherEnd
  <2>1. Kept /\ step # "dial"
    BY <1>4 DEF RecvTimeout, RecvFails, ClosedAtOtherEnd, RecvClosed, GiveUp, CInv, Placed
  <2>. QED
    BY <2>1, PartsAtDial
<1>5. CASE SendCommand(Verb, 0) \/ SendFails(Verb, 0) \/ SendRefused
  <2>1. Kept /\ step # "dial"
    BY <1>5 DEF SendCommand, SendFails, SendRefused, Sends, GiveUp, histVars
  <2>. QED
    BY <2>1, PartsAtDial
<1>6. CASE RecvChunk
  <2>1. Kept /\ step # "dial"
    BY <1>6 DEF RecvChunk, Keeps, Takes, Rejects, GiveUp, histVars, CInv, Placed
  <2>. QED
    BY <2>1, PartsAtDial
<1>7. CASE \E m \in Methods : Call(m)
  <2>1. Kept /\ step # "dial"
    BY <1>7 DEF Call, Begin, CInv, Placed
  <2>. QED
    BY <2>1, PartsAtDial
<1>8. CASE \E e \in Endpoints : Connect(e)
  BY <1>8, PartsAtDial DEF Connect, ConnectTo, Begin
<1>9. CASE \E e \in Endpoints : ConnectWrongScheme(e)
  <2>1. Kept /\ step' = step
    BY <1>9 DEF ConnectWrongScheme, RefuseScheme, Answers, callVars
  <2>. QED
    BY <2>1, PartsAtDial
<1>10. CASE ServerStep \/ QuitsLate
  BY <1>10 DEF ServerStep, QuitsLate, clientVars, histVars, callVars, Misplaced
<1>11. CASE Close
  <2>1. Kept /\ step # "dial"
    BY <1>11 DEF Close, Begin, CInv, Placed
  <2>. QED
    BY <2>1, PartsAtDial
<1>. QED
  BY <1>1, <1>2, <1>3, <1>4, <1>5, <1>6, <1>7, <1>8, <1>9, <1>10, <1>11
     DEF Next, Departs, ClientStep, Continues

\* m_endpoint is the endpoint of the open connection: stls by hand secures the
\* connection it means to, except after a connect with InvalidHost.
THEOREM Pop3EndpointFollowsConnection == Spec => EndpointFollowsConnection
<1>1. CInv(Late) /\ [Next]_vars => CInv(Late)'
  BY NextPop3
<1>2. CInv(Late) /\ [Next]_vars
        => [~Misplaced /\ Misplaced' => result'.kind = "InvalidHost"]_mailVars
  BY PartsPop3 DEF vars
<1>. QED
  BY <1>1, <1>2, InitPop3, PTL DEF Spec, EndpointFollowsConnection
-----------------------------------------------------------------------------
(* What the server keeps.                                                  *)

LEMMA PartOfInterval ==
  ASSUME NEW len \in Nat, NEW S, S \subseteq 1..len
  PROVE  IsFiniteSet(S) /\ Cardinality(S) \in Nat
<1>1. IsFiniteSet(1..len)
  BY FS_Interval
<1>2. S \in SUBSET (1..len)
  OBVIOUS
<1>3. IsFiniteSet(S)
  BY <1>1, <1>2, FS_Subset
<1>. QED
  BY <1>3, FS_CardinalityType

\* The places up to a message: one more when the message stays, and the same
\* number when it does not, so that every place is somebody's.
LEMMA EveryPlaceIsTaken ==
  ASSUME NEW len \in Nat, NEW stays, stays \subseteq 1..len,
         NEW i \in 1..Cardinality(stays)
  PROVE  \E n \in stays : Cardinality({k \in stays : k <= n}) = i
<1>. DEFINE upTo(n) == {k \in stays : k <= n}
            count(n) == Cardinality(upTo(n))
            enough == {n \in 0..len : count(n) >= i}
<1>1. \A n \in 0..len : upTo(n) \subseteq 1..len
  OBVIOUS
<1>2. ASSUME NEW n \in 0..len PROVE IsFiniteSet(upTo(n)) /\ count(n) \in Nat
  <2>1. upTo(n) \subseteq 1..len
    BY <1>1
  <2>. HIDE DEF upTo
  <2>. QED
    BY <2>1, PartOfInterval
<1>0. \A n, k : k \in upTo(n) <=> k \in stays /\ k <= n
  OBVIOUS
<1>3. upTo(len) = stays /\ upTo(0) = {}
  <2>. HIDE DEF upTo
  <2>0. \A k \in stays : k \in Nat /\ k <= len /\ ~(k <= 0)
    OBVIOUS
  <2>1. \A k : k \in upTo(len) <=> k \in stays
    BY <1>0, <2>0
  <2>2. \A k : k \notin upTo(0)
    BY <1>0, <2>0
  <2>. QED
    BY <2>1, <2>2
<1>4. count(len) >= i /\ count(0) = 0
  <2>1. Cardinality(stays) \in Nat
    BY PartOfInterval
  <2>. HIDE DEF upTo
  <2>. QED
    BY <1>3, <2>1, FS_EmptySet
<1>5. ASSUME NEW n \in 1..len
      PROVE  count(n) = IF n \in stays THEN count(n - 1) + 1 ELSE count(n - 1)
  <2>1. n - 1 \in 0..len /\ n \notin upTo(n - 1)
    BY <1>0
  <2>2. IsFiniteSet(upTo(n - 1))
    BY <1>2, <2>1
  <2>3. \A k : k \in stays => (k <= n <=> k <= n - 1 \/ k = n)
    OBVIOUS
  <2>. HIDE DEF upTo
  <2>4. CASE n \in stays
    <3>1. upTo(n) = upTo(n - 1) \cup {n}
      BY <1>0, <2>3, <2>4
    <3>. QED
      BY <2>1, <2>2, <2>4, <3>1, FS_AddElement
  <2>5. CASE n \notin stays
    <3>1. upTo(n) = upTo(n - 1)
      BY <1>0, <2>3, <2>5
    <3>. QED
      BY <2>5, <3>1
  <2>. QED
    BY <2>4, <2>5
<1>. HIDE DEF count
<1>6. len \in enough /\ enough \subseteq Nat
  BY <1>4
<1>7. PICK n \in enough : \A m \in enough : n <= m
  <2>. HIDE DEF enough
  <2>. QED
    BY <1>6, SmallestIn
<1>8. n \in 1..len /\ count(n) >= i /\ ~(count(n - 1) >= i)
  BY <1>4, <1>7
<1>9. count(n - 1) \in Nat /\ count(n) \in Nat
  <2>1. n \in 0..len /\ n - 1 \in 0..len
    BY <1>8
  <2>. QED
    BY <1>2, <2>1
<1>10. n \in stays /\ count(n) = i
  BY <1>5, <1>8, <1>9
<1>. QED
  BY <1>10 DEF count

\* A maildrop without some of its messages is a maildrop of the others.
LEMMA WithoutKeeps ==
  ASSUME NEW S, NEW drop \in Seq(S), NEW gone
  PROVE  Without(drop, gone) \in Seq(S)
<1>. DEFINE stays == {n \in DOMAIN drop : n \notin gone}
            place == [n \in stays |-> Cardinality({k \in stays : k <= n})]
            size  == Cardinality(stays)
            kept  == [i \in 1..size |-> drop[CHOOSE n \in stays : place[n] = i]]
<1>1. Without(drop, gone) = kept
  BY DEF Without
<1>2. stays \subseteq 1..Len(drop) /\ Len(drop) \in Nat /\ \A n \in stays : drop[n] \in S
  OBVIOUS
<1>3. \A i \in 1..size : \E n \in stays : Cardinality({k \in stays : k <= n}) = i
  <2>. HIDE DEF stays
  <2>. QED
    BY <1>2, EveryPlaceIsTaken
<1>4. \A i \in 1..size : \E n \in stays : place[n] = i
  <2>. HIDE DEF stays
  <2>. QED
    BY <1>3
<1>. HIDE DEF place
<1>5. size \in Nat
  <2>. HIDE DEF stays
  <2>. QED
    BY <1>2, PartOfInterval
<1>. HIDE DEF stays, size
<1>6. \A i \in 1..size : drop[CHOOSE n \in stays : place[n] = i] \in S
  BY <1>2, <1>4
<1>7. kept \in [1..size -> S]
  BY <1>6
<1>. HIDE DEF kept
<1>. QED
  BY <1>1, <1>5, <1>7
-----------------------------------------------------------------------------
\* What the server keeps, and what the caller was told of it.
Works == [user : BOOLEAN, login : BOOLEAN, marked : SUBSET Nat]
Minded ==
  /\ srv \in [open : BOOLEAN, greeted : BOOLEAN, tls : {"clear", "await", "on"}, work : Works]
  /\ ~srv.work.login => srv.work.marked = {}
  /\ srv.tls = "await" => ~srv.work.login
Stocked ==
  /\ store \in Seq(Messages)
  /\ told \in [drop : Seq(Messages), gone : SUBSET (1..MaxNumber), held : BOOLEAN]
  /\ srv.open /\ srv.work.login => told.held /\ store = told.drop
  /\ told.held => srv.work.login
  /\ srv.work.marked \subseteq DOMAIN told.drop
Serving == Minded /\ Stocked

\* Where nobody logs in, the caller is told nothing.
LEMMA NobodyAdmitted ==
  ASSUME Admits, srv'.work = srv.work PROVE told' = told
BY DEF Admits

\* What becomes of the server's side when it has read a command.
LEMMA GoneServing ==
  ASSUME Serving, srv' = Gone(srv), told' = told, store' \in Seq(Messages)
  PROVE  Serving'
<1>1. srv'.open = FALSE /\ srv'.work = srv.work /\ srv'.tls = srv.tls
  BY DEF Gone, Serving, Minded
<1>2. Minded'
  BY <1>1 DEF Gone, Serving, Minded
<1>3. Stocked'
  BY <1>1 DEF Serving, Stocked
<1>. QED
  BY <1>2, <1>3 DEF Serving

LEMMA WorkServing ==
  ASSUME Serving, NEW w \in Works, srv' = Working(w), Admits, store' = store,
         srv.work.login => w.login, srv.work.login \/ w.marked = {},
         srv.tls = "await" => ~w.login, w.marked \subseteq DOMAIN told.drop
  PROVE  Serving'
<1>1. srv'.open = srv.open /\ srv'.work = w /\ srv'.tls = srv.tls
  BY DEF Working, Serving, Minded
<1>2. Minded'
  BY <1>1 DEF Working, Serving, Minded
<1>3. Stocked'
  <2>1. CASE w.login /\ ~srv.work.login
    <3>1. told' = [drop |-> store, gone |-> {}, held |-> TRUE] /\ w.marked = {}
      BY <1>1, <2>1 DEF Admits, Snapshot
    <3>. QED
      BY <1>1, <2>1, <3>1 DEF Serving, Stocked
  <2>2. CASE ~(w.login /\ ~srv.work.login)
    <3>1. told' = told
      BY <1>1, <2>2 DEF Admits
    <3>. QED
      BY <1>1, <2>2, <3>1 DEF Serving, Stocked
  <2>. QED
    BY <2>1, <2>2
<1>. QED
  BY <1>2, <1>3 DEF Serving

LEMMA SameServing == ASSUME Serving, UNCHANGED <<srv, store, told>> PROVE Serving'
BY DEF Serving, Minded, Stocked

LEMMA RefusedServing ==
  ASSUME Serving, NEW c, Refuses(c, srv.work), Admits, store' = store, srv.tls # "await"
  PROVE  Serving'
<1>. DEFINE v == [srv.work EXCEPT !.user = FALSE]
<1>1. srv.work \in Works
  BY DEF Serving, Minded
<1>2. v \in Works /\ v.login = srv.work.login /\ v.marked = srv.work.marked
  BY <1>1 DEF Works
<1>3. srv' = Working(v)
  BY DEF Refuses
<1>. HIDE DEF v
<1>. QED
  BY <1>2, <1>3, WorkServing DEF Serving, Minded, Stocked

LEMMA AuthorizedServing ==
  ASSUME Serving, NEW c, Authorizes(c, srv.work), ~srv.work.login, srv.tls # "await",
         Admits, store' = store
  PROVE  Serving'
<1>1. srv.work \in Works /\ srv.work.marked = {}
  BY DEF Serving, Minded
<1>2. ASSUME NEW v, v \in {[srv.work EXCEPT !.user = TRUE], [srv.work EXCEPT !.login = TRUE]},
             srv' = Working(v)
      PROVE  Serving'
  <2>1. v \in Works /\ v.marked = {}
    BY <1>1, <1>2 DEF Works
  <2>. QED
    BY <1>2, <2>1, WorkServing
<1>3. CASE srv' = [srv EXCEPT !.tls = "await"]
  <2>1. srv'.open = srv.open /\ srv'.work = srv.work /\ srv'.tls = "await"
    BY <1>3 DEF Serving, Minded
  <2>2. Minded'
    BY <1>3, <2>1 DEF Serving, Minded
  <2>3. Stocked'
    BY <2>1, NobodyAdmitted DEF Serving, Stocked
  <2>. QED
    BY <2>2, <2>3 DEF Serving
<1>. QED
  BY <1>2, <1>3 DEF Authorizes

LEMMA TransactedServing ==
  ASSUME Serving, NEW c, Transacts(c, srv.work), srv.work.login, srv.open, srv.tls # "await",
         Admits, store' = store
  PROVE  Serving'
<1>1. srv.work \in Works /\ store = told.drop /\ srv.work.marked \subseteq DOMAIN told.drop
      /\ DOMAIN told.drop \subseteq Nat
  BY DEF Serving, Minded, Stocked
<1>2. CASE srv' = srv
  BY <1>2, NobodyAdmitted, SameServing
<1>3. ASSUME NEW m, m \subseteq DOMAIN told.drop, srv' = Working([srv.work EXCEPT !.marked = m])
      PROVE  Serving'
  <2>. DEFINE v == [srv.work EXCEPT !.marked = m]
  <2>1. v \in Works /\ v.login /\ v.marked = m
    BY <1>1, <1>3 DEF Works
  <2>. HIDE DEF v
  <2>2. srv' = Working(v)
    BY <1>3 DEF v
  <2>. QED
    BY <1>3, <2>1, <2>2, WorkServing
<1>4. CASE c.verb = "dele" /\ c.arg \in Listed(srv.work)
           /\ srv' = Working([srv.work EXCEPT !.marked = @ \cup {c.arg}])
  <2>. DEFINE m == srv.work.marked \cup {c.arg}
  <2>1. m \subseteq DOMAIN told.drop /\ srv' = Working([srv.work EXCEPT !.marked = m])
    BY <1>1, <1>4 DEF Listed, Works
  <2>. HIDE DEF m
  <2>. QED
    BY <1>3, <2>1
<1>5. CASE srv' = Working([srv.work EXCEPT !.marked = {}])
  BY <1>3, <1>5
<1>. QED
  BY <1>2, <1>4, <1>5 DEF Transacts

LEMMA ServedServing ==
  ASSUME Serving, Serves \/ Crash, Admits PROVE Serving'
<1>1. CASE Greets
  <2>1. /\ srv'.open = srv.open /\ srv'.work = srv.work /\ srv'.tls = srv.tls
        /\ store' = store
    BY <1>1 DEF Greets, Serving, Minded
  <2>2. Minded'
    BY <1>1, <2>1 DEF Greets, Serving, Minded
  <2>. QED
    BY <2>1, <2>2, NobodyAdmitted DEF Serving, Stocked
<1>0. ASSUME srv' = Gone(srv) PROVE told' = told
  BY <1>0, NobodyAdmitted DEF Gone, Serving, Minded
<1>2. CASE Crash \/ AbortsHandshake
  BY <1>0, <1>2, GoneServing DEF Crash, AbortsHandshake, Serving, Stocked
<1>3. CASE JoinsPartials
  BY <1>3, NobodyAdmitted, SameServing DEF JoinsPartials, serverVars
<1>4. CASE HandlesPartial
  BY <1>4, RefusedServing DEF HandlesPartial, Reads
<1>5. CASE Handles
  <2>. DEFINE c == Head(c2s)
  <2>1. srv.open /\ srv.tls # "await"
    BY <1>5 DEF Handles, Reads
  <2>2. CASE Quits(c, srv.work)
    <3>1. store' \in Seq(Messages)
      BY <2>2, WithoutKeeps DEF Quits, Serving, Stocked
    <3>. QED
      BY <1>0, <2>2, <3>1, GoneServing DEF Quits
  <2>3. CASE /\ store' = store
             /\ \/ ~srv.work.login /\ Authorizes(c, srv.work)
                \/ srv.work.login /\ Transacts(c, srv.work)
                \/ UNCHANGED srv
                \/ Refuses(c, srv.work)
    BY <2>1, <2>3, AuthorizedServing, TransactedServing, RefusedServing, SameServing,
       NobodyAdmitted
  <2>. HIDE DEF c
  <2>4. \/ Quits(c, srv.work)
        \/ /\ store' = store
           /\ \/ ~srv.work.login /\ Authorizes(c, srv.work)
              \/ srv.work.login /\ Transacts(c, srv.work)
              \/ UNCHANGED srv
              \/ Refuses(c, srv.work)
    BY <1>5 DEF Handles, c
  <2>. QED
    BY <2>2, <2>3, <2>4
<1>. QED
  BY <1>1, <1>2, <1>3, <1>4, <1>5 DEF Serves

\* The caller is told of deletions.
LEMMA ToldServing ==
  ASSUME CInv(Late), Serving, arg \in 0..MaxNumber, op = "dele" => arg # 0,
         UNCHANGED serverVars, Tells \/ told' = told
  PROVE  Serving'
<1>1. srv' = srv /\ store' = store
  BY DEF serverVars
<1>2. told.gone \subseteq 1..MaxNumber
  BY DEF Serving, Stocked
<1>3. told' = told \/ \E g : g \subseteq 1..MaxNumber /\ told' = [told EXCEPT !.gone = g]
  <2>1. CASE told' = told
    BY <2>1
  <2>2. CASE Tells
    <3>. DEFINE ok == result' # result /\ result'.kind = "reply" /\ result'.code = Ok
                g == CASE ok /\ op = "dele" -> told.gone \cup {arg}
                       [] ok /\ op = "rset" -> {}
                       [] OTHER -> told.gone
    <3>1. g \subseteq 1..MaxNumber
      BY <1>2, Pop3Assumption DEF Pop3Assumption
    <3>2. told' = [told EXCEPT !.gone = g]
      BY <2>2 DEF Tells, Serving, Stocked
    <3>. HIDE DEF g
    <3>. QED
      BY <3>1, <3>2
  <2>. QED
    BY <2>1, <2>2
<1>4. /\ told'.drop = told.drop /\ told'.held = told.held
      /\ told' \in [drop : Seq(Messages), gone : SUBSET (1..MaxNumber), held : BOOLEAN]
  BY <1>3 DEF Serving, Stocked
<1>. QED
  BY <1>1, <1>4 DEF Serving, Minded, Stocked

\* A session the client left changes the maildrop, before the next login.
LEMMA LateServing == ASSUME Serving, QuitsLate PROVE Serving'
<1>1. store' \in Seq(Messages)
  BY WithoutKeeps DEF QuitsLate, Serving, Stocked
<1>2. srv' = srv /\ ~(srv.open /\ srv.work.login) /\ told' = [told EXCEPT !.held = FALSE]
  BY DEF QuitsLate
<1>3. Minded'
  BY <1>2 DEF Serving, Minded
<1>4. Stocked'
  BY <1>1, <1>2 DEF Serving, Stocked
<1>. QED
  BY <1>3, <1>4 DEF Serving
-----------------------------------------------------------------------------
(* What the server writes.                                                 *)
StillOn == DOMAIN srv' = DOMAIN srv /\ (srv.tls = "on" => srv'.tls = "on")
StillEnc == s2c' \in Seq(Parts) /\ (srv.tls = "on" /\ AllEnc(s2c) => AllEnc(s2c'))

LEMMA StatusEnc ==
  ASSUME Wired, NEW c, c.no \in Nat, NEW code \in Nat, Status(c, code) PROVE StillEnc
<1>1. ASSUME NEW k \in Nat, Writes(<<Line(c.no, k, TRUE)>>) PROVE StillEnc
  <2>. DEFINE lines == <<Line(c.no, k, TRUE)>>
  <2>1. lines \in Seq(Lines) /\ \A i \in DOMAIN lines : lines[i].enc = (srv.tls = "on")
    BY DEF Line, Lines
  <2>. QED
    BY <1>1, <2>1, WrittenStream DEF StillEnc
<1>. QED
  BY <1>1 DEF Status, WritesBadLine

\* The lines of a reply with a text.
Texts(c, body) ==
  [i \in 1..(Len(body) + 2) |->
     Line(c.no, IF i = 1 THEN Ok ELSE IF i = Len(body) + 2 THEN Dot ELSE body[i - 1],
          i = Len(body) + 2)]

LEMMA TextsLines ==
  ASSUME NEW c, c.no \in Nat, NEW body \in Seq({Ok, Err, Text})
  PROVE  /\ Texts(c, body) \in Seq(Lines) /\ Len(Texts(c, body)) = Len(body) + 2
         /\ \A i \in DOMAIN Texts(c, body) : Texts(c, body)[i].enc = (srv.tls = "on")
<1>1. \A i \in 1..(Len(body) + 2) : i # 1 /\ i # Len(body) + 2 => body[i - 1] \in {Ok, Err, Text}
  OBVIOUS
<1>2. {Ok, Err, Dot, Text} \subseteq Nat
  BY DEF Ok, Err, Dot, Text
<1>3. \A i \in 1..(Len(body) + 2) : Texts(c, body)[i] \in Lines
                                    /\ Texts(c, body)[i].enc = (srv.tls = "on")
  BY <1>1, <1>2 DEF Texts, Line, Lines
<1>. QED
  BY <1>3 DEF Texts

LEMMA WritesTexts ==
  ASSUME NEW c, NEW body \in Seq({Ok, Err, Text}), WithText(c, body)
  PROVE  Writes(Texts(c, body)) \/ WritesBadLine(c.no)
<1>. DEFINE codes == <<Ok>> \o body \o <<Dot>>
<1>1. /\ DOMAIN codes = 1..(Len(body) + 2) /\ Len(codes) = Len(body) + 2
      /\ \A i \in 1..(Len(body) + 2) :
           codes[i] = IF i = 1 THEN Ok ELSE IF i = Len(body) + 2 THEN Dot ELSE body[i - 1]
  BY DEF Ok, Dot, Err, Text
<1>. HIDE DEF codes
<1>2. [i \in DOMAIN codes |-> Line(c.no, codes[i], i = Len(codes))] = Texts(c, body)
  BY <1>1 DEF Texts
<1>. QED
  BY <1>2 DEF WithText, codes

LEMMA WithTextEnc ==
  ASSUME Wired, NEW c, c.no \in Nat, NEW body \in Seq({Ok, Err, Text}), WithText(c, body)
  PROVE  StillEnc
<1>1. CASE Writes(Texts(c, body))
  BY <1>1, TextsLines, WrittenStream DEF StillEnc
<1>2. CASE WritesBadLine(c.no)
  BY <1>2, StatusEnc DEF Status
<1>. QED
  BY <1>1, <1>2, WritesTexts

LEMMA WritesNothing == ASSUME Wired, s2c' = s2c PROVE StillEnc
BY DEF Wired, StillEnc, AllEnc

LEMMA Bodies ==
  ASSUME Serving
  PROVE  /\ \A n \in Nat : [i \in 1..n |-> Text] \in Seq({Ok, Err, Text})
         /\ <<Text>> \in Seq({Ok, Err, Text})
         /\ \A n \in DOMAIN store : store[n] \in Seq({Ok, Err, Text})
         /\ Cardinality(Listed(srv.work)) \in Nat
<1>1. Listed(srv.work) \subseteq 1..Len(store) /\ Len(store) \in Nat
  BY DEF Serving, Stocked, Listed
<1>2. Cardinality(Listed(srv.work)) \in Nat
  BY <1>1, PartOfInterval
<1>3. ASSUME NEW n \in Nat PROVE [i \in 1..n |-> Text] \in Seq({Ok, Err, Text})
  OBVIOUS
<1>4. <<Text>> \in Seq({Ok, Err, Text})
  OBVIOUS
<1>5. \A n \in DOMAIN store : store[n] \in Seq({Ok, Err, Text})
  BY DEF Serving, Stocked, Messages
<1>. QED
  BY <1>2, <1>3, <1>4, <1>5

\* The next command in flight, and the one behind it.
LEMMA Numbered ==
  ASSUME CInv(Late), c2s # <<>>
  PROVE  Head(c2s) \in Commands /\ Head(c2s) = c2s[1] /\ Head(c2s).no \in Nat
         /\ (Len(c2s) > 1 => c2s[2].no \in Nat)
<1>1. c2s \in Seq(Commands)
  BY DEF CInv, Types
<1>2. Head(c2s) \in Commands /\ Head(c2s) = c2s[1] /\ (Len(c2s) > 1 => c2s[2] \in Commands)
  BY <1>1
<1>3. \A c \in Commands : c.no \in Nat
  BY DEF Commands
<1>. QED
  BY <1>2, <1>3

LEMMA WorkingOn ==
  ASSUME Serving, NEW w, srv' = Working(w) \/ srv' = Gone(srv) \/ srv' = srv PROVE StillOn
BY DEF Serving, Minded, StillOn, Working, Gone

LEMMA HandlesEnc ==
  ASSUME CInv(Late), Wired, Serving, Handles PROVE StillOn /\ StillEnc
<1>. DEFINE c == Head(c2s)
            w == srv.work
<1>1. c.no \in Nat
  BY Numbered DEF Handles, Reads
<1>2. Ok \in Nat /\ Err \in Nat
  BY DEF Ok, Err
<1>3. \/ ~w.login /\ Authorizes(c, w)
      \/ w.login /\ Transacts(c, w)
      \/ WithText(c, <<Text>>) /\ UNCHANGED srv
      \/ Refuses(c, w) \/ Quits(c, w)
  BY DEF Handles
<1>. HIDE DEF c
<1>4. CASE Authorizes(c, w)
  BY <1>1, <1>2, <1>4, StatusEnc, WorkingOn DEF Authorizes, StillOn, Serving, Minded
<1>5. CASE Transacts(c, w)
  <2>1. StillOn
    BY <1>5, WorkingOn DEF Transacts
  <2>2. StillEnc
    BY <1>1, <1>2, <1>5, StatusEnc, WithTextEnc, Bodies DEF Transacts, Listed
  <2>. QED
    BY <2>1, <2>2
<1>6. CASE WithText(c, <<Text>>) /\ UNCHANGED srv
  BY <1>1, <1>6, WithTextEnc, Bodies, WorkingOn
<1>7. CASE Refuses(c, w) \/ Quits(c, w)
  BY <1>1, <1>2, <1>7, StatusEnc, WorkingOn DEF Refuses, Quits
<1>. QED
  BY <1>3, <1>4, <1>5, <1>6, <1>7

LEMMA ServesEnc ==
  ASSUME CInv(Late), Wired, Serving, Serves \/ Crash PROVE StillOn /\ StillEnc
<1>0. Ok \in Nat /\ Err \in Nat
  BY DEF Ok, Err
<1>1. CASE Greets
  <2>1. StillEnc
    BY <1>0, <1>1, StatusEnc DEF Greets
  <2>2. StillOn
    BY <1>1 DEF Greets, StillOn, Serving, Minded
  <2>. QED
    BY <2>1, <2>2
<1>2. CASE JoinsPartials \/ AbortsHandshake
  BY <1>2, WritesNothing, WorkingOn DEF JoinsPartials, AbortsHandshake, serverVars, wire
<1>3. CASE HandlesPartial
  <2>1. c2s[2].no \in Nat /\ Refuses(c2s[2], srv.work)
    BY <1>3, Numbered DEF HandlesPartial, Reads
  <2>. QED
    BY <1>0, <2>1, StatusEnc, WorkingOn DEF Refuses
<1>4. CASE Handles
  BY <1>4, HandlesEnc
<1>5. CASE Crash
  <2>1. PICK n \in 0..Len(s2c) : s2c' = SubSeq(s2c, 1, n)
    BY <1>5 DEF Crash
  <2>2. StillEnc
    BY <2>1, PieceOfStream DEF StillEnc, Wired
  <2>. QED
    BY <1>5, <2>2, WorkingOn DEF Crash
<1>. QED
  BY <1>1, <1>2, <1>3, <1>4, <1>5 DEF Serves

LEMMA RecvChunkWired ==
  ASSUME Wired, RecvChunk, srv' = srv PROVE Wired'
<1>1. PICK chunk \in Chunks :
        \/ Keeps(chunk)
        \/ \E lines, next, code : Takes(chunk, lines) /\ Proceed(next, code)
        \/ \E lines, kind, code : Takes(chunk, lines) /\ Return(kind, code)
        \/ Rejects(chunk)
  BY DEF RecvChunk
<1>2. CASE Keeps(chunk)
  BY <1>2, KeepsWired DEF RecvChunk
<1>3. CASE ~Keeps(chunk)
  <2>1. chan' = chan /\ buffer' = <<>> /\ s2c' = After(chunk)
    BY <1>1, <1>3 DEF Takes, Rejects, GiveUp, Proceed, Return
  <2>. QED
    BY <2>1, ChunkOfStream, EmptiedWired DEF Wired
<1>. QED
  BY <1>2, <1>3

LEMMA ContinuesWired ==
  ASSUME Wired, Continues, srv' = srv PROVE Wired'
<1>1. CASE Unresolved \/ UpgradeFails \/ SendRefused \/ RecvTimeout \/ ClosedAtOtherEnd
           \/ SendFails(Verb, 0)
  <2>1. chan' = chan /\ s2c' = s2c
    BY <1>1 DEF Unresolved, UpgradeFails, SendFails, SendRefused, RecvTimeout,
       ClosedAtOtherEnd, RecvClosed, wire
  <2>2. buffer' = <<>>
    BY <1>1 DEF Unresolved, UpgradeFails, SendFails, SendRefused, RecvTimeout,
       ClosedAtOtherEnd, RecvClosed, GiveUp, Return
  <2>. QED
    BY <2>1, <2>2, EmptiedWired DEF Wired, AllEnc
<1>2. CASE SendCommand(Verb, 0)
  BY <1>2, UnchangedWired DEF SendCommand
<1>3. CASE RecvChunk
  BY <1>3, RecvChunkWired
<1>. QED
  BY <1>1, <1>2, <1>3 DEF Continues

LEMMA NextWired == ASSUME CInv(Late), Wired, Serving, [Next]_vars PROVE Wired'
<1>1. CASE Dials
  <2>1. NextStep("dial") # "done"
    BY DEF NextStep
  <2>. QED
    BY <1>1, <2>1, DialWired DEF Dials
<1>2. CASE DialFailed \/ Closes
  BY <1>2, GoneWired DEF DialFailed, DialFails, Return, Closes, CloseEnds
<1>3. CASE Upgrades
  BY <1>3, UpgradeWired DEF Upgrades
<1>4. CASE ClientStep
  <2>1. srv' = srv
    BY <1>4 DEF ClientStep, Continues, serverVars
  <2>2. CASE Continues
    BY <2>1, <2>2, ContinuesWired
  <2>3. CASE RecvFails
    <3>1. chan' = chan /\ s2c' = s2c /\ buffer' = <<>>
      BY <2>3 DEF RecvFails, GiveUp, Return, wire
    <3>. QED
      BY <2>1, <3>1, EmptiedWired DEF Wired, AllEnc
  <2>4. CASE \/ \E m \in Methods : Call(m)
             \/ \E e \in Endpoints : Connect(e) \/ ConnectWrongScheme(e)
             \/ Close
    <3>1. UNCHANGED <<chan, buffer, reading, s2c>>
      BY <2>4 DEF Call, Close, Connect, ConnectTo, Begin, ConnectWrongScheme, RefuseScheme,
         Answers, callVars, wire
    <3>. QED
      BY <2>1, <3>1, UnchangedWired
  <2>. QED
    BY <1>4, <2>2, <2>3, <2>4 DEF ClientStep
<1>5. CASE ServerStep
  BY <1>5, ServesEnc, ServerWired DEF ServerStep, StillOn, StillEnc
<1>6. CASE UNCHANGED vars \/ QuitsLate
  BY <1>6, UnchangedWired DEF vars, mailVars, wire, clientVars, callVars, serverVars, QuitsLate
<1>. QED
  BY <1>1, <1>2, <1>3, <1>4, <1>5, <1>6 DEF Next, Departs
-----------------------------------------------------------------------------
(* Types: the commands in flight have numbers that were given out, and the *)
(* server's side is as the maildrop that was there at the login.           *)

Typed == Running(MaxNumber) /\ Sequenced /\ Serving /\ (op = "dele" => arg # 0)

LEMMA NextSocketed == ASSUME Socketed, [Next]_vars PROVE Socketed'
<1>1. CASE Dials
  BY <1>1, DialsSocketed DEF Dials, DialsTo
<1>2. CASE DialFailed
  BY <1>2, DialFailedSocketed DEF DialFailed
<1>3. CASE Closes
  BY <1>3 DEF Closes, CloseEnds, Socketed
<1>4. CASE Upgrades
  BY <1>4 DEF Upgrades, UpgradesTo, UpgradeSucceeds, Socketed
<1>5. CASE Continues
  <2>1. CASE Unresolved \/ SendRefused \/ RecvTimeout \/ ClosedAtOtherEnd
    BY <2>1 DEF Unresolved, SendRefused, RecvTimeout, ClosedAtOtherEnd, RecvClosed, Socketed
  <2>2. CASE UpgradeFails
    BY <2>2 DEF UpgradeFails, Socketed
  <2>3. CASE SendCommand(Verb, 0) \/ SendFails(Verb, 0)
    BY <2>3 DEF SendCommand, SendFails, Socketed
  <2>4. CASE RecvChunk
    BY <2>4 DEF RecvChunk, Keeps, Takes, Rejects, Socketed
  <2>. QED
    BY <1>5, <2>1, <2>2, <2>3, <2>4 DEF Continues
<1>6. CASE \/ \E m \in Methods : Call(m)
           \/ \E e \in Endpoints : Connect(e) \/ ConnectWrongScheme(e)
           \/ Close
  BY <1>6 DEF Call, Connect, ConnectTo, ConnectWrongScheme, RefuseScheme, Answers, Begin, Close,
     Socketed
<1>7. CASE RecvFails
  BY <1>7 DEF RecvFails, Socketed
<1>8. CASE ServerStep \/ QuitsLate \/ UNCHANGED vars
  BY <1>8 DEF ServerStep, QuitsLate, vars, mailVars, clientVars, Socketed
<1>. QED
  BY <1>1, <1>2, <1>3, <1>4, <1>5, <1>6, <1>7, <1>8 DEF Next, Departs, ClientStep

LEMMA TypedIsEnough == ASSUME CInv(Late), Wired, Socketed, Typed PROVE TypeOK
<1>1. c2s \in Seq(Commands) /\ reading \in BOOLEAN /\ {cmds, lost} \subseteq Nat
  BY DEF CInv, Types, Counts
<1>2. \A c \in InFlight : c.no \in 1..(cmds + 1) /\ c.whole \in BOOLEAN
  <2>1. SUFFICES ASSUME NEW i \in DOMAIN c2s
                 PROVE  c2s[i].no \in 1..(cmds + 1) /\ c2s[i].whole \in BOOLEAN
    BY DEF InFlight
  <2>2. c2s[i] \in Commands
    BY <1>1
  <2>. QED
    BY <2>2 DEF Typed, Sequenced, Commands
<1>3. /\ srv.tls \in {"clear", "await", "on"} /\ srv.work.marked \subseteq DOMAIN told.drop
      /\ told.gone \subseteq 1..MaxNumber
  BY DEF Typed, Serving, Minded, Stocked
<1>. QED
  BY <1>1, <1>2, <1>3 DEF TypeOK, MailTypeOK, Typed, Running, Wired, Socketed

\* The client goes on or its call returns.
LEMMA ContinuesTyped ==
  ASSUME CInv(Late), Wired, Typed, Continues
  PROVE  Running(MaxNumber)' /\ Sequenced' /\ arg' = arg /\ (op' = op \/ op' = "none")
<1>3. CASE Unresolved \/ SendRefused \/ UpgradeFails \/ RecvTimeout \/ ClosedAtOtherEnd
  <2>1. /\ UNCHANGED <<c2s, cmds, chan, endpoint, calls, peer>>
        /\ \E kind, code : Return(kind, code)
    BY <1>3 DEF Unresolved, SendRefused, UpgradeFails, RecvTimeout, ClosedAtOtherEnd, RecvClosed,
       GiveUp, histVars, wire
  <2>2. Running(MaxNumber)'
    BY <2>1, GoesOnRuns DEF Typed, Running
  <2>. QED
    BY <2>1, <2>2, StillSequenced DEF Typed, Return
<1>4. CASE SendFails(Verb, 0)
  <2>. DEFINE c == Command(Verb, 0, FALSE)
  <2>1. /\ c.no = cmds + 1 /\ c2s' \in {c2s, Append(c2s, c)}
        /\ UNCHANGED <<cmds, chan, endpoint, calls, peer>> /\ \E kind, code : Return(kind, code)
    BY <1>4 DEF SendFails, Command, GiveUp
  <2>. HIDE DEF c
  <2>2. Running(MaxNumber)'
    BY <2>1, GoesOnRuns DEF Typed, Running
  <2>. QED
    BY <2>1, <2>2, SentSequenced DEF Typed, Return
<1>5. CASE SendCommand(Verb, 0)
  <2>. DEFINE c == Command(Verb, 0, TRUE)
  <2>1. /\ c.no = cmds + 1 /\ c2s' = Append(c2s, c) /\ cmds' = cmds + 1 /\ turn' = 0
        /\ UNCHANGED <<chan, op, arg, endpoint, calls, peer, result>>
    BY <1>5 DEF SendCommand, Command
  <2>. HIDE DEF c
  <2>2. turn' \in 0..arg
    BY <2>1, Pop3Assumption DEF Pop3Assumption, Typed, Running
  <2>3. Running(MaxNumber)'
    BY <2>1, <2>2 DEF Typed, Running
  <2>. QED
    BY <2>1, <2>3, SentSequenced DEF Typed
<1>6. CASE RecvChunk
  <2>1. PICK chunk \in Chunks :
          \/ Keeps(chunk)
          \/ \E lines, next, code : Takes(chunk, lines) /\ Proceed(next, code)
          \/ \E lines, kind, code : Takes(chunk, lines) /\ Return(kind, code)
          \/ Rejects(chunk)
    BY <1>6 DEF RecvChunk
  <2>2. CASE Keeps(chunk)
    BY <2>2, StillSequenced DEF Keeps, histVars, Typed, Running
  <2>3. CASE ~Keeps(chunk)
    <3>1. /\ UNCHANGED <<c2s, cmds, chan, endpoint, calls, peer>>
          /\ \E next, kind, code : Proceed(next, code) \/ Return(kind, code)
      BY <2>1, <2>3 DEF Takes, Rejects, GiveUp
    <3>2. Running(MaxNumber)'
      BY <3>1, GoesOnRuns DEF Typed, Running
    <3>. QED
      BY <3>1, <3>2, StillSequenced DEF Typed, Proceed, Return
  <2>. QED
    BY <2>2, <2>3
<1>. QED
  BY <1>3, <1>4, <1>5, <1>6 DEF Continues

LEMMA CallsTyped ==
  ASSUME CInv(Late), Typed,
         \/ \E m \in Methods : Call(m)
         \/ \E e \in Endpoints : Connect(e) \/ ConnectWrongScheme(e)
         \/ Close
  PROVE  Running(MaxNumber)' /\ Sequenced' /\ (op' = "dele" => arg' # 0)
<1>1. /\ UNCHANGED <<c2s, cmds, chan, peer>> /\ calls < MaxCalls /\ calls' = calls + 1
      /\ endpoint' \in Endpoints \cup {endpoint}
      /\ op' \in Methods \cup {op, "connect", "close"}
      /\ result' = result \/ result'.call = calls + 1
      /\ (turn' = turn /\ arg' = arg) \/ (turn' = 0 /\ arg' \in 0..MaxNumber)
      /\ op' = "dele" => (op' = op /\ arg' = arg) \/ arg' \in 1..MaxNumber
  <2>1. ASSUME NEW m \in Methods, Call(m)
        PROVE  \E n \in 0..MaxNumber : Begin(m, n, FirstStep(m)) /\ endpoint' = endpoint
                                       /\ (m = "dele" => n # 0)
    BY <2>1, Pop3Assumption DEF Pop3Assumption, Call
  <2>2. CASE \E m \in Methods : Call(m)
    BY <2>1, <2>2 DEF Begin, wire
  <2>3. CASE Close \/ \E e \in Endpoints : Connect(e) \/ ConnectWrongScheme(e)
    BY <2>3, Pop3Assumption DEF Pop3Assumption, Close, Connect, ConnectTo, Begin,
       ConnectWrongScheme, RefuseScheme, Answers, callVars, wire
  <2>. QED
    BY <2>2, <2>3
<1>2. calls \in Nat /\ MaxCalls \in Nat /\ MaxNumber \in Nat
  BY ClientAssumption, Pop3Assumption DEF ClientAssumption, Pop3Assumption, CInv, Types, Counts
<1>3. turn' \in 0..arg' /\ arg' \in 0..MaxNumber
  BY <1>1, <1>2 DEF Typed, Running
<1>4. calls' \in 0..MaxCalls /\ result'.call \in Nat /\ result'.call <= calls'
  BY <1>1, <1>2 DEF Typed, Running
<1>5. Running(MaxNumber)'
  BY <1>1, <1>3, <1>4 DEF Typed, Running
<1>. QED
  BY <1>1, <1>5, StillSequenced DEF Typed

LEMMA ServerTyped ==
  ASSUME CInv(Late), Typed, UNCHANGED clientVars, Admits, Serves \/ Crash PROVE Typed'
<1>1. Running(MaxNumber)' /\ (op' = "dele" => arg' # 0)
  BY DEF clientVars, callVars, histVars, Typed, Running
<1>2. Sequenced'
  <2>1. PICK k \in 0..2 :
          \A i \in DOMAIN c2s' : i + k \in DOMAIN c2s /\ c2s'[i] = c2s[i + k] /\ i \in Nat
    BY ServerTakes, TakenFromFront DEF CInv, Types
  <2>. QED
    BY <2>1 DEF clientVars, histVars, Typed, Sequenced
<1>. QED
  BY <1>1, <1>2, ServedServing DEF Typed

\* A connection begins, is encrypted or ends.
LEMMA FreshServing ==
  ASSUME Serving, NEW tls \in {"clear", "on"}, srv' = Fresh(tls, NewWork), store' = store,
         told' = Snapshot(FALSE)
  PROVE  Serving'
BY DEF Serving, Minded, Stocked, Fresh, NewWork, Works, Snapshot

LEMMA SecuredServing ==
  ASSUME Serving, srv.tls = "await", srv' = Secured(srv, NewWork), UNCHANGED <<store, told>>
  PROVE  Serving'
<1>1. srv' \in [open : BOOLEAN, greeted : BOOLEAN, tls : {"clear", "await", "on"}, work : Works]
      /\ srv'.open = srv.open /\ srv'.tls = "on" /\ srv'.work = NewWork
  BY DEF Serving, Minded, Secured, NewWork, Works
<1>. QED
  BY <1>1 DEF Serving, Minded, Stocked, NewWork

LEMMA NextTyped ==
  ASSUME CInv(Late), Wired, Typed, [Next]_vars PROVE Typed'
<1>1. calls \in Nat /\ MaxCalls \in Nat
  BY ClientAssumption DEF ClientAssumption, CInv, Types, Counts
<1>2. CASE Dials
  <2>1. /\ Proceed(NextStep("dial"), 0) /\ chan' \in {"Plain", "Tls"} /\ peer' = endpoint
        /\ UNCHANGED <<endpoint, calls>> /\ c2s' = <<>> /\ store' = store
        /\ srv' = Fresh(IF endpoint.security = "Tls" THEN "on" ELSE "clear", NewWork)
    BY <1>2 DEF Dials, DialsTo, DialSucceeds
  <2>2. Running(MaxNumber)'
    BY <2>1, GoesOnRuns DEF Typed
  <2>3. Serving'
    BY <1>2, <2>1, FreshServing DEF Typed, Dials
  <2>4. Sequenced' /\ (op' = "dele" => arg' # 0)
    BY <2>1 DEF Sequenced, Proceed, Return, Typed
  <2>. QED
    BY <2>2, <2>3, <2>4 DEF Typed
<1>3. CASE DialFailed /\ UNCHANGED told
  <2>1. /\ Return("ConnectionError", 0) /\ chan' = "Closed" /\ peer' = peer
        /\ UNCHANGED <<endpoint, calls, store>> /\ c2s' = <<>> /\ srv' = Gone(srv)
    BY <1>3 DEF DialFailed, DialFails, histVars
  <2>2. Running(MaxNumber)'
    BY <2>1, GoesOnRuns DEF Typed
  <2>3. Sequenced' /\ Serving' /\ op' = "none"
    BY <1>3, <2>1, GoneServing DEF Sequenced, Typed, Serving, Stocked, Return
  <2>. QED
    BY <2>2, <2>3 DEF Typed
<1>4. CASE Closes /\ UNCHANGED told
  <2>1. /\ Return("ok", 0) /\ chan' = "Closed" /\ peer' = peer
        /\ UNCHANGED <<endpoint, calls, store>> /\ c2s' = <<>> /\ srv' = Gone(srv)
    BY <1>4 DEF Closes, CloseEnds, histVars
  <2>2. Running(MaxNumber)'
    BY <2>1, GoesOnRuns DEF Typed
  <2>3. Sequenced' /\ Serving' /\ op' = "none"
    BY <1>4, <2>1, GoneServing DEF Sequenced, Typed, Serving, Stocked, Return
  <2>. QED
    BY <2>2, <2>3 DEF Typed
<1>5. CASE Upgrades
  <2>1. /\ Proceed(NextStep("upgrade"), LastCode) /\ chan' = "Tls"
        /\ UNCHANGED <<endpoint, calls, peer, c2s, cmds, store, told>>
        /\ srv' = Secured(srv, NewWork) /\ srv.tls = "await"
    BY <1>5 DEF Upgrades, UpgradesTo, UpgradeSucceeds, histVars, wire
  <2>2. Running(MaxNumber)'
    BY <2>1, GoesOnRuns DEF Typed
  <2>3. Serving' /\ (op' = "dele" => arg' # 0)
    BY <2>1, SecuredServing DEF Typed, Proceed, Return
  <2>. QED
    BY <2>1, <2>2, <2>3, StillSequenced DEF Typed
<1>6. CASE ClientStep
  <2>1. UNCHANGED serverVars /\ (Tells \/ told' = told)
    BY <1>6 DEF ClientStep, Continues
  <2>2. Serving'
    BY <2>1, ToldServing DEF Typed, Running
  <2>3. CASE RecvFails
    <3>1. /\ UNCHANGED <<c2s, cmds, chan, endpoint, calls, peer>> /\ Return("RecvError", 0)
      BY <2>3 DEF RecvFails, GiveUp, wire
    <3>2. Running(MaxNumber)'
      BY <3>1, GoesOnRuns DEF Typed, Running
    <3>. QED
      BY <2>2, <3>1, <3>2, StillSequenced DEF Typed, Return
  <2>4. CASE Continues
    BY <2>2, <2>4, ContinuesTyped DEF Typed
  <2>. QED
    BY <1>6, <2>2, <2>3, <2>4, CallsTyped DEF ClientStep, Typed
<1>7. CASE ServerStep
  BY <1>7, ServerTyped DEF ServerStep
<1>8. CASE UNCHANGED vars
  BY <1>8, SameServing DEF vars, mailVars, clientVars, callVars, histVars, wire, serverVars,
     Typed, Running, Sequenced
<1>9. CASE QuitsLate
  BY <1>9, LateServing DEF QuitsLate, clientVars, callVars, histVars, wire, Typed, Running,
     Sequenced
<1>. QED
  BY <1>2, <1>3, <1>4, <1>5, <1>6, <1>7, <1>8, <1>9 DEF Next, Departs

LEMMA InitTyped == ASSUME Init PROVE Wired /\ Typed /\ Socketed
<1>1. srv = Gone(Fresh("clear", NewWork)) /\ store = Maildrop
      /\ told = [drop |-> Maildrop, gone |-> {}, held |-> FALSE]
  BY DEF Init, SessionInit, ServerInit, Snapshot
<1>2. srv = [open |-> FALSE, greeted |-> FALSE, tls |-> "clear", work |-> NewWork]
  BY <1>1 DEF Gone, Fresh
<1>3. Serving
  <2>1. Minded
    BY <1>2 DEF Minded, NewWork, Works
  <2>2. /\ told.drop = Maildrop /\ told.gone = {} /\ told.held = FALSE
        /\ DOMAIN told = {"drop", "gone", "held"}
    BY <1>1
  <2>3. Stocked
    BY <1>1, <1>2, <2>2, MaildropAssumption DEF MaildropAssumption, Stocked, NewWork
  <2>. QED
    BY <2>1, <2>3 DEF Serving
<1>4. Wired
  BY <1>2, NothingUnread DEF Init, SessionInit, ClientInit, Wired
<1>5. Running(MaxNumber) /\ Sequenced /\ op = "none"
  BY ClientAssumption, Pop3Assumption DEF ClientAssumption, Pop3Assumption, Init, SessionInit,
     ClientInit, Running, Sequenced
<1>6. Socketed
  BY DEF Init, SessionInit, ClientInit, Socketed
<1>. QED
  BY <1>3, <1>4, <1>5, <1>6 DEF Typed
-----------------------------------------------------------------------------
(* The account of one connection on which nothing was given up.            *)

Calm == chan # "Closed" /\ lost = 0

LineAt(k) == Unread[2 * k].line
Said      == IF Len(Unread) > 1 THEN LineAt(1).code ELSE 0

\* The k-th line unread ends the reply, as the client would say.
EndsAt(k) == IF Multiline /\ Said = Ok THEN k > 1 /\ LineAt(k).code = Dot ELSE k = 1

\* What is unread is (the beginning of) the reply to the last command.
OneReply ==
  /\ \A i \in DOMAIN Unread : Unread[i].line.re = cmds
  /\ \A k \in 1..(Len(Unread) \div 2) :
       /\ LineAt(k).last <=> EndsAt(k)
       /\ EndsAt(k) => Len(Unread) = 2 * k

\* A text that follows the status.
Carries(body) ==
  \A k \in 2..(Len(Unread) \div 2) :
    IF k - 1 \in DOMAIN body THEN LineAt(k).code = body[k - 1]
    ELSE k = Len(body) + 2 /\ LineAt(k).code = Dot

\* The messages that will not be in the maildrop, when the status has been read.
Marks == CASE step = "dele" /\ Said = Ok -> told.gone \cup {arg}
           [] step = "rset" /\ Said = Ok -> {}
           [] OTHER -> told.gone

\* What a reply that is understood says is so.
Meant == Said \in {Ok, Err} =>
  /\ srv.work.marked = Marks
  /\ Said = Ok /\ step = "pass" => srv.work.login
  /\ Said = Ok /\ step \in {"retr", "dele"} => arg \in DOMAIN told.drop \ told.gone
  /\ Said = Ok /\ step = "retr" => Carries(told.drop[arg])
  /\ Said = Ok /\ step = "quit" =>
       ~srv.open /\ (told.held => store = Without(told.drop, told.gone))
  /\ Said = Err /\ step = "quit" /\ told.held => store = told.drop

\* Nothing under way; the greeting awaited or arriving; a command on its way;
\* its reply on its way.
Idle     == c2s = <<>> /\ Unread = <<>> /\ srv.greeted /\ srv.work.marked = told.gone
Greeting == /\ c2s = <<>> /\ cmds = 0 /\ reply = <<>> /\ OneReply
            /\ srv.work.marked = told.gone /\ (~srv.greeted => Unread = <<>>)
Pending  == /\ Len(c2s) = 1 /\ Unread = <<>> /\ srv.greeted /\ srv.work.marked = told.gone
            /\ c2s[1].no = cmds /\ c2s[1].verb = step /\ c2s[1].arg = arg /\ c2s[1].whole
Answered == c2s = <<>> /\ srv.greeted /\ OneReply /\ Meant

Accounted == Calm =>
  /\ ~reading => Idle
  /\ reading /\ step = "greeting" => Greeting
  /\ reading /\ step # "greeting" => Pending \/ Answered

\* A method of one command is at the step named like it, and its result is not
\* there yet.
Stepped ==
  /\ step \in Simple => op = step
  /\ op \in Simple => step = op
  /\ op # "none" => result.call < calls
-----------------------------------------------------------------------------
LEMMA InitStepped == ASSUME Init PROVE Stepped
BY DEF Init, SessionInit, ClientInit, Stepped, Simple

LEMMA NextNotSimple == NextStep(step) \notin Simple /\ (op \in Simple /\ step = op => NextStep(step) = "done")
BY DEF NextStep, AfterGreeting, LoginStep, Simple

LEMMA NextStepped == ASSUME CInv(Late), Typed, Stepped, [Next]_vars PROVE Stepped'
<1>1. calls \in Nat /\ result.call \in Nat /\ result.call <= calls
  BY DEF CInv, Types, Counts, Typed, Running
<1>2. ASSUME NEW kind, NEW code, Return(kind, code) PROVE Stepped'
  BY <1>2 DEF Return, Stepped, Simple
<1>3. ASSUME NEW code, Proceed(NextStep(step), code), calls' = calls PROVE Stepped'
  <2>1. CASE NextStep(step) = "done"
    BY <1>2, <1>3, <2>1 DEF Proceed
  <2>2. CASE NextStep(step) # "done"
    <3>1. op \notin Simple /\ step' = NextStep(step) /\ UNCHANGED <<op, result>>
      BY <1>3, <2>2, NextNotSimple DEF Proceed, Stepped
    <3>. QED
      BY <1>3, <3>1, NextNotSimple DEF Stepped
  <2>. QED
    BY <2>1, <2>2
<1>4. CASE Dials \/ Upgrades
  BY <1>3, <1>4 DEF Dials, DialsTo, DialSucceeds, Upgrades, UpgradesTo, UpgradeSucceeds, histVars
<1>5. CASE DialFailed
  BY <1>2, <1>5 DEF DialFailed, DialFails
<1>6. CASE Closes
  BY <1>2, <1>6 DEF Closes, CloseEnds
<1>7. CASE Continues
  <2>1. CASE Unresolved \/ UpgradeFails \/ SendFails(Verb, 0) \/ SendRefused \/ RecvTimeout
             \/ ClosedAtOtherEnd
    BY <1>2, <2>1 DEF Unresolved, UpgradeFails, SendFails, SendRefused, RecvTimeout,
       ClosedAtOtherEnd, RecvClosed, GiveUp
  <2>2. CASE SendCommand(Verb, 0)
    BY <2>2 DEF SendCommand, Stepped
  <2>3. CASE RecvChunk
    <3>1. PICK chunk \in Chunks :
            \/ Keeps(chunk)
            \/ \E lines, code : Takes(chunk, lines) /\ Proceed(NextStep(step), code)
            \/ \E lines, kind, code : Takes(chunk, lines) /\ Return(kind, code)
            \/ Rejects(chunk)
      BY <2>3 DEF RecvChunk
    <3>2. CASE Keeps(chunk)
      BY <3>2 DEF Keeps, histVars, Stepped
    <3>3. CASE ~Keeps(chunk)
      BY <1>2, <1>3, <3>1, <3>3 DEF Takes, Rejects, GiveUp
    <3>. QED
      BY <3>2, <3>3
  <2>. QED
    BY <1>7, <2>1, <2>2, <2>3 DEF Continues
<1>8. CASE RecvFails
  BY <1>2, <1>8 DEF RecvFails, GiveUp
<1>9. CASE \E m \in Methods : Call(m)
  <2>1. PICK m \in Methods : Call(m)
    BY <1>9
  <2>2. /\ op' = m /\ step' = FirstStep(m) /\ calls' = calls + 1 /\ result' = result
        /\ m \in AllMethods
    BY <2>1, Pop3Assumption DEF Pop3Assumption, Call, Begin
  <2>3. (step' \in Simple \/ op' \in Simple) => op' = step'
    BY <2>2 DEF FirstStep, Simple, AllMethods
  <2>. QED
    BY <1>1, <2>2, <2>3 DEF Stepped
<1>10. CASE Close \/ \E e \in Endpoints : Connect(e)
  BY <1>1, <1>10 DEF Close, Connect, ConnectTo, Begin, Stepped, Simple
<1>11. CASE \E e \in Endpoints : ConnectWrongScheme(e)
  <2>1. op = "none" /\ UNCHANGED <<op, step>>
    BY <1>11 DEF ConnectWrongScheme, RefuseScheme, Answers, callVars
  <2>. QED
    BY <2>1 DEF Stepped, Simple
<1>12. CASE ServerStep \/ QuitsLate \/ UNCHANGED vars
  BY <1>12 DEF ServerStep, QuitsLate, vars, mailVars, clientVars, callVars, histVars, Stepped
<1>. QED
  BY <1>4, <1>5, <1>6, <1>7, <1>8, <1>9, <1>10, <1>11, <1>12 DEF Next, Departs, ClientStep

-----------------------------------------------------------------------------
\* What the client takes for the reply is all there is, and is the reply.
LEMMA TakesAll ==
  ASSUME Wired, OneReply, NEW chunk \in Chunks, ~Invalid(buffer \o chunk), Ends(buffer \o chunk) # {}
  PROVE  LET lines == ReplyIn(buffer \o chunk) IN
         /\ After(chunk) = <<>> /\ Unread # <<>>
         /\ Len(lines) \in Nat \ {0} /\ Len(Unread) = 2 * Len(lines)
         /\ DOMAIN lines = 1..Len(lines) /\ EndsAt(Len(lines))
         /\ \A k \in 1..Len(lines) :
              /\ lines[k] = LineAt(k) /\ lines[k].re = cmds
              /\ lines[k].last <=> k = Len(lines)
         /\ Head(lines).code = Said /\ Said \in {Ok, Err}
<1>. DEFINE data == buffer \o chunk
            half == Len(data) \div 2
            full == FullLines(data)
            lines == ReplyIn(data)
<1>1. PICK m \in 1..Len(s2c) : chunk = SubSeq(s2c, 1, m)
  BY DEF Chunks
<1>2. /\ data \in Seq(Parts) /\ Len(data) = Len(buffer) + m
      /\ Len(Unread) = Len(buffer) + Len(s2c) /\ Len(data) <= Len(Unread)
      /\ \A i \in 1..Len(data) : data[i] = Unread[i]
  BY <1>1 DEF Wired, Unread
<1>. HIDE DEF data
<1>3. half \in Nat /\ 2 * half <= Len(data) /\ Len(data) \in Nat
  BY <1>2
<1>4. full = [k \in 1..half |-> LineAt(k)]
  <2>1. \A k \in 1..half : 2 * k \in 1..Len(data)
    BY <1>3
  <2>2. \A k \in 1..half : data[2 * k].line = LineAt(k)
    BY <1>2, <2>1 DEF LineAt
  <2>. QED
    BY <2>2 DEF FullLines
<1>. HIDE DEF half, full
<1>5. Ends(data) = {k \in 1..half : EndsAt(k)}
  <2>1. CASE half = 0
    BY <1>4, <2>1 DEF Ends, full
  <2>2. CASE half # 0
    <3>1. 1 \in 1..half /\ full[1].code = Said
      BY <1>2, <1>3, <1>4, <2>2 DEF Said
    <3>2. DOMAIN full = 1..half /\ \A k \in 1..half : full[k] = LineAt(k)
      BY <1>4
    <3>. QED
      BY <3>1, <3>2 DEF Ends, full, EndsAt
  <2>. QED
    BY <2>1, <2>2
<1>. DEFINE n == Min(Ends(data))
<1>6. n \in 1..half /\ EndsAt(n)
  <2>1. Ends(data) \subseteq Nat /\ Ends(data) # {}
    BY <1>5 DEF data
  <2>2. n \in Ends(data)
    BY <2>1, SmallestIn
  <2>. QED
    BY <1>5, <2>2
<1>. HIDE DEF n
<1>7. Len(Unread) \in Nat /\ n \in 1..(Len(Unread) \div 2)
  BY <1>2, <1>3, <1>6
<1>8. Len(Unread) = 2 * n
  BY <1>6, <1>7 DEF OneReply
<1>9. Len(data) = Len(Unread) /\ m = Len(s2c) /\ half = n /\ n \in Nat /\ n > 0
  <2>1. half \in Nat /\ n \in Nat /\ n > 0 /\ n <= half
    BY <1>3, <1>6
  <2>2. Len(data) = 2 * n /\ half = n
    BY <1>2, <1>3, <1>8, <2>1
  <2>3. Len(buffer) \in Nat /\ Len(s2c) \in Nat
    BY DEF Wired
  <2>4. Len(data) = Len(Unread)
    BY <1>8, <2>2
  <2>5. Len(buffer) + m = Len(buffer) + Len(s2c) /\ m \in Nat
    BY <1>1, <1>2, <2>3, <2>4
  <2>6. m = Len(s2c)
    BY <2>3, <2>5
  <2>. QED
    BY <2>1, <2>2, <2>4, <2>6
<1>10. lines = SubSeq(full, 1, n)
  BY DEF ReplyIn, full, n, data
<1>11. /\ Len(lines) = n /\ DOMAIN lines = 1..n
       /\ \A k \in 1..n : lines[k] = LineAt(k)
  BY <1>4, <1>9, <1>10
<1>. HIDE DEF lines
<1>12. After(chunk) = <<>>
  BY <1>1, <1>9 DEF After, Wired
<1>13. ASSUME NEW k \in 1..n PROVE LineAt(k).re = cmds /\ (LineAt(k).last <=> k = n)
  <2>1. 2 * k \in DOMAIN Unread /\ k \in 1..(Len(Unread) \div 2)
    BY <1>2, <1>8, <1>9 DEF Wired, Unread
  <2>2. EndsAt(k) => 2 * k = 2 * n
    BY <1>8, <2>1 DEF OneReply
  <2>3. EndsAt(k) <=> k = n
    BY <1>6, <1>9, <2>2
  <2>. QED
    BY <2>1, <2>3 DEF OneReply, LineAt
<1>14. Said \in {Ok, Err} /\ Said = LineAt(1).code
  <2>1. Len(data) > 1 /\ 2 \in 1..Len(data) /\ Len(Unread) > 1
    BY <1>8, <1>9
  <2>2. data[2].line.code \in {Ok, Err}
    BY <2>1 DEF Invalid, data
  <2>. QED
    BY <1>2, <2>1, <2>2 DEF Said, LineAt
<1>15. Head(lines) = lines[1] /\ Unread # <<>>
  BY <1>8, <1>9, <1>11
<1>. QED
  BY <1>6, <1>8, <1>9, <1>11, <1>12, <1>13, <1>14, <1>15 DEF lines, data
-----------------------------------------------------------------------------
(* The server's side of the account.                                       *)

\* The lines the server writes when nothing is unread.
LEMMA WrittenLines ==
  ASSUME Wired, Unread = <<>>, NEW lines \in Seq(Lines), Writes(lines), buffer' = buffer
  PROVE  /\ DOMAIN Unread' = 1..(2 * Len(lines)) /\ Len(Unread') = 2 * Len(lines)
         /\ Len(Unread') \div 2 = Len(lines) /\ Len(lines) \in Nat
         /\ \A i \in DOMAIN Unread' : \E k \in 1..Len(lines) : Unread'[i].line = lines[k]
         /\ \A k \in 1..Len(lines) : LineAt(k)' = lines[k]
         /\ Said' = IF Len(lines) > 0 THEN lines[1].code ELSE 0
<1>1. /\ Unread' \in Seq(Parts) /\ Len(Unread') = 2 * Len(lines)
      /\ \A i \in 1..(2 * Len(lines)) : Unread'[i].line = lines[(i + 1) \div 2]
  <2>1. Len(Unread) = 0
    OBVIOUS
  <2>2. /\ Unread' \in Seq(Parts) /\ Len(Unread') = 0 + 2 * Len(lines)
        /\ \A i \in 1..(2 * Len(lines)) :
             Unread'[0 + i] = [line |-> lines[(i + 1) \div 2], crlf |-> i % 2 = 0]
    BY <2>1, WrittenUnread
  <2>3. Len(lines) \in Nat /\ \A i \in 1..(2 * Len(lines)) : 0 + i = i
    OBVIOUS
  <2>. QED
    BY <2>2, <2>3
<1>2. Len(lines) \in Nat /\ DOMAIN Unread' = 1..(2 * Len(lines)) /\ Len(Unread') \div 2 = Len(lines)
  BY <1>1
<1>3. \A i \in 1..(2 * Len(lines)) : (i + 1) \div 2 \in 1..Len(lines)
  BY <1>2
<1>4. \A k \in 1..Len(lines) : 2 * k \in 1..(2 * Len(lines)) /\ (2 * k + 1) \div 2 = k
  BY <1>2
<1>5. \A k \in 1..Len(lines) : LineAt(k)' = lines[k]
  BY <1>1, <1>4 DEF LineAt
<1>6. Len(lines) > 0 => 1 \in 1..Len(lines) /\ Len(Unread') > 1
  BY <1>1, <1>2
<1>7. Len(lines) = 0 => ~(Len(Unread') > 1)
  BY <1>1
<1>8. Said' = IF Len(lines) > 0 THEN lines[1].code ELSE 0
  BY <1>2, <1>5, <1>6, <1>7 DEF Said
<1>. QED
  BY <1>1, <1>2, <1>3, <1>5, <1>8

\* A line that answers a command that is not answered with a text, or -ERR.
LEMMA OneLineReply ==
  ASSUME Wired, Unread = <<>>, NEW code \in Nat, Multiline => code # Ok,
         Writes(<<Line(cmds, code, TRUE)>>), cmds \in Nat,
         UNCHANGED <<buffer, cmds, step, arg>>
  PROVE  OneReply' /\ Said' = code
<1>. DEFINE lines == <<Line(cmds, code, TRUE)>>
<1>1. lines \in Seq(Lines) /\ Len(lines) = 1 /\ lines[1] = Line(cmds, code, TRUE)
  BY DEF Line, Lines
<1>2. Writes(lines)
  OBVIOUS
<1>. HIDE DEF lines
<1>3. /\ Len(Unread') = 2 /\ Len(Unread') \div 2 = 1 /\ LineAt(1)' = lines[1]
      /\ Said' = lines[1].code
      /\ \A i \in DOMAIN Unread' : Unread'[i].line = lines[1]
  <2>1. /\ Len(Unread') = 2 * 1 /\ Len(Unread') \div 2 = 1
        /\ \A i \in DOMAIN Unread' : \E k \in 1..1 : Unread'[i].line = lines[k]
        /\ \A k \in 1..1 : LineAt(k)' = lines[k]
        /\ Said' = IF 1 > 0 THEN lines[1].code ELSE 0
    BY <1>1, <1>2, WrittenLines
  <2>2. \A k \in 1..1 : k = 1
    OBVIOUS
  <2>. QED
    BY <2>1, <2>2
<1>4. lines[1].re = cmds /\ lines[1].code = code /\ lines[1].last = TRUE
  BY <1>1 DEF Line
<1>5. Multiline' = Multiline
  BY DEF Multiline
<1>6. EndsAt(1)'
  BY <1>3, <1>4, <1>5 DEF EndsAt
<1>. QED
  BY <1>3, <1>4, <1>6 DEF OneReply

LEMMA StatusReply ==
  ASSUME Wired, Unread = <<>>, NEW c, c.no = cmds, NEW code \in {Ok, Err}, Status(c, code),
         Multiline => code # Ok, cmds \in Nat, UNCHANGED <<buffer, cmds, step, arg>>
  PROVE  OneReply' /\ Said' \in {0, code}
<1>1. 0 # Ok /\ 0 \in Nat /\ code \in Nat
  BY DEF Ok, Err
<1>. QED
  BY <1>1, OneLineReply DEF Status, WritesBadLine

\* The dot of a text is at its end: no line of it is a dot.
LEMMA TextReply ==
  ASSUME Wired, Unread = <<>>, NEW c, c.no = cmds, cmds \in Nat,
         NEW body \in Seq({Ok, Err, Text}), WithText(c, body), Multiline,
         UNCHANGED <<buffer, cmds, step, arg>>
  PROVE  OneReply' /\ Said' \in {0, Ok} /\ (Said' = Ok => Carries(body)')
<1>0. 0 # Ok
  BY DEF Ok
<1>1. CASE WritesBadLine(c.no)
  BY <1>0, <1>1, OneLineReply DEF WritesBadLine
<1>2. CASE Writes(Texts(c, body))
  <2>. DEFINE lines == Texts(c, body)
              size  == Len(body) + 2
  <2>1. lines \in Seq(Lines) /\ Len(lines) = size /\ size \in Nat /\ size > 1
    BY TextsLines
  <2>2. \A k \in 1..size :
          /\ lines[k].re = cmds /\ (lines[k].last <=> k = size)
          /\ lines[k].code = IF k = 1 THEN Ok ELSE IF k = size THEN Dot ELSE body[k - 1]
    BY DEF Texts, Line
  <2>3. Writes(lines)
    BY <1>2
  <2>. HIDE DEF lines
  <2>4. /\ Len(Unread') = 2 * size /\ Len(Unread') \div 2 = size
        /\ \A i \in DOMAIN Unread' : \E k \in 1..size : Unread'[i].line = lines[k]
        /\ \A k \in 1..size : LineAt(k)' = lines[k]
        /\ Said' = lines[1].code
    BY <2>1, <2>3, WrittenLines
  <2>5. Said' = Ok /\ Multiline'
    BY <2>1, <2>2, <2>4 DEF Multiline
  <2>6. Len(body) \in Nat /\ \A k \in 2..size : k # size =>
          k - 1 \in DOMAIN body /\ body[k - 1] \in {Ok, Err, Text}
    OBVIOUS
  <2>7. Dot \notin {Ok, Err, Text}
    BY DEF Dot, Ok, Err, Text
  <2>8. \A k \in 1..size : EndsAt(k)' <=> k = size
    <3>1. SUFFICES ASSUME NEW k \in 1..size PROVE EndsAt(k)' <=> k = size
      OBVIOUS
    <3>2. EndsAt(k)' <=> k > 1 /\ lines[k].code = Dot
      BY <2>4, <2>5 DEF EndsAt
    <3>3. CASE k = 1
      BY <2>1, <3>2, <3>3
    <3>4. CASE k # 1 /\ k # size
      <4>1. k \in 2..size /\ lines[k].code = body[k - 1]
        BY <2>2, <3>4
      <4>. QED
        BY <2>6, <2>7, <3>2, <3>4, <4>1
    <3>5. CASE k = size
      BY <2>1, <2>2, <3>2, <3>5
    <3>. QED
      BY <3>3, <3>4, <3>5
  <2>9. OneReply'
    <3>1. \A i \in DOMAIN Unread' : Unread'[i].line.re = cmds'
      BY <2>2, <2>4
    <3>2. \A k \in 1..size : (LineAt(k)'.last <=> EndsAt(k)') /\ (EndsAt(k)' => Len(Unread') = 2 * k)
      BY <2>2, <2>4, <2>8
    <3>. QED
      BY <2>4, <3>1, <3>2 DEF OneReply
  <2>10. ASSUME NEW k \in 2..size
         PROVE  IF k - 1 \in DOMAIN body THEN LineAt(k)'.code = body[k - 1]
                ELSE k = Len(body) + 2 /\ LineAt(k)'.code = Dot
    <3>1. k \in 1..size /\ k # 1
      BY <2>1
    <3>2. LineAt(k)'.code = IF k = size THEN Dot ELSE body[k - 1]
      BY <2>2, <2>4, <3>1
    <3>3. k = size => k - 1 \notin DOMAIN body
      BY <2>6
    <3>. QED
      BY <2>6, <3>2, <3>3
  <2>11. Carries(body)'
    BY <2>4, <2>10 DEF Carries
  <2>. QED
    BY <2>5, <2>9, <2>11
<1>. QED
  BY <1>1, <1>2, WritesTexts

\* Some of what was on its way is lost.
LEMMA CrashUnread ==
  ASSUME Wired, Crash, UNCHANGED clientVars
  PROVE  /\ Unread' \in Seq(Parts) /\ Len(Unread') <= Len(Unread)
         /\ \A i \in 1..Len(Unread') : i \in 1..Len(Unread) /\ Unread'[i] = Unread[i]
<1>1. PICK n \in 0..Len(s2c) : s2c' = SubSeq(s2c, 1, n)
  BY DEF Crash
<1>2. buffer' = buffer /\ buffer \in Seq(Parts) /\ s2c \in Seq(Parts)
  BY DEF clientVars, callVars, Wired
<1>. QED
  BY <1>1, <1>2 DEF Unread

LEMMA CrashReply ==
  ASSUME Wired, Crash, UNCHANGED <<clientVars, told>>, OneReply
  PROVE  /\ OneReply' /\ Said' \in {0, Said}
         /\ \A body : Said' # 0 /\ Carries(body) => Carries(body)'
<1>1. /\ Len(Unread') \in Nat /\ Len(Unread) \in Nat /\ Len(Unread') <= Len(Unread)
      /\ \A i \in DOMAIN Unread' : i \in DOMAIN Unread /\ Unread'[i] = Unread[i]
      /\ DOMAIN Unread' = 1..Len(Unread')
  BY CrashUnread, UnreadType
<1>2. UNCHANGED <<cmds, step, arg>> /\ Multiline' = Multiline
  BY DEF clientVars, callVars, histVars, Multiline
<1>3. \A k \in 1..(Len(Unread') \div 2) :
        2 * k \in DOMAIN Unread' /\ k \in 1..(Len(Unread) \div 2) /\ Len(Unread') >= 2 * k
        /\ Len(Unread') > 1
  BY <1>1
<1>4. \A k \in 1..(Len(Unread') \div 2) : LineAt(k)' = LineAt(k)
  BY <1>1, <1>3 DEF LineAt
<1>5. Said' = IF Len(Unread') > 1 THEN Said ELSE 0
  <2>1. CASE Len(Unread') > 1
    <3>1. 1 \in 1..(Len(Unread') \div 2) /\ Len(Unread) > 1
      BY <1>1, <2>1
    <3>. QED
      BY <1>4, <2>1, <3>1 DEF Said
  <2>2. CASE ~(Len(Unread') > 1)
    BY <2>2 DEF Said
  <2>. QED
    BY <2>1, <2>2
<1>6. \A k \in 1..(Len(Unread') \div 2) : EndsAt(k)' <=> EndsAt(k)
  BY <1>2, <1>3, <1>4, <1>5 DEF EndsAt
<1>7. OneReply'
  <2>1. \A i \in DOMAIN Unread' : Unread'[i].line.re = cmds'
    BY <1>1, <1>2 DEF OneReply
  <2>2. ASSUME NEW k \in 1..(Len(Unread') \div 2)
        PROVE  (LineAt(k)'.last <=> EndsAt(k)') /\ (EndsAt(k)' => Len(Unread') = 2 * k)
    <3>1. (LineAt(k).last <=> EndsAt(k)) /\ (EndsAt(k) => Len(Unread) = 2 * k)
      BY <1>3 DEF OneReply
    <3>2. Len(Unread) = 2 * k => Len(Unread') = 2 * k
      <4>1. Len(Unread') >= 2 * k /\ Len(Unread') <= Len(Unread)
        BY <1>1, <1>3
      <4>2. Len(Unread') \in Nat /\ Len(Unread) \in Nat /\ k \in Nat
        BY <1>1
      <4>. QED
        BY <4>1, <4>2
    <3>. QED
      BY <1>4, <1>6, <3>1, <3>2
  <2>. QED
    BY <2>1, <2>2 DEF OneReply
<1>8. ASSUME NEW body, Carries(body) PROVE Carries(body)'
  <2>1. \A k \in 2..(Len(Unread') \div 2) : k \in 1..(Len(Unread') \div 2) /\ k \in 2..(Len(Unread) \div 2)
    BY <1>1
  <2>. QED
    BY <1>4, <1>8, <2>1 DEF Carries
<1>. QED
  BY <1>5, <1>7, <1>8

LEMMA Codes == Ok # Err /\ Ok # 0 /\ Err # 0
BY DEF Ok, Err

\* The server handles the command on its way, and nobody is let in by it.
LEMMA HandlesAnswered ==
  ASSUME CInv(Late), Wired, Typed, Pending, Handles, UNCHANGED <<clientVars, told>>
  PROVE  Answered'
<1>. DEFINE c == Head(c2s)
            w == srv.work
<1>1. UNCHANGED <<buffer, cmds, step, arg, told>>
  BY DEF clientVars, callVars, histVars
<1>2. c.no = cmds /\ c.verb = step /\ c.arg = arg /\ c2s' = <<>> /\ cmds \in Nat
  BY DEF Pending, Handles, CInv, Types, Counts
<1>3. w \in Works /\ w.marked = told.gone /\ srv.greeted /\ (w.login => store = told.drop)
      /\ (told.held => store = told.drop)
      /\ srv \in [open : BOOLEAN, greeted : BOOLEAN, tls : {"clear", "await", "on"}, work : Works]
  BY DEF Pending, Handles, Reads, Typed, Serving, Minded, Stocked
<1>4. \/ Quits(c, w)
      \/ /\ store' = store
         /\ \/ ~w.login /\ Authorizes(c, w)
            \/ w.login /\ Transacts(c, w)
            \/ c.verb = "capa" /\ WithText(c, <<Text>>) /\ UNCHANGED srv
            \/ Refuses(c, w)
  BY DEF Handles
<1>. HIDE DEF c
<1>5. ASSUME NEW code \in {Ok, Err}, Status(c, code), Multiline => code # Ok
      PROVE  OneReply' /\ Said' \in {0, code}
  BY <1>1, <1>2, <1>5, StatusReply DEF Pending
<1>6. ASSUME NEW body \in Seq({Ok, Err, Text}), WithText(c, body), Multiline
      PROVE  OneReply' /\ Said' \in {0, Ok} /\ (Said' = Ok => Carries(body)')
  BY <1>1, <1>2, <1>6, TextReply DEF Pending
<1>7. ASSUME NEW v, srv' = Working(v) PROVE srv'.greeted /\ srv'.work = v
  BY <1>3, <1>7 DEF Working
<1>8. CASE Refuses(c, w) /\ store' = store
  <2>1. OneReply' /\ Said' \in {0, Err}
    BY <1>5, <1>8, Codes DEF Refuses
  <2>2. srv'.greeted /\ srv'.work.marked = w.marked
    <3>1. srv' = Working([w EXCEPT !.user = FALSE])
      BY <1>8 DEF Refuses
    <3>2. srv'.greeted /\ srv'.work = [w EXCEPT !.user = FALSE]
      BY <1>7, <3>1
    <3>. QED
      BY <1>3, <3>2 DEF Works
  <2>3. Said' = Err => Marks' = told.gone
    BY <1>1, Codes DEF Marks
  <2>4. Said' # Ok
    BY <2>1, Codes
  <2>5. Meant'
    BY <1>1, <1>3, <1>8, <2>1, <2>2, <2>3, <2>4 DEF Meant
  <2>. QED
    BY <1>2, <2>1, <2>2, <2>5 DEF Answered
<1>9. CASE Authorizes(c, w)
  <2>1. Status(c, Ok) /\ step \in {"user", "pass", "authPlain", "stls"}
    BY <1>2, <1>9 DEF Authorizes
  <2>2. OneReply' /\ Said' \in {0, Ok}
    BY <1>5, <2>1 DEF Multiline
  <2>3. srv'.greeted /\ srv'.work.marked = w.marked /\ (step = "pass" => srv'.work.login)
    <3>1. CASE step = "stls"
      BY <1>2, <1>3, <1>9, <3>1 DEF Authorizes
    <3>2. CASE step = "user"
      <4>1. srv' = Working([w EXCEPT !.user = TRUE])
        BY <1>2, <1>9, <3>2 DEF Authorizes
      <4>2. srv'.greeted /\ srv'.work = [w EXCEPT !.user = TRUE]
        BY <1>7, <4>1
      <4>. QED
        BY <1>3, <3>2, <4>2 DEF Works
    <3>3. CASE step \in {"pass", "authPlain"}
      <4>1. srv' = Working([w EXCEPT !.login = TRUE])
        BY <1>2, <1>9, <3>3 DEF Authorizes
      <4>2. srv'.greeted /\ srv'.work = [w EXCEPT !.login = TRUE]
        BY <1>7, <4>1
      <4>. QED
        BY <1>3, <4>2 DEF Works
    <3>. QED
      BY <2>1, <3>1, <3>2, <3>3
  <2>4. Marks' = told.gone
    BY <1>1, <2>1 DEF Marks
  <2>. QED
    BY <1>1, <1>2, <1>3, <2>1, <2>2, <2>3, <2>4, Codes DEF Answered, Meant
<1>10. CASE Quits(c, w)
  <2>1. /\ Status(c, Ok) /\ step = "quit" /\ srv' = Gone(srv)
        /\ told.held => store' = Without(told.drop, told.gone)
    BY <1>2, <1>3, <1>10 DEF Quits
  <2>2. OneReply' /\ Said' \in {0, Ok}
    BY <1>5, <2>1 DEF Multiline
  <2>3. srv'.greeted /\ srv'.work = w /\ ~srv'.open
    BY <1>3, <2>1 DEF Gone
  <2>4. Marks' = told.gone
    BY <1>1, <2>1 DEF Marks
  <2>. QED
    BY <1>1, <1>2, <1>3, <2>1, <2>2, <2>3, <2>4, Codes DEF Answered, Meant
<1>11. CASE c.verb = "capa" /\ WithText(c, <<Text>>) /\ UNCHANGED srv
  <2>1. step = "capa" /\ Multiline
    BY <1>2, <1>11 DEF Multiline
  <2>2. <<Text>> \in Seq({Ok, Err, Text})
    OBVIOUS
  <2>3. OneReply' /\ Said' \in {0, Ok}
    BY <1>6, <1>11, <2>1, <2>2
  <2>4. Marks' = told.gone
    BY <1>1, <2>1 DEF Marks
  <2>. QED
    BY <1>1, <1>2, <1>3, <1>11, <2>1, <2>3, <2>4, Codes DEF Answered, Meant
<1>12. CASE w.login /\ Transacts(c, w) /\ store' = store
  <2>1. CASE step \in {"stat", "noop"} \/ (step = "list" /\ arg \in Listed(w))
    <3>1. 0 \notin Listed(w)
      BY <1>3 DEF Listed, Typed, Serving, Stocked
    <3>2. Status(c, Ok) /\ srv' = srv /\ ~Multiline
      BY <1>2, <1>12, <2>1, <3>1 DEF Transacts, Multiline
    <3>3. OneReply' /\ Said' \in {0, Ok}
      BY <1>5, <3>2
    <3>4. Marks' = told.gone
      BY <1>1, <2>1 DEF Marks
    <3>. QED
      BY <1>1, <1>2, <1>3, <2>1, <3>2, <3>3, <3>4, Codes DEF Answered, Meant
  <2>2. CASE step = "list" /\ arg \notin Listed(w)
    <3>1. arg = 0 /\ WithText(c, [n \in 1..Cardinality(Listed(w)) |-> Text]) /\ srv' = srv
      BY <1>2, <1>12, <2>2 DEF Transacts
    <3>2. [n \in 1..Cardinality(Listed(w)) |-> Text] \in Seq({Ok, Err, Text}) /\ Multiline
      BY <2>2, <3>1, Bodies DEF Multiline, Typed
    <3>3. OneReply' /\ Said' \in {0, Ok}
      BY <1>6, <3>1, <3>2
    <3>4. Marks' = told.gone
      BY <1>1, <2>2 DEF Marks
    <3>. QED
      BY <1>1, <1>2, <1>3, <2>2, <3>1, <3>3, <3>4, Codes DEF Answered, Meant
  <2>3. CASE step = "retr"
    <3>1. arg \in Listed(w) /\ WithText(c, store[arg]) /\ srv' = srv /\ Multiline
      BY <1>2, <1>12, <2>3 DEF Transacts, Multiline
    <3>2. arg \in DOMAIN told.drop \ told.gone /\ arg \in DOMAIN store
      BY <1>3, <1>12, <3>1 DEF Listed
    <3>3. PICK body \in Seq({Ok, Err, Text}) : body = store[arg]
      BY <3>2, Bodies DEF Typed
    <3>4. OneReply' /\ Said' \in {0, Ok} /\ (Said' = Ok => Carries(body)')
      BY <1>6, <3>1, <3>3
    <3>5. body = told'.drop[arg'] /\ arg' \in DOMAIN told'.drop \ told'.gone
      BY <1>1, <1>3, <1>12, <3>2, <3>3
    <3>6. Said' = Ok => Carries(told.drop[arg])'
      BY <3>4, <3>5 DEF Carries
    <3>7. Marks' = told.gone
      BY <1>1, <2>3 DEF Marks
    <3>. QED
      BY <1>1, <1>2, <1>3, <2>3, <3>1, <3>4, <3>5, <3>6, <3>7, Codes DEF Answered, Meant
  <2>4. CASE step \in {"dele", "rset"}
    <3>1. Status(c, Ok)
      BY <1>2, <1>12, <2>4 DEF Transacts
    <3>2. OneReply' /\ Said' \in {0, Ok}
      BY <1>5, <2>4, <3>1 DEF Multiline
    <3>3. srv'.greeted /\ (Said' = Ok => srv'.work.marked = Marks')
      <4>1. CASE step = "dele"
        <5>1. srv' = Working([w EXCEPT !.marked = @ \cup {arg}])
          BY <1>2, <1>12, <4>1 DEF Transacts
        <5>2. srv'.greeted /\ srv'.work = [w EXCEPT !.marked = @ \cup {arg}]
          BY <1>7, <5>1
        <5>3. srv'.work.marked = told.gone \cup {arg}
          BY <1>3, <5>2 DEF Works
        <5>4. Said' = Ok => Marks' = told.gone \cup {arg}
          BY <1>1, <4>1 DEF Marks
        <5>. QED
          BY <5>2, <5>3, <5>4
      <4>2. CASE step = "rset"
        <5>1. srv' = Working([w EXCEPT !.marked = {}])
          BY <1>2, <1>12, <4>2 DEF Transacts
        <5>2. srv'.greeted /\ srv'.work = [w EXCEPT !.marked = {}]
          BY <1>7, <5>1
        <5>3. srv'.work.marked = {}
          BY <1>3, <5>2 DEF Works
        <5>4. Said' = Ok => Marks' = {}
          BY <1>1, <4>2 DEF Marks
        <5>. QED
          BY <5>2, <5>3, <5>4
      <4>. QED
        BY <2>4, <4>1, <4>2
    <3>4. step = "dele" => arg' \in DOMAIN told'.drop \ told'.gone
      BY <1>1, <1>2, <1>3, <1>12 DEF Transacts, Listed
    <3>. QED
      BY <1>1, <1>2, <2>4, <3>2, <3>3, <3>4, Codes DEF Answered, Meant
  <2>. QED
    BY <1>2, <1>12, <2>1, <2>2, <2>3, <2>4 DEF Transacts
<1>. QED
  BY <1>4, <1>8, <1>9, <1>10, <1>11, <1>12

\* The client is told something new only when it is let in.
LEMMA LogsIn ==
  ASSUME CInv(Late), Typed, Accounted, ServerStep, told' # told
  PROVE  /\ Handles /\ store' = store /\ told' = Snapshot(TRUE) /\ ~srv.work.login
         /\ Authorizes(Head(c2s), srv.work) /\ Head(c2s).verb \in {"pass", "authPlain"}
         /\ Calm => Pending /\ reading /\ step = Head(c2s).verb
<1>. DEFINE c == Head(c2s)
            w == srv.work
<1>1. srv'.work.login /\ ~w.login /\ told' = Snapshot(TRUE) /\ (Serves \/ Crash)
  BY DEF ServerStep, Admits
<1>2. /\ srv \in [open : BOOLEAN, greeted : BOOLEAN, tls : {"clear", "await", "on"}, work : Works]
      /\ w \in Works
  BY DEF Typed, Serving, Minded
<1>3. ~(srv' = Gone(srv)) /\ srv' # srv
  BY <1>1, <1>2 DEF Gone
<1>4. ASSUME NEW d PROVE ~Refuses(d, w)
  <2>1. SUFFICES ASSUME Refuses(d, w) PROVE FALSE
    OBVIOUS
  <2>2. srv'.work = [w EXCEPT !.user = FALSE]
    BY <1>2, <2>1 DEF Refuses, Working
  <2>. QED
    BY <1>1, <1>2, <2>2 DEF Works
<1>5. Handles /\ c2s # <<>>
  <2>1. ~Greets
    BY <1>1, <1>2 DEF Greets
  <2>2. ~Crash /\ ~AbortsHandshake /\ ~JoinsPartials
    BY <1>3 DEF Crash, AbortsHandshake, JoinsPartials, serverVars
  <2>3. ~HandlesPartial
    BY <1>4 DEF HandlesPartial
  <2>. QED
    BY <1>1, <2>1, <2>2, <2>3 DEF Serves, Handles, Reads
<1>6. Authorizes(c, w) /\ store' = store
  <2>1. ~Quits(c, w) /\ ~UNCHANGED srv
    BY <1>3 DEF Quits
  <2>. QED
    BY <1>1, <1>4, <1>5, <2>1 DEF Handles
<1>7. c.verb \in {"pass", "authPlain"}
  <2>1. CASE srv' = Working([w EXCEPT !.user = TRUE])
    <3>1. srv'.work = [w EXCEPT !.user = TRUE]
      BY <1>2, <2>1 DEF Working
    <3>. QED
      BY <1>1, <1>2, <3>1 DEF Works
  <2>2. CASE srv' = [srv EXCEPT !.tls = "await"]
    BY <1>1, <1>2, <2>2
  <2>. QED
    BY <1>6, <2>1, <2>2 DEF Authorizes
<1>8. ASSUME Calm PROVE Pending /\ reading /\ step = c.verb
  <2>1. Pending /\ reading
    BY <1>5, <1>8 DEF Accounted, Idle, Greeting, Answered
  <2>. QED
    BY <1>5, <2>1, Numbered DEF Pending
<1>. QED
  BY <1>1, <1>5, <1>6, <1>7, <1>8

\* The command on its way lets the user in.
LEMMA LoginAnswered ==
  ASSUME CInv(Late), Wired, Typed, Accounted, Calm, ServerStep, told' # told PROVE Answered'
<1>. DEFINE c == Head(c2s)
            w == srv.work
<1>1. UNCHANGED <<buffer, cmds, step, arg>>
  BY DEF ServerStep, clientVars, callVars, histVars
<1>2. /\ Handles /\ told' = Snapshot(TRUE) /\ Authorizes(c, w) /\ Pending /\ ~w.login
      /\ step = c.verb /\ step \in {"pass", "authPlain"}
  BY LogsIn
<1>3. c.no = cmds /\ c2s' = <<>> /\ cmds \in Nat
  BY <1>2 DEF Pending, Handles, CInv, Types, Counts
<1>4. /\ srv \in [open : BOOLEAN, greeted : BOOLEAN, tls : {"clear", "await", "on"}, work : Works]
      /\ w \in Works /\ w.marked = {} /\ srv.greeted
  BY <1>2 DEF Pending, Typed, Serving, Minded
<1>. HIDE DEF c
<1>5. Status(c, Ok) /\ srv' = Working([w EXCEPT !.login = TRUE])
  BY <1>2 DEF Authorizes
<1>6. OneReply' /\ Said' \in {0, Ok}
  BY <1>1, <1>2, <1>3, <1>5, StatusReply DEF Pending, Multiline
<1>7. srv'.greeted /\ srv'.work.marked = {} /\ srv'.work.login
  <2>1. srv'.greeted /\ srv'.work = [w EXCEPT !.login = TRUE]
    BY <1>4, <1>5 DEF Working
  <2>. QED
    BY <1>4, <2>1 DEF Works
<1>8. Marks' = {}
  BY <1>1, <1>2 DEF Marks, Snapshot
<1>. QED
  BY <1>1, <1>2, <1>3, <1>6, <1>7, <1>8, Codes DEF Answered, Meant

\* The server's step keeps the account.
LEMMA ServerAccounted ==
  ASSUME CInv(Late), Wired, Typed, Accounted, ServerStep PROVE Accounted'
<1>1. UNCHANGED <<buffer, cmds, step, arg, reading, reply, chan, lost>>
      /\ UNCHANGED clientVars /\ Admits /\ (Serves \/ Crash)
  BY DEF ServerStep, clientVars, callVars, histVars
<1>2. srv \in [open : BOOLEAN, greeted : BOOLEAN, tls : {"clear", "await", "on"}, work : Works]
  BY DEF Typed, Serving, Minded
<1>3. SUFFICES ASSUME Calm
               PROVE  /\ ~reading => Idle'
                      /\ reading /\ step = "greeting" => Greeting'
                      /\ reading /\ step # "greeting" => Pending' \/ Answered'
  BY <1>1 DEF Accounted, Calm
<1>4. cmds \in Nat
  BY DEF CInv, Types, Counts
<1>5. ASSUME srv' = Gone(srv)
      PROVE  srv'.greeted = srv.greeted /\ srv'.work = srv.work /\ srv'.open = FALSE
             /\ told' = told
  BY <1>1, <1>2, <1>5 DEF Gone, Admits
<1>6. ASSUME c2s = <<>>, srv.greeted PROVE Crash
  BY <1>1, <1>6 DEF Serves, Greets, Handles, HandlesPartial, JoinsPartials, Reads, AbortsHandshake
<1>7. ASSUME Crash, Unread = <<>> PROVE Unread' = <<>>
  <2>1. Unread' \in Seq(Parts) /\ Len(Unread') <= 0
    BY <1>1, <1>7, CrashUnread
  <2>. QED
    BY <2>1
<1>8. CASE Crash
  <2>1. c2s' = c2s /\ srv' = Gone(srv) /\ store' = store
    BY <1>8 DEF Crash
  <2>2. Idle => Idle'
    BY <1>1, <1>5, <1>7, <1>8, <2>1 DEF Idle
  <2>3. Pending => Pending'
    BY <1>1, <1>5, <1>7, <1>8, <2>1 DEF Pending
  <2>4. ASSUME OneReply
        PROVE  OneReply' /\ Said' \in {0, Said}
               /\ \A body : Said' # 0 /\ Carries(body) => Carries(body)'
    BY <1>1, <1>5, <1>8, <2>1, <2>4, CrashReply
  <2>5. Greeting => Greeting'
    BY <1>1, <1>5, <1>7, <1>8, <2>1, <2>4 DEF Greeting
  <2>6. ASSUME Answered PROVE Answered'
    <3>1. OneReply' /\ c2s' = <<>> /\ srv'.greeted
      BY <1>5, <2>1, <2>4, <2>6 DEF Answered
    <3>2. ASSUME Said' \in {Ok, Err} PROVE Said' = Said /\ Said' # 0
      BY <2>4, <2>6, <3>2, Codes DEF Answered
    <3>0. told' = told
      BY <1>5, <2>1
    <3>3. ASSUME Said' \in {Ok, Err} PROVE Marks' = Marks
      BY <1>1, <3>0, <3>2, <3>3 DEF Marks
    <3>4. ASSUME Said' \in {Ok, Err}, Carries(told.drop[arg]) PROVE Carries(told.drop[arg])'
      <4>1. PICK body : body = told.drop[arg]
        OBVIOUS
      <4>2. Carries(body) /\ told'.drop[arg'] = body
        BY <1>1, <3>0, <3>4, <4>1 DEF Carries
      <4>3. Carries(body)'
        BY <2>4, <2>6, <3>2, <3>4, <4>2 DEF Answered
      <4>. QED
        BY <4>2, <4>3 DEF Carries
    <3>5. Meant'
      <4>1. SUFFICES ASSUME Said' \in {Ok, Err}
                     PROVE  /\ srv'.work.marked = Marks'
                            /\ Said' = Ok /\ step' = "pass" => srv'.work.login
                            /\ Said' = Ok /\ step' \in {"retr", "dele"} =>
                                 arg' \in DOMAIN told'.drop \ told'.gone
                            /\ Said' = Ok /\ step' = "retr" => Carries(told.drop[arg])'
                            /\ Said' = Ok /\ step' = "quit" =>
                                 /\ ~srv'.open
                                 /\ told'.held => store' = Without(told'.drop, told'.gone)
                            /\ Said' = Err /\ step' = "quit" /\ told'.held => store' = told'.drop
        BY DEF Meant
      <4>2. /\ srv.work.marked = Marks
            /\ Said = Ok /\ step = "pass" => srv.work.login
            /\ Said = Ok /\ step \in {"retr", "dele"} => arg \in DOMAIN told.drop \ told.gone
            /\ Said = Ok /\ step = "retr" => Carries(told.drop[arg])
            /\ Said = Ok /\ step = "quit" => (told.held => store = Without(told.drop, told.gone))
            /\ Said = Err /\ step = "quit" /\ told.held => store = told.drop
        BY <2>6, <3>2, <4>1 DEF Answered, Meant
      <4>. QED
        BY <1>1, <1>5, <2>1, <3>0, <3>2, <3>3, <3>4, <4>1, <4>2
    <3>. QED
      BY <3>1, <3>5 DEF Answered
  <2>. QED
    BY <1>3, <2>2, <2>3, <2>5, <2>6 DEF Accounted
<1>9. CASE Serves /\ ~(c2s = <<>> /\ srv.greeted)
  <2>1. CASE reading /\ step = "greeting"
    <3>1. Greeting
      BY <1>3, <2>1 DEF Accounted
    <3>2. Greets /\ Unread = <<>> /\ ~srv.greeted
      BY <1>9, <3>1 DEF Greeting, Serves, Greets, Handles, HandlesPartial, JoinsPartials, Reads,
         AbortsHandshake
    <3>. DEFINE c == [no |-> 0]
    <3>3. PICK code \in {Ok, Err} : Status(c, code)
      BY <3>2 DEF Greets
    <3>4. c.no = cmds /\ ~Multiline
      BY <2>1, <3>1 DEF Greeting, Multiline
    <3>. HIDE DEF c
    <3>5. OneReply'
      BY <1>1, <1>4, <3>2, <3>3, <3>4, StatusReply
    <3>6. c2s' = c2s /\ srv'.greeted /\ srv'.work = srv.work
      BY <1>2, <3>2 DEF Greets
    <3>7. Greeting'
      BY <1>1, <3>1, <3>5, <3>6, NobodyAdmitted DEF Greeting
    <3>. QED
      BY <2>1, <3>7
  <2>2. CASE ~reading
    BY <1>3, <1>9, <2>2 DEF Accounted, Idle
  <2>3. CASE reading /\ step # "greeting"
    <3>1. Pending
      BY <1>3, <1>9, <2>3 DEF Accounted, Answered
    <3>2. Head(c2s).whole /\ Len(c2s) = 1 /\ srv.greeted
      BY <3>1, Numbered DEF Pending
    <3>3. Handles \/ AbortsHandshake
      BY <1>9, <3>2 DEF Serves, Greets, HandlesPartial, JoinsPartials
    <3>4. CASE Handles
      <4>1. CASE told' = told
        BY <1>1, <2>3, <3>1, <3>4, <4>1, HandlesAnswered
      <4>2. CASE told' # told
        BY <1>3, <2>3, <4>2, LoginAnswered
      <4>. QED
        BY <4>1, <4>2
    <3>5. CASE AbortsHandshake
      <4>1. UNCHANGED <<c2s, s2c>> /\ srv' = Gone(srv)
        BY <3>5 DEF AbortsHandshake, wire
      <4>2. Unread' = Unread
        BY <1>1, <4>1 DEF Unread
      <4>3. Pending'
        BY <1>1, <1>5, <3>1, <4>1, <4>2 DEF Pending
      <4>. QED
        BY <2>3, <4>3
    <3>. QED
      BY <3>3, <3>4, <3>5
  <2>. QED
    BY <2>1, <2>2, <2>3
<1>. QED
  BY <1>1, <1>6, <1>8, <1>9
-----------------------------------------------------------------------------
(* The client's side of the account.                                       *)

\* Something was given up, or the connection ended.
LEMMA GivenUp ==
  ASSUME lost \in Nat, lost' = lost + 1 \/ chan' = "Closed" PROVE ~Calm' /\ Accounted'
BY DEF Calm, Accounted

\* Between two steps.
LEMMA StillIdle ==
  ASSUME CInv(Late), Wired, Accounted, ~reading, ~reading', buffer' = <<>>,
         UNCHANGED <<chan, lost, c2s, s2c, srv, told>>
  PROVE  Accounted'
<1>1. Unread' = Unread
  BY DEF Wired, Unread
<1>2. SUFFICES ASSUME Calm PROVE Idle'
  BY DEF Accounted, Calm
<1>. QED
  BY <1>1, <1>2 DEF Accounted, Idle

\* Nothing happened but that a part of the reply went into the buffer.
LEMMA KeepsAccounted ==
  ASSUME Wired, Accounted, reading, NEW chunk \in Chunks, Keeps(chunk), UNCHANGED <<serverVars, told>>
  PROVE  Accounted'
<1>1. /\ Unread' = Unread
      /\ UNCHANGED <<c2s, srv, store, told, cmds, reply, arg, step, reading, chan, lost>>
  BY KeptUnread DEF Keeps, histVars, serverVars
<1>2. Said' = Said /\ Multiline' = Multiline
  BY <1>1 DEF Said, LineAt, Multiline
<1>3. OneReply' = OneReply
  BY <1>1, <1>2 DEF OneReply, EndsAt, LineAt
<1>4. Marks' = Marks
  BY <1>1, <1>2 DEF Marks
<1>5. Carries(told.drop[arg])' = Carries(told.drop[arg])
  BY <1>1 DEF Carries, LineAt
<1>6. Meant' = Meant
  BY <1>1, <1>2, <1>4, <1>5 DEF Meant
<1>. QED
  BY <1>1, <1>3, <1>6 DEF Accounted, Calm, Idle, Greeting, Pending, Answered

\* What the caller is told of the maildrop is what the reply says.
LEMMA TellsMarks ==
  ASSUME CInv(Late), Typed, Stepped, Tells, NEW code, code = Said, Said \in {Ok, Err},
         \/ GoesOn(step, code) /\ Proceed(NextStep(step), code)
         \/ ~GoesOn(step, code) /\ Return(IF op = "connect" THEN "ServerError" ELSE "reply", code),
         op # "none"
  PROVE  told'.gone = Marks /\ told'.drop = told.drop /\ told'.held = told.held
<1>1. told \in [drop : Seq(Messages), gone : SUBSET (1..MaxNumber), held : BOOLEAN]
  BY DEF Typed, Serving, Stocked
<1>2. ASSUME op \in {"dele", "rset"}
      PROVE  step = op /\ result' # result /\ result'.kind = "reply" /\ result'.code = code
  <2>1. step = op /\ GoesOn(step, code) /\ NextStep(step) = "done"
    BY <1>2, NextNotSimple DEF Stepped, Simple, GoesOn
  <2>2. Return("reply", code)
    BY <1>2, <2>1 DEF Proceed
  <2>3. result'.call = calls /\ result.call < calls
    BY <2>2 DEF Return, Stepped
  <2>4. calls \in Nat /\ result.call \in Nat
    BY DEF CInv, Types, Counts, Typed, Running
  <2>5. result'.call # result.call
    BY <2>3, <2>4
  <2>. QED
    BY <2>1, <2>2, <2>5 DEF Return
<1>3. CASE op = "dele"
  <2>1. told' = [told EXCEPT !.gone = IF Said = Ok THEN @ \cup {arg} ELSE @]
    BY <1>2, <1>3 DEF Tells
  <2>2. Marks = IF Said = Ok THEN told.gone \cup {arg} ELSE told.gone
    BY <1>2, <1>3 DEF Marks
  <2>. QED
    BY <1>1, <2>1, <2>2
<1>4. CASE op = "rset"
  <2>1. told' = [told EXCEPT !.gone = IF Said = Ok THEN {} ELSE @]
    BY <1>2, <1>4 DEF Tells
  <2>2. Marks = IF Said = Ok THEN {} ELSE told.gone
    BY <1>2, <1>4 DEF Marks
  <2>. QED
    BY <1>1, <2>1, <2>2
<1>5. CASE op \notin {"dele", "rset"}
  <2>1. step \notin {"dele", "rset"}
    BY <1>5 DEF Stepped, Simple
  <2>2. told' = told /\ Marks = told.gone
    BY <1>1, <1>5, <2>1 DEF Tells, Marks
  <2>. QED
    BY <2>2
<1>. QED
  BY <1>3, <1>4, <1>5

\* The reply is taken.
LEMMA TakesAccounted ==
  ASSUME CInv(Late), Wired, Typed, Stepped, Accounted, reading, NEW chunk \in Chunks,
         ~Invalid(buffer \o chunk), Ends(buffer \o chunk) # {},
         Takes(chunk, ReplyIn(buffer \o chunk)),
         LET code == Head(reply').code IN
           IF GoesOn(step, code) THEN Proceed(NextStep(step), code)
           ELSE Return(IF op = "connect" THEN "ServerError" ELSE "reply", code),
         Tells, UNCHANGED serverVars
  PROVE  Accounted'
<1>. DEFINE code == Head(reply').code
<1>1. op # "none" /\ step # "dial"
  BY DEF CInv, Placed
<1>2. NextStep(step) # "greeting"
  BY <1>1 DEF NextStep, AfterGreeting, LoginStep
<1>3. ~reading' /\ buffer' = <<>>
  BY <1>2 DEF Proceed, Return
<1>4. UNCHANGED <<chan, lost, c2s, srv>> /\ s2c' = After(chunk) /\ reply' = ReplyIn(buffer \o chunk)
  BY DEF Takes, serverVars
<1>5. SUFFICES ASSUME Calm PROVE Idle'
  BY <1>3, <1>4 DEF Accounted, Calm
<1>6. chunk # <<>> /\ Unread # <<>>
  BY DEF Chunks, Wired, Unread
<1>7. CASE step = "greeting"
  <2>1. Greeting
    BY <1>5, <1>7 DEF Accounted
  <2>2. After(chunk) = <<>> /\ code = Said /\ Said \in {Ok, Err}
    BY <1>4, <2>1, TakesAll DEF Greeting
  <2>3. told'.gone = told.gone
    BY <1>1, <1>7, <2>2, TellsMarks DEF Marks
  <2>4. Unread' = <<>>
    BY <1>3, <1>4, <2>2 DEF Unread
  <2>. QED
    BY <1>4, <1>6, <2>1, <2>3, <2>4 DEF Greeting, Idle
<1>8. CASE step # "greeting"
  <2>1. Answered
    BY <1>5, <1>6, <1>8 DEF Accounted, Pending
  <2>2. After(chunk) = <<>> /\ code = Said /\ Said \in {Ok, Err}
    BY <1>4, <2>1, TakesAll DEF Answered
  <2>3. told'.gone = Marks
    BY <1>1, <2>2, TellsMarks
  <2>4. Unread' = <<>>
    BY <1>3, <1>4, <2>2 DEF Unread
  <2>5. srv.work.marked = Marks
    BY <2>1, <2>2 DEF Answered, Meant
  <2>. QED
    BY <1>4, <2>1, <2>3, <2>4, <2>5 DEF Answered, Idle
<1>. QED
  BY <1>7, <1>8

LEMMA ContinuesAccounted ==
  ASSUME CInv(Late), Wired, Typed, Stepped, Accounted, Continues PROVE Accounted'
<1>1. Tells /\ UNCHANGED serverVars /\ srv' = srv /\ lost \in Nat
  BY DEF Continues, serverVars, CInv, Types, Counts
<1>2. CASE UpgradeFails \/ SendFails(Verb, 0) \/ RecvTimeout \/ ClosedAtOtherEnd
  BY <1>1, <1>2, GivenUp DEF UpgradeFails, SendFails, RecvTimeout, ClosedAtOtherEnd, RecvClosed, GiveUp
<1>3. CASE SendRefused
  BY <1>1, <1>3, GivenUp DEF SendRefused
<1>4. ASSUME result' = result \/ result'.kind # "reply" PROVE told' = told
  <2>1. told' = [told EXCEPT !.gone = @]
    BY <1>1, <1>4 DEF Tells
  <2>. QED
    BY <2>1 DEF Typed, Serving, Stocked
<1>5. CASE Unresolved
  <2>1. ~reading /\ ~reading' /\ buffer' = <<>> /\ UNCHANGED <<chan, lost, c2s, s2c>>
        /\ result'.kind = "InvalidHost"
    BY <1>5 DEF Unresolved, Return, histVars, wire, CInv, Placed
  <2>. QED
    BY <1>1, <1>4, <2>1, StillIdle
<1>6. CASE SendCommand(Verb, 0)
  <2>1. /\ ~reading /\ reading' /\ step # "greeting" /\ UNCHANGED <<step, arg, chan, lost, s2c, buffer>>
        /\ cmds' = cmds + 1 /\ c2s' = Append(c2s, Command(step, 0, TRUE)) /\ result' = result
    BY <1>6 DEF SendCommand, Sends, Verb
  <2>2. told' = told
    BY <1>4, <2>1
  <2>3. SUFFICES ASSUME Calm PROVE Pending'
    BY <2>1 DEF Accounted, Calm
  <2>4. Idle
    BY <2>1, <2>3 DEF Accounted
  <2>5. Len(c2s') = 1 /\ c2s'[1] = Command(step, 0, TRUE)
    BY <2>1, <2>4 DEF Idle
  <2>. QED
    BY <1>1, <2>1, <2>2, <2>4, <2>5 DEF Idle, Pending, Command, Unread
<1>7. CASE RecvChunk
  <2>1. PICK chunk \in Chunks : LET data == buffer \o chunk IN
       \/ ~Invalid(data) /\ Ends(data) = {} /\ Keeps(chunk)
       \/ /\ ~Invalid(data) /\ Ends(data) # {} /\ Takes(chunk, ReplyIn(data))
          /\ LET code == Head(reply').code IN
             IF GoesOn(step, code) THEN Proceed(NextStep(step), code)
             ELSE Return(IF op = "connect" THEN "ServerError" ELSE "reply", code)
       \/ Invalid(data) /\ Rejects(chunk)
    BY <1>7 DEF RecvChunk
  <2>2. reading
    BY <1>7 DEF RecvChunk
  <2>3. CASE Keeps(chunk)
    <3>1. told' = told
      BY <1>4, <2>3 DEF Keeps
    <3>. QED
      BY <1>1, <2>2, <2>3, <3>1, KeepsAccounted
  <2>4. CASE Rejects(chunk)
    BY <1>1, <2>4, GivenUp DEF Rejects, GiveUp
  <2>. QED
    BY <1>1, <2>1, <2>2, <2>3, <2>4, TakesAccounted
<1>. QED
  BY <1>2, <1>3, <1>5, <1>6, <1>7 DEF Continues

LEMMA NextAccounted ==
  ASSUME CInv(Late), Wired, Typed, Stepped, Accounted, [Next]_vars PROVE Accounted'
<1>1. lost \in Nat
  BY DEF CInv, Types, Counts
<1>2. CASE Dials
  <2>1. /\ Proceed(NextStep("dial"), 0) /\ NextStep("dial") = "greeting"
        /\ reply' = <<>> /\ cmds' = 0 /\ c2s' = <<>> /\ s2c' = <<>> /\ told'.gone = {}
        /\ srv' = Fresh(IF endpoint.security = "Tls" THEN "on" ELSE "clear", NewWork)
    BY <1>2 DEF Dials, DialsTo, DialSucceeds, NextStep, Snapshot
  <2>2. reading' /\ step' = "greeting" /\ buffer' = <<>>
    BY <2>1 DEF Proceed
  <2>3. Unread' = <<>>
    BY <2>1, <2>2 DEF Unread
  <2>4. ~srv'.greeted /\ srv'.work.marked = {}
    BY <2>1 DEF Fresh, NewWork
  <2>5. OneReply'
    BY <2>3 DEF OneReply
  <2>. QED
    BY <2>1, <2>2, <2>3, <2>4, <2>5 DEF Accounted, Greeting
<1>3. CASE DialFailed \/ Closes
  BY <1>1, <1>3, GivenUp DEF DialFailed, DialFails, Closes, CloseEnds
<1>4. CASE Upgrades
  <2>1. /\ Proceed(NextStep("upgrade"), LastCode) /\ step = "upgrade" /\ s2c = <<>>
        /\ UNCHANGED <<lost, c2s, s2c, told>> /\ chan # "Closed"
        /\ srv.tls = "await" /\ srv' = Secured(srv, NewWork)
    BY <1>4 DEF Upgrades, UpgradesTo, UpgradeSucceeds, histVars, wire
  <2>2. NextStep("upgrade") # "greeting"
    BY DEF NextStep, LoginStep
  <2>3. ~reading /\ ~reading' /\ buffer' = <<>>
    BY <2>1, <2>2 DEF Proceed, Return, CInv, Placed
  <2>4. srv.work.marked = {} /\ srv'.work.marked = {} /\ srv'.greeted = srv.greeted
    BY <2>1 DEF Typed, Serving, Minded, Secured, NewWork
  <2>5. Unread' = <<>>
    BY <2>1, <2>3 DEF Unread
  <2>6. Calm => Idle'
    BY <2>1, <2>3, <2>4, <2>5 DEF Accounted, Idle
  <2>. QED
    BY <2>1, <2>3, <2>6 DEF Accounted, Calm
<1>5. CASE Continues
  BY <1>5, ContinuesAccounted
<1>6. CASE RecvFails
  BY <1>1, <1>6, GivenUp DEF RecvFails, GiveUp
<1>7. CASE /\ \/ \E m \in Methods : Call(m)
              \/ \E e \in Endpoints : Connect(e) \/ ConnectWrongScheme(e)
              \/ Close
           /\ UNCHANGED <<serverVars, told>>
  <2>1. op = "none" /\ UNCHANGED <<chan, lost, reading, buffer, c2s, s2c, srv, told>>
    BY <1>7 DEF Call, Close, Connect, ConnectTo, Begin, ConnectWrongScheme, RefuseScheme, Answers,
       callVars, wire, serverVars
  <2>2. ~reading /\ buffer = <<>>
    BY <2>1 DEF CInv, Placed, Wired
  <2>. QED
    BY <2>1, <2>2, StillIdle
<1>8. CASE ServerStep
  BY <1>8, ServerAccounted
<1>9. CASE UNCHANGED vars \/ QuitsLate
  <2>1. /\ UNCHANGED <<buffer, s2c, c2s, srv, cmds, reply, arg, step, reading, chan, lost>>
        /\ told'.drop = told.drop /\ told'.gone = told.gone
        /\ (store' = store /\ told' = told) \/ told'.held = FALSE
    BY <1>9 DEF vars, mailVars, clientVars, callVars, histVars, wire, serverVars, QuitsLate,
       Typed, Serving, Stocked
  <2>2. Unread' = Unread
    BY <2>1 DEF Unread
  <2>3. Said' = Said /\ Multiline' = Multiline
    BY <2>1, <2>2 DEF Said, LineAt, Multiline
  <2>4. OneReply' = OneReply
    BY <2>1, <2>2, <2>3 DEF OneReply, EndsAt, LineAt
  <2>5. Marks' = Marks /\ Carries(told.drop[arg])' = Carries(told.drop[arg])
    BY <2>1, <2>2, <2>3 DEF Marks, Carries, LineAt
  <2>6. Meant => Meant'
    BY <2>1, <2>3, <2>5 DEF Meant
  <2>. QED
    BY <2>1, <2>2, <2>4, <2>6 DEF Accounted, Calm, Idle, Greeting, Pending, Answered
<1>. QED
  BY <1>2, <1>3, <1>4, <1>5, <1>6, <1>7, <1>8, <1>9 DEF Next, Departs, ClientStep

LEMMA InitAccounted == ASSUME Init PROVE Accounted
BY DEF Init, SessionInit, ClientInit, Accounted, Calm
-----------------------------------------------------------------------------
(* What was read last, and what it was returned for.                       *)

\* The reply read last is the whole reply to the last command that was read.
LastRead ==
  /\ reading => chan # "Closed"
  /\ Calm /\ reply # <<>> =>
       /\ \A i \in DOMAIN reply : reply[i].re = IF reading THEN cmds - 1 ELSE cmds
       /\ \A i \in DOMAIN reply : reply[i].last <=> i = Len(reply)

\* The connection was ended by a quit that was answered +OK.
QuitDone ==
  op = "none" /\ result.of = "quit" /\ result.kind = "reply" /\ result.code = Ok /\ lost = 0 =>
    ~srv.open /\ (told.held => store = Without(told.drop, told.gone))

Outcome == RetrReturnsTheMessage /\ QuitDone

\* A server does not outlive the connection the client closed.
Hung == chan = "Closed" => ~srv.open
-----------------------------------------------------------------------------
LEMMA TakenReply ==
  ASSUME Wired, Accounted, Calm, reading, NEW chunk \in Chunks,
         ~Invalid(buffer \o chunk), Ends(buffer \o chunk) # {}, reply' = ReplyIn(buffer \o chunk)
  PROVE  /\ step # "greeting" => Answered
         /\ Len(reply') \in Nat \ {0} /\ Len(Unread) = 2 * Len(reply')
         /\ DOMAIN reply' = 1..Len(reply') /\ EndsAt(Len(reply'))
         /\ \A k \in 1..Len(reply') :
              /\ reply'[k] = LineAt(k) /\ reply'[k].re = cmds
              /\ reply'[k].last <=> k = Len(reply')
         /\ Head(reply').code = Said /\ Said \in {Ok, Err}
<1>1. Unread # <<>>
  BY DEF Chunks, Wired, Unread
<1>2. OneReply /\ (step # "greeting" => Answered)
  BY <1>1 DEF Accounted, Greeting, Pending, Answered
<1>. QED
  BY <1>2, TakesAll

LEMMA ContinuesLastRead ==
  ASSUME CInv(Late), Wired, Accounted, LastRead, Continues PROVE LastRead'
<1>1. lost \in Nat /\ cmds \in Nat
  BY DEF CInv, Types, Counts
<1>2. CASE UpgradeFails \/ SendFails(Verb, 0) \/ RecvTimeout \/ ClosedAtOtherEnd \/ SendRefused
  <2>1. ~reading' /\ (lost' = lost + 1 \/ chan' = "Closed")
    BY <1>2 DEF UpgradeFails, SendFails, RecvTimeout, ClosedAtOtherEnd, RecvClosed, SendRefused,
       GiveUp, Return
  <2>. QED
    BY <1>1, <2>1, GivenUp DEF LastRead
<1>3. CASE Unresolved
  BY <1>3 DEF Unresolved, Return, histVars, CInv, Placed, LastRead, Calm
<1>4. CASE SendCommand(Verb, 0)
  <2>1. ~reading /\ reading' /\ chan' = chan /\ chan # "Closed" /\ cmds' = cmds + 1
        /\ UNCHANGED <<reply, lost>>
    BY <1>4 DEF SendCommand, Sends
  <2>2. cmds' - 1 = cmds
    BY <1>1, <2>1
  <2>. QED
    BY <2>1, <2>2 DEF LastRead, Calm
<1>5. CASE RecvChunk
  <2>1. PICK chunk \in Chunks : LET data == buffer \o chunk IN
       \/ Keeps(chunk)
       \/ /\ ~Invalid(data) /\ Ends(data) # {} /\ Takes(chunk, ReplyIn(data))
          /\ \E kind, code : Proceed(NextStep(step), code) \/ Return(kind, code)
       \/ Rejects(chunk)
    BY <1>5 DEF RecvChunk
  <2>2. CASE Keeps(chunk)
    BY <2>2 DEF Keeps, histVars, LastRead, Calm
  <2>3. CASE Rejects(chunk)
    <3>1. ~reading' /\ lost' = lost + 1
      BY <2>3 DEF Rejects, GiveUp, Return
    <3>. QED
      BY <1>1, <3>1, GivenUp DEF LastRead
  <2>4. CASE ~Keeps(chunk) /\ ~Rejects(chunk)
    <3>. DEFINE data == buffer \o chunk
    <3>1. ~Invalid(data) /\ Ends(data) # {} /\ Takes(chunk, ReplyIn(data))
          /\ \E kind, code : Proceed(NextStep(step), code) \/ Return(kind, code)
      BY <2>1, <2>4
    <3>2. NextStep(step) # "greeting"
      BY <1>5 DEF RecvChunk, CInv, Placed, NextStep, AfterGreeting, LoginStep
    <3>3. ~reading' /\ reading /\ reply' = ReplyIn(data) /\ UNCHANGED <<chan, lost, cmds>>
      BY <1>5, <3>1, <3>2 DEF RecvChunk, Proceed, Return, Takes
    <3>4. Calm => \A k \in DOMAIN reply' : reply'[k].re = cmds /\ (reply'[k].last <=> k = Len(reply'))
      BY <3>1, <3>3, TakenReply
    <3>. QED
      BY <3>3, <3>4 DEF LastRead, Calm
  <2>. QED
    BY <2>1, <2>2, <2>3, <2>4
<1>. QED
  BY <1>2, <1>3, <1>4, <1>5 DEF Continues

LEMMA NextLastRead ==
  ASSUME CInv(Late), Wired, Accounted, LastRead, [Next]_vars PROVE LastRead'
<1>1. lost \in Nat
  BY DEF CInv, Types, Counts
<1>2. CASE Dials
  <2>1. reply' = <<>> /\ chan' # "Closed"
    BY <1>2 DEF Dials, DialsTo, DialSucceeds
  <2>. QED
    BY <2>1 DEF LastRead
<1>3. CASE DialFailed \/ Closes
  <2>1. ~reading' /\ chan' = "Closed"
    BY <1>3 DEF DialFailed, DialFails, Return, Closes, CloseEnds
  <2>. QED
    BY <2>1 DEF LastRead, Calm
<1>4. CASE Upgrades
  <2>1. /\ Proceed(NextStep("upgrade"), LastCode) /\ step = "upgrade"
        /\ UNCHANGED <<lost, reply, cmds>> /\ chan # "Closed" /\ NextStep("upgrade") # "greeting"
    BY <1>4 DEF Upgrades, UpgradesTo, UpgradeSucceeds, histVars, NextStep, LoginStep
  <2>2. ~reading /\ ~reading'
    BY <2>1 DEF Proceed, Return, CInv, Placed
  <2>. QED
    BY <2>1, <2>2 DEF LastRead, Calm
<1>5. CASE Continues
  BY <1>5, ContinuesLastRead
<1>6. CASE RecvFails
  <2>1. ~reading' /\ lost' = lost + 1
    BY <1>6 DEF RecvFails, GiveUp, Return
  <2>. QED
    BY <1>1, <2>1, GivenUp DEF LastRead
<1>7. CASE \/ \E m \in Methods : Call(m)
           \/ \E e \in Endpoints : Connect(e) \/ ConnectWrongScheme(e)
           \/ Close
  BY <1>7 DEF Call, Connect, ConnectTo, Close, Begin, ConnectWrongScheme, RefuseScheme, Answers,
     callVars, LastRead, Calm
<1>8. CASE ServerStep \/ QuitsLate \/ UNCHANGED vars
  BY <1>8 DEF ServerStep, QuitsLate, vars, mailVars, clientVars, callVars, histVars, LastRead, Calm
<1>. QED
  BY <1>2, <1>3, <1>4, <1>5, <1>6, <1>7, <1>8 DEF Next, Departs, ClientStep

LEMMA LastReadIsEnough == ASSUME LastRead PROVE OwnWholeReply
BY DEF LastRead, OwnWholeReply, Calm
-----------------------------------------------------------------------------
LEMMA Undetermined ==
  ASSUME \/ op' # "none" \/ result'.of \notin {"retr", "quit"} \/ result'.kind # "reply"
  PROVE  Outcome'
BY DEF Outcome, RetrReturnsTheMessage, QuitDone

\* The lines of a reply to RETR that is there in full.
LEMMA WholeMessage ==
  ASSUME Typed, Answered, step = "retr", Said = Ok, NEW n \in Nat \ {0},
         Len(Unread) = 2 * n, EndsAt(n)
  PROVE  [k \in 1..n |-> LineAt(k).code] = <<Ok>> \o told.drop[arg] \o <<Dot>>
<1>1. arg \in DOMAIN told.drop /\ Carries(told.drop[arg])
  BY DEF Answered, Meant
<1>2. told.drop[arg] \in Seq({Ok, Err, Text})
  BY <1>1 DEF Typed, Serving, Stocked, Messages
<1>3. PICK body \in Seq({Ok, Err, Text}) : body = told.drop[arg]
  BY <1>2
<1>4. Carries(body)
  BY <1>1, <1>3 DEF Carries
<1>5. n > 1 /\ LineAt(n).code = Dot /\ LineAt(1).code = Ok
  BY DEF EndsAt, Multiline, Said
<1>6. Len(Unread) \div 2 = n
  OBVIOUS
<1>7. \A k \in 2..n : IF k - 1 \in DOMAIN body THEN LineAt(k).code = body[k - 1]
                      ELSE k = Len(body) + 2 /\ LineAt(k).code = Dot
  BY <1>4, <1>6 DEF Carries
<1>8. n = Len(body) + 2
  <2>1. n \in 2..n
    BY <1>5
  <2>2. n - 1 \in DOMAIN body => body[n - 1] \in {Ok, Err, Text}
    OBVIOUS
  <2>3. Dot \notin {Ok, Err, Text}
    BY DEF Dot, Ok, Err, Text
  <2>. QED
    BY <1>5, <1>7, <2>1, <2>2, <2>3
<1>9. Len(body) \in Nat /\ DOMAIN body = 1..Len(body)
  OBVIOUS
<1>. DEFINE codes == <<Ok>> \o body \o <<Dot>>
<1>10. /\ codes \in Seq({Ok, Err, Text, Dot}) /\ Len(codes) = Len(body) + 2
       /\ \A i \in 1..(Len(body) + 2) :
            codes[i] = IF i = 1 THEN Ok ELSE IF i = Len(body) + 2 THEN Dot ELSE body[i - 1]
  BY DEF Ok, Dot, Err, Text
<1>. HIDE DEF codes
<1>11. codes = [k \in 1..n |-> codes[k]]
  BY <1>8, <1>10
<1>12. ASSUME NEW k \in 1..n PROVE LineAt(k).code = codes[k]
  <2>1. CASE k = 1
    BY <1>5, <1>8, <1>10, <2>1
  <2>2. CASE k # 1 /\ k # n
    <3>1. k \in 2..n /\ k - 1 \in DOMAIN body
      BY <1>8, <1>9, <2>2
    <3>. QED
      BY <1>7, <1>8, <1>10, <2>2, <3>1
  <2>3. CASE k = n
    BY <1>5, <1>8, <1>9, <1>10, <2>3
  <2>. QED
    BY <2>1, <2>2, <2>3
<1>13. [k \in 1..n |-> LineAt(k).code] = [k \in 1..n |-> codes[k]]
  BY <1>12
<1>14. codes = <<Ok>> \o told.drop[arg] \o <<Dot>>
  BY <1>3 DEF codes
<1>. QED
  BY <1>11, <1>13, <1>14

\* What a call returns that did not get its reply.
LEMMA Fails ==
  ASSUME Unresolved \/ UpgradeFails \/ SendFails(Verb, 0) \/ SendRefused \/ RecvTimeout
         \/ ClosedAtOtherEnd
  PROVE  op' = "none" /\ result'.kind \notin {"ok", "reply"}
<1>1. \E kind, code : Return(kind, code) /\ kind \in {"InvalidHost", "TlsError", "InvalidState",
         "SendError", "Timeout", "ConnectionClosed"}
  BY DEF Unresolved, UpgradeFails, SendFails, SendRefused, RecvTimeout, ClosedAtOtherEnd,
     RecvClosed, GiveUp
<1>. QED
  BY <1>1 DEF Return

LEMMA TakesOutcome ==
  ASSUME CInv(Late), Wired, Typed, Stepped, Accounted, LastRead, reading, NEW chunk \in Chunks,
         ~Invalid(buffer \o chunk), Ends(buffer \o chunk) # {},
         Takes(chunk, ReplyIn(buffer \o chunk)),
         LET code == Head(reply').code IN
           IF GoesOn(step, code) THEN Proceed(NextStep(step), code)
           ELSE Return(IF op = "connect" THEN "ServerError" ELSE "reply", code),
         Tells, UNCHANGED serverVars
  PROVE  Outcome'
<1>. DEFINE code == Head(reply').code
<1>1. SUFFICES ASSUME op' = "none", result'.of \in {"retr", "quit"}, result'.code = Ok, lost' = 0
               PROVE  Outcome'
  BY DEF Outcome, RetrReturnsTheMessage, QuitDone
<1>2. op # "none"
  BY DEF CInv, Placed
<1>3. result'.of = op /\ result'.code = code /\ arg' = arg
  BY <1>1, <1>2 DEF Proceed, Return
<1>4. step = op /\ step \in {"retr", "quit"} /\ step # "greeting"
  BY <1>1, <1>3 DEF Stepped, Simple
<1>5. Calm /\ reply' = ReplyIn(buffer \o chunk)
  BY <1>1 DEF LastRead, Calm, Takes
<1>6. /\ Answered /\ Said = Ok
      /\ Len(reply') \in Nat \ {0} /\ Len(Unread) = 2 * Len(reply')
      /\ DOMAIN reply' = 1..Len(reply') /\ EndsAt(Len(reply'))
      /\ \A k \in 1..Len(reply') : reply'[k] = LineAt(k)
  BY <1>1, <1>3, <1>4, <1>5, TakenReply
<1>7. told'.gone = Marks /\ told'.drop = told.drop /\ told'.held = told.held
  <2>1. code = Said /\ Said \in {Ok, Err}
    BY <1>1, <1>3, <1>6
  <2>. QED
    BY <1>2, <2>1, TellsMarks
<1>8. CASE op = "retr"
  <2>1. [k \in 1..Len(reply') |-> LineAt(k).code] = <<Ok>> \o told.drop[arg] \o <<Dot>>
    BY <1>4, <1>6, <1>8, WholeMessage
  <2>2. [k \in DOMAIN reply' |-> reply'[k].code] = [k \in 1..Len(reply') |-> LineAt(k).code]
    BY <1>6
  <2>. QED
    BY <1>3, <1>7, <1>8, <2>1, <2>2 DEF Outcome, RetrReturnsTheMessage, QuitDone
<1>9. CASE op = "quit"
  <2>1. ~srv.open /\ (told.held => store = Without(told.drop, told.gone)) /\ Marks = told.gone
    BY <1>4, <1>6, <1>9 DEF Answered, Meant, Marks
  <2>. QED
    BY <1>3, <1>7, <1>9, <2>1 DEF Outcome, RetrReturnsTheMessage, QuitDone, serverVars
<1>. QED
  BY <1>1, <1>3, <1>8, <1>9

LEMMA NextOutcome ==
  ASSUME CInv(Late), Wired, Typed, Stepped, Accounted, LastRead, Hung, Outcome, [Next]_vars
  PROVE  Outcome'
<1>1. CASE Dials \/ Upgrades
  <2>1. PICK s \in {"dial", "upgrade"} : step = s /\ \E code : Proceed(NextStep(s), code)
    BY <1>1 DEF Dials, DialsTo, DialSucceeds, Upgrades, UpgradesTo, UpgradeSucceeds
  <2>2. op \notin {"none", "retr", "quit"}
    BY <2>1 DEF CInv, Placed, Stepped, Simple
  <2>3. op' = op \/ result'.of = op
    BY <2>1 DEF Proceed, Return
  <2>. QED
    BY <2>2, <2>3, Undetermined
<1>2. CASE DialFailed \/ Closes \/ RecvFails
  <2>1. \E kind \in {"ConnectionError", "ok", "RecvError"} : Return(kind, 0)
    BY <1>2 DEF DialFailed, DialFails, Closes, CloseEnds, RecvFails, GiveUp
  <2>2. result'.kind # "reply"
    BY <2>1 DEF Return
  <2>. QED
    BY <2>2, Undetermined
<1>3. CASE Continues
  <2>1. op # "none"
    BY <1>3 DEF Continues, Unresolved, UpgradeFails, SendCommand, SendFails, SendRefused, Sends,
       RecvChunk, RecvTimeout, ClosedAtOtherEnd, RecvClosed, CInv, Placed
  <2>2. CASE Unresolved \/ UpgradeFails \/ SendFails(Verb, 0) \/ SendRefused \/ RecvTimeout
             \/ ClosedAtOtherEnd
    BY <2>2, Fails, Undetermined
  <2>3. CASE SendCommand(Verb, 0)
    BY <2>1, <2>3, Undetermined DEF SendCommand
  <2>4. CASE RecvChunk
    <3>1. PICK chunk \in Chunks : LET data == buffer \o chunk IN
         \/ Keeps(chunk)
         \/ /\ ~Invalid(data) /\ Ends(data) # {} /\ Takes(chunk, ReplyIn(data))
            /\ LET code == Head(reply').code IN
               IF GoesOn(step, code) THEN Proceed(NextStep(step), code)
               ELSE Return(IF op = "connect" THEN "ServerError" ELSE "reply", code)
         \/ Rejects(chunk)
      BY <2>4 DEF RecvChunk
    <3>2. CASE Keeps(chunk)
      BY <2>1, <3>2, Undetermined DEF Keeps
    <3>3. CASE Rejects(chunk)
      BY <3>3, Undetermined DEF Rejects, GiveUp, Return
    <3>4. reading /\ Tells /\ UNCHANGED serverVars
      BY <1>3, <2>4 DEF Continues, RecvChunk
    <3>5. CASE ~Keeps(chunk) /\ ~Rejects(chunk)
      <4>1. /\ ~Invalid(buffer \o chunk) /\ Ends(buffer \o chunk) # {}
            /\ Takes(chunk, ReplyIn(buffer \o chunk))
            /\ LET code == Head(reply').code IN
               IF GoesOn(step, code) THEN Proceed(NextStep(step), code)
               ELSE Return(IF op = "connect" THEN "ServerError" ELSE "reply", code)
        BY <3>1, <3>5
      <4>. QED
        BY <3>4, <4>1, TakesOutcome
    <3>. QED
      BY <3>1, <3>2, <3>3, <3>5
  <2>. QED
    BY <1>3, <2>2, <2>3, <2>4 DEF Continues
<1>4. CASE \/ \E m \in Methods : Call(m)
           \/ \E e \in Endpoints : Connect(e) \/ ConnectWrongScheme(e)
           \/ Close
  <2>1. op' # "none" \/ result'.kind = "InvalidScheme"
    BY <1>4, Pop3Assumption DEF Pop3Assumption, AllMethods, Call, Connect, ConnectTo, Close, Begin,
       ConnectWrongScheme, RefuseScheme, Answers
  <2>. QED
    BY <2>1, Undetermined
<1>5. CASE ServerStep
  <2>1. UNCHANGED <<op, result, lost, arg, reply, reading>>
    BY <1>5 DEF ServerStep, clientVars, callVars, histVars
  <2>2. srv.open
    BY <1>5 DEF ServerStep, Serves, Greets, Handles, HandlesPartial, JoinsPartials, Reads,
       AbortsHandshake, Crash
  <2>3. SUFFICES ASSUME op = "none", lost = 0 PROVE Outcome'
    BY <2>1 DEF Outcome, RetrReturnsTheMessage, QuitDone
  <2>4. Calm /\ ~reading
    BY <2>2, <2>3 DEF Hung, Calm, CInv, Placed
  <2>5. told' = told
    BY <1>5, <2>4, LogsIn
  <2>. QED
    BY <2>1, <2>2, <2>5 DEF Outcome, RetrReturnsTheMessage, QuitDone
<1>6. CASE QuitsLate \/ UNCHANGED vars
  <2>1. /\ UNCHANGED <<op, result, lost, arg, reply, srv>>
        /\ told'.drop = told.drop /\ told'.gone = told.gone
        /\ (store' = store /\ told' = told) \/ told'.held = FALSE
    BY <1>6 DEF vars, mailVars, clientVars, callVars, histVars, serverVars, QuitsLate,
       Typed, Serving, Stocked
  <2>. QED
    BY <2>1 DEF Outcome, RetrReturnsTheMessage, QuitDone
<1>. QED
  BY <1>1, <1>2, <1>3, <1>4, <1>5, <1>6 DEF Next, Departs, ClientStep

LEMMA OutcomeIsEnough == ASSUME Outcome PROVE RetrReturnsTheMessage /\ MaildropAsTold
BY DEF Outcome, QuitDone, MaildropAsTold

LEMMA NextHung == ASSUME CInv(Late), Typed, Hung, [Next]_vars PROVE Hung'
<1>1. srv \in [open : BOOLEAN, greeted : BOOLEAN, tls : {"clear", "await", "on"}, work : Works]
  BY DEF Typed, Serving, Minded
<1>2. CASE Dials
  BY <1>2 DEF Dials, DialsTo, DialSucceeds, Hung
<1>3. CASE DialFailed \/ Closes
  BY <1>1, <1>3 DEF DialFailed, Closes, Gone, Hung
<1>4. CASE Upgrades
  BY <1>4 DEF Upgrades, UpgradesTo, UpgradeSucceeds, Hung
<1>5. CASE Continues
  <2>1. UNCHANGED <<srv, chan>>
    BY <1>5 DEF Continues, serverVars, Unresolved, UpgradeFails, SendCommand, SendFails, SendRefused,
       RecvChunk, Keeps, Takes, Rejects, RecvTimeout, ClosedAtOtherEnd, RecvClosed, histVars
  <2>. QED
    BY <2>1 DEF Hung
<1>6. CASE ClientStep /\ ~Continues
  <2>1. UNCHANGED <<srv, chan>>
    BY <1>6 DEF ClientStep, serverVars, Call, Connect, ConnectTo, Close, Begin, ConnectWrongScheme,
       RefuseScheme, Answers, RecvFails
  <2>. QED
    BY <2>1 DEF Hung
<1>7. CASE ServerStep
  <2>1. chan' = chan /\ srv.open
    BY <1>7 DEF ServerStep, clientVars, Serves, Greets, Handles, HandlesPartial, JoinsPartials, Reads,
       AbortsHandshake, Crash
  <2>. QED
    BY <2>1 DEF Hung
<1>8. CASE QuitsLate \/ UNCHANGED vars
  BY <1>8 DEF QuitsLate, vars, mailVars, serverVars, clientVars, Hung
<1>. QED
  BY <1>2, <1>3, <1>4, <1>5, <1>6, <1>7, <1>8 DEF Next, Departs

LEMMA InitOutcome == ASSUME Init PROVE LastRead /\ Outcome /\ Hung
BY DEF Init, SessionInit, ClientInit, ServerInit, Gone, Fresh, LastRead, Outcome,
   RetrReturnsTheMessage, QuitDone, Hung
-----------------------------------------------------------------------------
(* What connect has when it succeeds.                                      *)

Encrypted == chan = "Tls" /\ srv.tls = "on"
Clear     == chan = "Plain" /\ srv.tls = "clear"

\* The channel in the steps of connect: between STLS and the handshake the
\* server may be ahead of the client.
AsWanted ==
  CASE endpoint.security = "Plain" -> Clear
    [] endpoint.security = "Tls" -> Encrypted
    [] endpoint.security = "StartTls" ->
         IF step = "greeting" THEN Clear
         ELSE IF step \in {"stls", "upgrade"} THEN chan = "Plain" ELSE Encrypted

Underway ==
  op = "connect" /\ step # "dial" =>
    /\ lost = 0 /\ chan # "Closed"
    /\ step \in {"greeting", "stls", "upgrade", "user", "pass"}
    /\ step \in {"stls", "upgrade"} => endpoint.security = "StartTls"
    /\ step \in {"user", "pass"} => endpoint.user
    /\ AsWanted

Connected ==
  op = "none" /\ result.of = "connect" /\ result.kind = "ok" =>
    /\ lost = 0
    /\ IF endpoint.security = "Plain" THEN Clear ELSE Encrypted
    /\ endpoint.user => srv.work.login

InConnect == Underway /\ Connected
-----------------------------------------------------------------------------
LEMMA ConnectSecurity ==
  ASSUME CInv(Late), op = "connect" PROVE endpoint.security \in {"Plain", "Tls", "StartTls"}
BY ClientAssumption DEF ClientAssumption, CInv, Placed

\* A call that is not a connect that succeeded.
LEMMA NotConnected ==
  ASSUME (op' = "none" /\ (result'.of # "connect" \/ result'.kind # "ok"))
         \/ op' \notin {"none", "connect"} \/ (op' = "connect" /\ step' = "dial")
  PROVE  InConnect'
BY DEF InConnect, Underway, Connected

\* A reply takes connect to its next step, or to its end.
LEMMA TakesInConnect ==
  ASSUME CInv(Late), Wired, Typed, Stepped, Accounted, LastRead, InConnect, reading,
         NEW chunk \in Chunks,
         ~Invalid(buffer \o chunk), Ends(buffer \o chunk) # {},
         Takes(chunk, ReplyIn(buffer \o chunk)),
         LET code == Head(reply').code IN
           IF GoesOn(step, code) THEN Proceed(NextStep(step), code)
           ELSE Return(IF op = "connect" THEN "ServerError" ELSE "reply", code),
         UNCHANGED serverVars
  PROVE  InConnect'
<1>. DEFINE code == Head(reply').code
<1>1. op # "none" /\ step \notin {"dial", "upgrade"}
  BY DEF CInv, Placed
<1>2. CASE op # "connect"
  BY <1>1, <1>2, NotConnected DEF Proceed, Return
<1>3. CASE op = "connect" /\ ~GoesOn(step, code)
  BY <1>3, NotConnected DEF Return
<1>4. CASE op = "connect" /\ GoesOn(step, code)
  <2>1. Proceed(NextStep(step), code) /\ UNCHANGED <<chan, lost, srv, endpoint>>
    BY <1>4 DEF Takes, serverVars
  <2>2. /\ lost = 0 /\ chan # "Closed" /\ AsWanted
        /\ step \in {"greeting", "stls", "user", "pass"}
        /\ step = "stls" => endpoint.security = "StartTls"
        /\ step \in {"user", "pass"} => endpoint.user
    BY <1>1, <1>4 DEF InConnect, Underway
  <2>3. code = Ok
    BY <2>2, <1>4 DEF GoesOn
  <2>4. endpoint.security \in {"Plain", "Tls", "StartTls"}
    BY <1>4, ConnectSecurity
  <2>5. CASE NextStep(step) = "done"
    <3>1. op' = "none" /\ (step = "pass" \/ (~endpoint.user /\ step = "greeting"))
      BY <2>1, <2>2, <2>5 DEF NextStep, AfterGreeting, LoginStep, Proceed, Return
    <3>2. step = "pass" => srv.work.login
      <4>1. SUFFICES ASSUME step = "pass" PROVE srv.work.login
        OBVIOUS
      <4>2. Answered /\ Said = Ok
        BY <2>2, <2>3, <4>1, TakenReply DEF Takes, Calm
      <4>. QED
        BY <4>1, <4>2 DEF Answered, Meant
    <3>3. IF endpoint.security = "Plain" THEN Clear ELSE Encrypted
      BY <2>2, <2>4, <2>5, <3>1 DEF AsWanted, NextStep, AfterGreeting
    <3>. QED
      BY <2>1, <2>2, <3>1, <3>2, <3>3 DEF InConnect, Underway, Connected, Clear, Encrypted
  <2>6. CASE NextStep(step) # "done"
    <3>1. step' = NextStep(step) /\ op' = op
      BY <2>1, <2>6 DEF Proceed
    <3>2. CASE step = "greeting"
      BY <1>4, <2>1, <2>2, <2>4, <2>6, <3>1, <3>2
         DEF NextStep, AfterGreeting, LoginStep, InConnect, Underway, Connected, AsWanted, Clear,
         Encrypted
    <3>3. CASE step \in {"stls", "user", "pass"}
      BY <1>4, <2>1, <2>2, <2>4, <2>6, <3>1, <3>3
         DEF NextStep, InConnect, Underway, Connected, AsWanted, Clear, Encrypted
    <3>. QED
      BY <2>2, <3>2, <3>3
  <2>. QED
    BY <2>5, <2>6
<1>. QED
  BY <1>2, <1>3, <1>4

\* Nothing changed that a connect depends on.
LEMMA SameInConnect ==
  ASSUME InConnect, UNCHANGED <<op, step, lost, chan, endpoint, result, srv>> PROVE InConnect'
BY DEF InConnect, Underway, Connected, AsWanted, Clear, Encrypted

\* The server says it waits for the handshake only when it was asked to.
LEMMA ServerInConnect ==
  ASSUME CInv(Late), Wired, Typed, Accounted, InConnect, ServerStep PROVE InConnect'
<1>1. UNCHANGED <<op, step, lost, chan, endpoint, result, reading>> /\ (Serves \/ Crash)
  BY DEF ServerStep, clientVars, callVars, histVars
<1>2. srv \in [open : BOOLEAN, greeted : BOOLEAN, tls : {"clear", "await", "on"}, work : Works]
  BY DEF Typed, Serving, Minded
<1>3. ASSUME srv' = Gone(srv) PROVE srv'.tls = srv.tls /\ srv'.work = srv.work
  BY <1>2, <1>3 DEF Gone
<1>4. ASSUME c2s = <<>>, srv.greeted PROVE srv' = Gone(srv)
  BY <1>1, <1>4 DEF Serves, Greets, Handles, HandlesPartial, JoinsPartials, Reads, AbortsHandshake,
     Crash
<1>5. Connected'
  <2>1. SUFFICES ASSUME op = "none", result.of = "connect", result.kind = "ok"
                 PROVE  Connected'
    BY <1>1 DEF Connected
  <2>2. lost = 0 /\ (Clear \/ Encrypted) /\ ~reading
    BY <2>1 DEF InConnect, Connected, CInv, Placed
  <2>3. Idle
    BY <2>2 DEF Accounted, Calm, Clear, Encrypted
  <2>4. srv'.tls = srv.tls /\ srv'.work = srv.work
    BY <1>3, <1>4, <2>3 DEF Idle
  <2>. QED
    BY <1>1, <2>4 DEF InConnect, Connected, Clear, Encrypted
<1>6. Underway'
  <2>1. SUFFICES ASSUME op = "connect", step # "dial" PROVE AsWanted'
    BY <1>1 DEF InConnect, Underway
  <2>2. Calm /\ AsWanted /\ endpoint.security \in {"Plain", "Tls", "StartTls"}
        /\ (step \in {"stls", "upgrade"} => endpoint.security = "StartTls")
        /\ step \in {"greeting", "stls", "upgrade", "user", "pass"}
    BY <2>1, ConnectSecurity DEF InConnect, Underway, Calm
  <2>3. CASE step \in {"stls", "upgrade"}
    BY <1>1, <2>2, <2>3 DEF AsWanted
  <2>4. CASE step \in {"greeting", "user", "pass"}
    <3>1. srv'.tls = srv.tls
      <4>1. CASE srv' = Gone(srv)
        BY <1>3, <4>1
      <4>2. CASE Greets
        BY <1>2, <4>2 DEF Greets
      <4>3. CASE srv' # Gone(srv) /\ ~Greets
        <5>1. Pending
          BY <1>1, <1>4, <2>2, <2>4, <4>3 DEF Accounted, Idle, Greeting, Answered, Serves, Handles,
             HandlesPartial, JoinsPartials, Reads, AbortsHandshake, Crash
        <5>2. Head(c2s).whole /\ Len(c2s) = 1 /\ Head(c2s).verb = step
          BY <5>1, Numbered DEF Pending
        <5>3. Handles
          BY <1>1, <4>3, <5>2 DEF Serves, HandlesPartial, JoinsPartials, AbortsHandshake, Crash
        <5>4. PICK v : srv' = Working(v) \/ srv' = srv
          BY <2>4, <4>3, <5>2, <5>3 DEF Handles, Authorizes, Transacts, Refuses, Quits
        <5>. QED
          BY <1>2, <5>4 DEF Working
      <4>. QED
        BY <4>1, <4>2, <4>3
    <3>. QED
      BY <1>1, <2>2, <2>4, <3>1 DEF AsWanted, Clear, Encrypted
  <2>. QED
    BY <2>2, <2>3, <2>4
<1>. QED
  BY <1>5, <1>6 DEF InConnect

LEMMA NextInConnect ==
  ASSUME CInv(Late), Wired, Typed, Stepped, Accounted, LastRead, InConnect, [Next]_vars
  PROVE  InConnect'
<1>1. CASE Dials
  <2>1. /\ Proceed("greeting", 0) /\ op = "connect" /\ lost' = 0 /\ endpoint' = endpoint
        /\ chan' = (IF endpoint.security = "Tls" THEN "Tls" ELSE "Plain")
        /\ srv' = Fresh(IF endpoint.security = "Tls" THEN "on" ELSE "clear", NewWork)
    BY <1>1 DEF Dials, DialsTo, DialSucceeds, NextStep, CInv, Placed
  <2>2. op' = "connect" /\ step' = "greeting"
        /\ srv'.tls = (IF endpoint.security = "Tls" THEN "on" ELSE "clear")
    BY <2>1 DEF Proceed, Fresh
  <2>3. endpoint.security \in {"Plain", "Tls", "StartTls"}
    BY <2>1, ConnectSecurity
  <2>. QED
    BY <2>1, <2>2, <2>3 DEF InConnect, Underway, Connected, AsWanted, Clear, Encrypted
<1>2. CASE Upgrades
  <2>1. /\ Proceed(NextStep("upgrade"), LastCode) /\ step = "upgrade" /\ chan' = "Tls"
        /\ UNCHANGED <<endpoint, lost>> /\ srv' = Secured(srv, NewWork)
    BY <1>2 DEF Upgrades, UpgradesTo, UpgradeSucceeds, histVars
  <2>2. srv'.tls = "on" /\ op # "none"
    BY <2>1 DEF Secured, Typed, Serving, Minded, CInv, Placed
  <2>3. CASE op # "connect"
    BY <2>1, <2>2, <2>3, NotConnected DEF Proceed, Return
  <2>4. CASE op = "connect"
    <3>1. lost = 0 /\ endpoint.security = "StartTls" /\ NextStep("upgrade") = LoginStep
      BY <2>1, <2>4 DEF InConnect, Underway, NextStep
    <3>2. CASE endpoint.user
      <4>1. op' = "connect" /\ step' = "user"
        BY <2>1, <2>4, <3>1, <3>2 DEF LoginStep, Proceed
      <4>. QED
        BY <2>1, <2>2, <3>1, <3>2, <4>1 DEF InConnect, Underway, Connected, AsWanted, Encrypted
    <3>3. CASE ~endpoint.user
      <4>1. op' = "none"
        BY <2>1, <3>1, <3>3 DEF LoginStep, Proceed, Return
      <4>. QED
        BY <2>1, <2>2, <3>1, <3>3, <4>1 DEF InConnect, Underway, Connected, Encrypted
    <3>. QED
      BY <3>2, <3>3
  <2>. QED
    BY <2>3, <2>4
<1>3. CASE DialFailed \/ RecvFails
  <2>1. Return("ConnectionError", 0) \/ Return("RecvError", 0)
    BY <1>3 DEF DialFailed, DialFails, RecvFails, GiveUp
  <2>2. op' = "none" /\ result'.kind \in {"ConnectionError", "RecvError"}
    BY <2>1 DEF Return
  <2>. QED
    BY <2>2, NotConnected
<1>4. CASE Closes
  <2>1. op = "close" /\ Return("ok", 0)
    BY <1>4 DEF Closes, CloseEnds, CInv, Placed
  <2>2. op' = "none" /\ result'.of = "close"
    BY <2>1 DEF Return
  <2>. QED
    BY <2>2, NotConnected
<1>5. CASE Continues
  <2>1. CASE Unresolved \/ UpgradeFails \/ SendFails(Verb, 0) \/ SendRefused \/ RecvTimeout
             \/ ClosedAtOtherEnd
    BY <2>1, Fails, NotConnected
  <2>2. CASE SendCommand(Verb, 0)
    BY <1>5, <2>2, SameInConnect DEF SendCommand, Continues, serverVars
  <2>3. CASE RecvChunk
    <3>1. PICK chunk \in Chunks : LET data == buffer \o chunk IN
         \/ Keeps(chunk)
         \/ /\ ~Invalid(data) /\ Ends(data) # {} /\ Takes(chunk, ReplyIn(data))
            /\ LET code == Head(reply').code IN
               IF GoesOn(step, code) THEN Proceed(NextStep(step), code)
               ELSE Return(IF op = "connect" THEN "ServerError" ELSE "reply", code)
         \/ Rejects(chunk)
      BY <2>3 DEF RecvChunk
    <3>2. CASE Keeps(chunk)
      BY <1>5, <3>2, SameInConnect DEF Keeps, histVars, Continues, serverVars
    <3>3. CASE Rejects(chunk)
      BY <3>3, NotConnected DEF Rejects, GiveUp, Return
    <3>4. reading /\ UNCHANGED serverVars
      BY <1>5, <2>3 DEF Continues, RecvChunk
    <3>5. CASE ~Keeps(chunk) /\ ~Rejects(chunk)
      <4>1. /\ ~Invalid(buffer \o chunk) /\ Ends(buffer \o chunk) # {}
            /\ Takes(chunk, ReplyIn(buffer \o chunk))
            /\ LET code == Head(reply').code IN
               IF GoesOn(step, code) THEN Proceed(NextStep(step), code)
               ELSE Return(IF op = "connect" THEN "ServerError" ELSE "reply", code)
        BY <3>1, <3>5
      <4>. QED
        BY <3>4, <4>1, TakesInConnect
    <3>. QED
      BY <3>1, <3>2, <3>3, <3>5
  <2>. QED
    BY <1>5, <2>1, <2>2, <2>3 DEF Continues
<1>6. CASE \E m \in Methods : Call(m)
  <2>1. op' \notin {"none", "connect"}
    BY <1>6, Pop3Assumption DEF Pop3Assumption, AllMethods, Call, Begin
  <2>. QED
    BY <2>1, NotConnected
<1>7. CASE Close \/ \E e \in Endpoints : Connect(e) \/ ConnectWrongScheme(e)
  <2>1. \/ op' = "connect" /\ step' = "dial"
        \/ op' = "close"
        \/ op' = "none" /\ result'.kind = "InvalidScheme"
    BY <1>7 DEF Close, Connect, ConnectTo, Begin, ConnectWrongScheme, RefuseScheme, Answers, callVars
  <2>. QED
    BY <2>1, NotConnected
<1>8. CASE ServerStep
  BY <1>8, ServerInConnect
<1>9. CASE QuitsLate \/ UNCHANGED vars
  BY <1>9, SameInConnect DEF QuitsLate, vars, mailVars, clientVars, callVars, histVars, serverVars
<1>. QED
  BY <1>1, <1>2, <1>3, <1>4, <1>5, <1>6, <1>7, <1>8, <1>9 DEF Next, Departs, ClientStep

LEMMA ConnectedIsEnough == ASSUME InConnect PROVE ConnectOkMeansLoggedIn
BY DEF InConnect, Connected, Clear, Encrypted, ConnectOkMeansLoggedIn, ChannelAsAsked

LEMMA InitInConnect == ASSUME Init PROVE InConnect
BY DEF Init, SessionInit, ClientInit, InConnect, Underway, Connected
-----------------------------------------------------------------------------
(* The theorems.                                                           *)

Pop3Inv ==
  /\ CInv(Late) /\ Wired /\ Typed /\ Socketed /\ Stepped
  /\ Accounted /\ LastRead /\ Hung /\ Outcome /\ InConnect

\* Everything above together is an inductive invariant.
LEMMA Pop3Invariant == Spec => []Pop3Inv
<1>1. ASSUME Init PROVE Pop3Inv
  BY <1>1, InitPop3, InitTyped, InitStepped, InitAccounted, InitOutcome, InitInConnect DEF Pop3Inv
<1>2. ASSUME Pop3Inv, [Next]_vars PROVE Pop3Inv'
  <2>1. /\ CInv(Late) /\ Wired /\ Typed /\ Socketed /\ Stepped
        /\ Accounted /\ LastRead /\ Hung /\ Outcome /\ InConnect
    BY <1>2 DEF Pop3Inv
  <2>2. CInv(Late)' /\ Typed' /\ Socketed' /\ Stepped' /\ Hung'
    BY <1>2, <2>1, NextPop3, NextTyped, NextSocketed, NextStepped, NextHung
  <2>3. Wired'
    BY <1>2, <2>1, NextWired DEF Typed
  <2>4. Accounted' /\ LastRead' /\ Outcome' /\ InConnect'
    BY <1>2, <2>1, NextAccounted, NextLastRead, NextOutcome, NextInConnect
  <2>. QED
    BY <2>2, <2>3, <2>4 DEF Pop3Inv
<1>. QED
  BY <1>1, <1>2, PTL DEF Spec

\* The commands in flight, the server's side and what the caller was told of
\* deletions are what they should be, for any maildrop and any message numbers:
\* the server marks only messages of the maildrop there was at the login.
THEOREM Pop3TypeCorrect == Spec => []TypeOK
<1>1. ASSUME Pop3Inv PROVE TypeOK
  BY <1>1, TypedIsEnough DEF Pop3Inv
<1>. QED
  BY <1>1, Pop3Invariant, PTL

\* readReply takes no text read in clear for the encrypted session: UpgradesTo
\* finds the stream empty, and readReply's buffer is local to one reply.
THEOREM Pop3NoClearReplyUnderTls == Spec => []NoClearReplyUnderTls
<1>1. ASSUME Pop3Inv PROVE NoClearReplyUnderTls
  BY <1>1, WiredIsEnough DEF Pop3Inv
<1>. QED
  BY <1>1, Pop3Invariant, PTL

\* Pop3Client::readReply returns the reply to the command just sent, from its
\* status to its end (the dot, where the command and the status ask for one),
\* while nothing was given up: no line is left for the next command, none taken
\* from another reply, however the stream is cut.
THEOREM Pop3OwnWholeReply == Spec => []OwnWholeReply
<1>1. ASSUME Pop3Inv PROVE OwnWholeReply
  BY <1>1, LastReadIsEnough DEF Pop3Inv
<1>. QED
  BY <1>1, Pop3Invariant, PTL

\* The lines Pop3Client::retr returns are those of the message it asked for as
\* it was at the login, although lines of it look like a status: deletions do
\* not renumber, and only the first line is taken for the status.
THEOREM Pop3RetrReturnsTheMessage == Spec => []RetrReturnsTheMessage
<1>1. ASSUME Pop3Inv PROVE RetrReturnsTheMessage
  BY <1>1, OutcomeIsEnough DEF Pop3Inv
<1>. QED
  BY <1>1, Pop3Invariant, PTL

\* What dele and rset reported is what quit does to the maildrop: while nothing
\* was given up the messages the server has marked are those the caller counts.
THEOREM Pop3MaildropAsTold == Spec => []MaildropAsTold
<1>1. ASSUME Pop3Inv PROVE MaildropAsTold
  BY <1>1, OutcomeIsEnough DEF Pop3Inv
<1>. QED
  BY <1>1, Pop3Invariant, PTL

\* Pop3Client::connect succeeds only on the channel its endpoint asked for, on
\* which the server agrees, and with a user only if the server let the user in.
THEOREM Pop3ConnectOkMeansLoggedIn == Spec => []ConnectOkMeansLoggedIn
<1>1. ASSUME Pop3Inv PROVE ConnectOkMeansLoggedIn
  BY <1>1, ConnectedIsEnough DEF Pop3Inv
<1>. QED
  BY <1>1, Pop3Invariant, PTL
-----------------------------------------------------------------------------
(* The client and the server keep the promise of Removal.                  *)

Shows == UNCHANGED <<store, told, arg, Quiet, Runs, Says, TextRead>>

LEMMA ShowsNothing == ASSUME Shows PROVE UNCHANGED Removals!vars
BY DEF Shows, Removals!vars

\* Calls of other methods, and what they return.
LEMMA Others ==
  ASSUME op \notin Simple, op' \notin Simple, op' # "none" \/ result'.of \notin Simple,
         arg' \in Nat, Quiet' => Quiet, UNCHANGED <<store, told>>
  PROVE  Removals!Otherwise
<1>1. Runs = "none" /\ Runs' = "none" /\ Says' = "none"
  BY DEF Runs, Says
<1>2. TextRead' = <<>>
  BY <1>1 DEF TextRead
<1>. QED
  BY <1>1, <1>2 DEF Removals!Otherwise

\* A method that comes back without a reply.
LEMMA ComesBackFailed ==
  ASSUME op \in Simple, op' = "none", result'.of = op, result'.kind # "reply", ~Quiet',
         UNCHANGED <<store, told, arg>>
  PROVE  Removals!Failed
<1>1. Runs = op /\ Runs' = "none" /\ Says' = "unknown" /\ op # "none"
  BY DEF Runs, Says, Simple
<1>2. TextRead' = <<>>
  BY <1>1 DEF TextRead
<1>. QED
  BY <1>1, <1>2 DEF Removals!Failed, Removals!Ends

\* A range says how long it is.
LEMMA SameRange == ASSUME NEW m \in Nat, NEW n \in Nat, 1..m = 1..n PROVE m = n
<1>1. m <= n
  <2>1. CASE m = 0
    BY <2>1
  <2>2. CASE m # 0
    <3>1. m \in 1..n
      BY <2>2
    <3>. QED
      BY <3>1
  <2>. QED
    BY <2>1, <2>2
<1>2. n <= m
  <2>1. CASE n = 0
    BY <2>1
  <2>2. CASE n # 0
    <3>1. n \in 1..m
      BY <2>2
    <3>. QED
      BY <3>1
  <2>. QED
    BY <2>1, <2>2
<1>. QED
  BY <1>1, <1>2

\* What is between a first and a last.
LEMMA Enclosed ==
  ASSUME NEW S, NEW body \in Seq(S), NEW a \in S, NEW b \in S
  PROVE  /\ Len(body) \in Nat /\ DOMAIN (<<a>> \o body \o <<b>>) = 1 .. Len(body) + 2
         /\ \A i \in 1..Len(body) : (<<a>> \o body \o <<b>>)[i + 1] = body[i]
         /\ body = [i \in 1..Len(body) |-> body[i]]
<1>1. /\ Len(body) \in Nat /\ Len(<<a>> \o body) = Len(body) + 1
      /\ \A i \in 1..Len(body) : (<<a>> \o body)[i + 1] = body[i]
  OBVIOUS
<1>2. <<a>> \o body \in Seq(S) /\ <<b>> \in Seq(S) /\ Len(<<b>>) = 1
  OBVIOUS
<1>3. body = [i \in 1..Len(body) |-> body[i]]
  OBVIOUS
<1>. DEFINE front == <<a>> \o body
<1>. HIDE DEF front
<1>4. /\ DOMAIN (front \o <<b>>) = 1 .. Len(front) + 1
      /\ \A i \in 1..Len(front) : (front \o <<b>>)[i] = front[i]
  BY <1>2 DEF front
<1>. QED
  BY <1>1, <1>3, <1>4 DEF front

\* Sequences over a set are sequences over a larger one.
LEMMA Wider == ASSUME NEW S, NEW T, S \subseteq T, NEW s \in Seq(S) PROVE s \in Seq(T)
<1>1. Len(s) \in Nat /\ DOMAIN s = 1..Len(s) /\ \A i \in 1..Len(s) : s[i] \in T
  OBVIOUS
<1>2. s = [i \in 1..Len(s) |-> s[i]]
  OBVIOUS
<1>3. [i \in 1..Len(s) |-> s[i]] \in Seq(T)
  BY <1>1
<1>. QED
  BY <1>2, <1>3

\* The reply has the codes of these lines.
ReadAs(r, codes) ==
  Len(r) \in Nat /\ DOMAIN r = 1..Len(r) /\ [i \in DOMAIN r |-> r[i].code] = codes

\* The text between the status and the dot.
LEMMA TextBetween ==
  ASSUME NEW body \in Messages, NEW r, ReadAs(r, <<Ok>> \o body \o <<Dot>>)
  PROVE  [i \in 1 .. Len(r) - 2 |-> r[i + 1].code] = body
<1>. DEFINE codes == <<Ok>> \o body \o <<Dot>>
            read  == [i \in DOMAIN r |-> r[i].code]
<1>1. body \in Seq({Ok, Err, Text, Dot}) /\ Ok \in {Ok, Err, Text, Dot} /\ Dot \in {Ok, Err, Text, Dot}
  BY Wider DEF Messages
<1>2. /\ Len(body) \in Nat /\ DOMAIN codes = 1 .. Len(body) + 2
      /\ \A i \in 1..Len(body) : codes[i + 1] = body[i]
      /\ body = [i \in 1..Len(body) |-> body[i]]
  BY <1>1, Enclosed
<1>3. DOMAIN read = 1..Len(r) /\ (\A i \in 1..Len(r) : read[i] = r[i].code) /\ Len(r) \in Nat
  BY DEF ReadAs
<1>4. read = codes
  BY DEF ReadAs
<1>. HIDE DEF codes, read
<1>5. Len(r) = Len(body) + 2
  <2>1. 1..Len(r) = 1 .. Len(body) + 2
    BY <1>2, <1>3, <1>4
  <2>. QED
    BY <1>2, <1>3, <2>1, SameRange
<1>6. \A i \in 1..Len(body) : r[i + 1].code = body[i]
  BY <1>2, <1>3, <1>4, <1>5
<1>7. 1 .. Len(r) - 2 = 1..Len(body)
  BY <1>2, <1>5
<1>. QED
  BY <1>2, <1>6, <1>7

\* The maildrop of the promise loses messages as the server's does.
LEMMA SameWithout == ASSUME NEW d, NEW g PROVE Removals!Without(d, g) = Without(d, g)
BY Zenon DEF Without, Removals!Without, Cardinality, Removals!Cardinality

\* A method that comes back with its reply.
LEMMA ComesBackAnswered ==
  ASSUME Pop3Inv, Pop3Inv', op \in Simple, reading, NEW chunk \in Chunks,
         ~Invalid(buffer \o chunk), Ends(buffer \o chunk) # {},
         Takes(chunk, ReplyIn(buffer \o chunk)), Return("reply", Head(reply').code),
         Tells, UNCHANGED serverVars
  PROVE  Removals!Retrieved \/ Removals!Deleted \/ Removals!BroughtBack \/ Removals!Done
         \/ Removals!Refused
<1>. DEFINE code == Head(reply').code
<1>1. /\ op' = "none" /\ result'.of = op /\ result'.kind = "reply" /\ result'.code = code
      /\ op # "none" /\ step = op /\ step # "greeting" /\ arg' = arg /\ result'.call # result.call
  <2>1. result'.call = calls /\ result.call < calls /\ calls \in Nat /\ result.call \in Nat
    BY DEF Return, Pop3Inv, Stepped, Simple, CInv, Types, Counts, Typed, Running
  <2>. QED
    BY <2>1 DEF Return, Pop3Inv, Stepped, Simple
<1>2. UNCHANGED <<chan, lost, store, srv>>
  BY DEF Takes, serverVars
<1>. DEFINE ok == code = Ok
<1>3. Runs = op /\ Runs' = "none" /\ Says' = IF ok THEN "ok" ELSE "refused"
  BY <1>1 DEF Runs, Says, Simple
<1>4. /\ told \in [drop : Seq(Messages), gone : SUBSET (1..MaxNumber), held : BOOLEAN]
      /\ told'.drop = told.drop /\ Quiet' = Quiet
      /\ told'.gone = IF ok /\ op = "dele" THEN told.gone \cup {arg}
                      ELSE IF ok /\ op = "rset" THEN {} ELSE told.gone
  <2>1. told \in [drop : Seq(Messages), gone : SUBSET (1..MaxNumber), held : BOOLEAN]
    BY DEF Pop3Inv, Typed, Serving, Stocked
  <2>2. result' # result
    BY <1>1
  <2>3. told' = [told EXCEPT !.gone = CASE ok /\ op = "dele" -> @ \cup {arg}
                                        [] ok /\ op = "rset" -> {} [] OTHER -> @]
    BY <1>1, <2>2 DEF Tells
  <2>4. told' = [told EXCEPT !.gone = IF ok /\ op = "dele" THEN @ \cup {arg}
                                      ELSE IF ok /\ op = "rset" THEN {} ELSE @]
    BY <2>3
  <2>5. told'.held = told.held
    BY <2>1, <2>4
  <2>6. Quiet' = Quiet
    BY <1>2, <2>5 DEF Quiet
  <2>. QED
    BY <2>1, <2>4, <2>6
<1>5. (~ok \/ op # "retr") => TextRead' = <<>>
  BY <1>1, <1>3 DEF TextRead
<1>6. ASSUME Quiet
      PROVE  Answered /\ code = Said /\ Said \in {Ok, Err}
             /\ Len(reply') \in Nat /\ DOMAIN reply' = 1..Len(reply')
  <2>1. Wired /\ Accounted /\ Calm /\ reply' = ReplyIn(buffer \o chunk)
    BY <1>6 DEF Pop3Inv, Takes, Quiet, Calm
  <2>. QED
    BY <1>1, <2>1, TakenReply
<1>7. CASE ok /\ op = "retr"
  <2>1. ASSUME Quiet PROVE arg \in DOMAIN told.drop \ told.gone /\ TextRead' = told.drop[arg]
    <3>1. arg \in DOMAIN told.drop \ told.gone
      BY <1>1, <1>6, <1>7, <2>1 DEF Answered, Meant
    <3>2. [i \in DOMAIN reply' |-> reply'[i].code] = <<Ok>> \o told'.drop[arg'] \o <<Dot>>
      BY <1>1, <1>2, <1>7, <2>1 DEF Pop3Inv, Outcome, RetrReturnsTheMessage, Quiet
    <3>3. told.drop[arg] \in Messages /\ told'.drop[arg'] = told.drop[arg]
      BY <1>1, <1>4, <3>1
    <3>4. TextRead' = [i \in 1 .. Len(reply') - 2 |-> reply'[i + 1].code]
      BY <1>1, <1>3, <1>7 DEF TextRead
    <3>5. ReadAs(reply', <<Ok>> \o told.drop[arg] \o <<Dot>>)
      BY <1>6, <2>1, <3>2, <3>3 DEF ReadAs
    <3>. QED
      BY <3>1, <3>3, <3>4, <3>5, TextBetween
  <2>2. Removals!Retrieved
    BY <1>1, <1>2, <1>3, <1>4, <1>7, <2>1 DEF Removals!Retrieved, Removals!Ends, Removals!Available
  <2>. QED
    BY <2>2
<1>8. CASE ok /\ op = "dele"
  <2>1. Quiet => arg \in DOMAIN told.drop \ told.gone
    BY <1>1, <1>6, <1>8 DEF Answered, Meant
  <2>2. Removals!Deleted
    BY <1>1, <1>2, <1>3, <1>4, <1>5, <1>8, <2>1
       DEF Removals!Deleted, Removals!Ends, Removals!Available
  <2>. QED
    BY <2>2
<1>9. CASE ok /\ op = "rset"
  BY <1>1, <1>2, <1>3, <1>4, <1>5, <1>9 DEF Removals!BroughtBack, Removals!Ends
<1>10. CASE ok /\ op = "quit"
  <2>1. Quiet => store = Without(told.drop, told.gone)
    BY <1>1, <1>6, <1>10 DEF Answered, Meant, Quiet
  <2>2. Quiet => store = Removals!Without(told.drop, told.gone)
    BY <2>1, SameWithout
  <2>. QED
    BY <1>1, <1>2, <1>3, <1>4, <1>5, <1>10, <2>2 DEF Removals!Done, Removals!Ends
<1>11. CASE ~ok
  <2>1. Quiet /\ op = "quit" => store = told.drop
    BY <1>1, <1>6, <1>11 DEF Answered, Meant, Quiet
  <2>. QED
    BY <1>1, <1>2, <1>3, <1>4, <1>5, <1>11, <2>1 DEF Removals!Refused, Removals!Ends
<1>. QED
  BY <1>7, <1>8, <1>9, <1>10, <1>11 DEF Simple

\* A session is opened when the user is let in.
LEMMA LogsInOpens == ASSUME Pop3Inv, ServerStep, told' # told PROVE Removals!Open
<1>1. CInv(Late) /\ Typed /\ Accounted /\ Stepped
  BY DEF Pop3Inv
<1>2. /\ store' = store /\ told' = Snapshot(TRUE) /\ ~srv.work.login
      /\ Calm => reading /\ step \in {"pass", "authPlain"}
  BY <1>1, LogsIn
<1>3. UNCHANGED <<chan, lost, op, arg, Runs, Says, TextRead>>
  BY DEF ServerStep, clientVars, callVars, histVars, Runs, Says, TextRead
<1>4. told'.drop = store /\ told'.gone = {}
  BY <1>2 DEF Snapshot
<1>5. ASSUME Quiet' PROVE ~Quiet /\ Runs = "none"
  <2>1. Calm /\ step \notin Simple
    BY <1>2, <1>3, <1>5 DEF Quiet, Calm, Simple
  <2>2. ~told.held
    BY <1>1, <1>2 DEF Typed, Serving, Stocked
  <2>. QED
    BY <1>1, <2>1, <2>2 DEF Stepped, Runs, Quiet
<1>. QED
  BY <1>2, <1>3, <1>4, <1>5 DEF Removals!Open

\* The server takes messages out of the maildrop for a quit, and those that
\* count as deleted, as long as nothing was given up.
LEMMA ServerRemoves ==
  ASSUME Pop3Inv, ServerStep
  PROVE  Removals!Open \/ Removals!Remove \/ UNCHANGED Removals!vars
<1>1. CASE told' # told
  BY <1>1, LogsInOpens
<1>2. ASSUME told' = told PROVE UNCHANGED <<told, arg, Quiet, Runs, Says, TextRead>>
  BY <1>2 DEF ServerStep, clientVars, callVars, histVars, Quiet, Runs, Says, TextRead
<1>3. CASE store' = store /\ told' = told
  BY <1>2, <1>3, ShowsNothing DEF Shows
<1>4. CASE store' # store /\ told' = told
  <2>1. Reads /\ Quits(Head(c2s), srv.work)
    BY <1>4 DEF ServerStep, Serves, Greets, Handles, HandlesPartial, JoinsPartials,
       AbortsHandshake, Crash, serverVars
  <2>2. /\ srv.open /\ c2s # <<>> /\ Head(c2s).verb = "quit"
        /\ store' = Without(store, srv.work.marked)
    BY <2>1 DEF Reads, Quits
  <2>3. srv.work.marked \subseteq DOMAIN store
    BY <2>2 DEF Pop3Inv, Typed, Serving, Minded, Stocked
  <2>4. ASSUME Quiet PROVE Runs = "quit" /\ srv.work.marked = told.gone /\ store = told.drop
    <3>1. Accounted /\ Stepped /\ Calm
      BY <2>4 DEF Pop3Inv, Quiet, Calm
    <3>2. reading /\ step # "greeting" /\ Pending
      BY <2>2, <3>1 DEF Accounted, Idle, Greeting, Answered
    <3>3. Head(c2s) = c2s[1]
      BY <3>2, Numbered DEF Pending
    <3>4. store = told.drop
      BY <2>2, <2>4 DEF Pop3Inv, Typed, Serving, Stocked, Quiet
    <3>. QED
      BY <2>2, <3>1, <3>2, <3>3, <3>4 DEF Pending, Stepped, Simple, Runs
  <2>5. store' = Removals!Without(store, srv.work.marked)
    BY <2>2, SameWithout
  <2>. QED
    BY <1>2, <1>4, <2>3, <2>4, <2>5 DEF Removals!Remove
<1>. QED
  BY <1>1, <1>3, <1>4

\* A quit given up long ago: whatever it takes, nothing is sure after it.
LEMMA LateRemoves == ASSUME Pop3Inv, QuitsLate PROVE Removals!Remove
<1>1. PICK q \in adrift : \E some \in SUBSET (q.marked \cap DOMAIN store) :
        store' = Without(store, some)
  BY DEF QuitsLate
<1>2. PICK some \in SUBSET DOMAIN store : store' = Removals!Without(store, some)
  BY <1>1, SameWithout
<1>3. told'.drop = told.drop /\ told'.gone = told.gone /\ told'.held = FALSE
  BY DEF QuitsLate, Pop3Inv, Typed, Serving, Stocked
<1>4. UNCHANGED <<arg, Runs, Says, TextRead>>
  BY DEF QuitsLate, clientVars, callVars, histVars, Runs, Says, TextRead
<1>5. ~Quiet'
  BY <1>3 DEF Quiet
<1>. QED
  BY <1>2, <1>3, <1>4, <1>5 DEF Removals!Remove

\* The client goes on with the method that runs, or the method comes back.
LEMMA ContinuesRemoval ==
  ASSUME Pop3Inv, Pop3Inv', Continues PROVE Removals!Next \/ UNCHANGED Removals!vars
<1>1. /\ Tells /\ UNCHANGED <<serverVars, store>> /\ op # "none" /\ lost \in Nat /\ arg' = arg
      /\ arg' \in Nat
  BY DEF Continues, serverVars, Unresolved, UpgradeFails, SendCommand, SendFails, SendRefused,
     Sends, RecvChunk, RecvTimeout, ClosedAtOtherEnd, RecvClosed, GiveUp, Keeps, Takes, Rejects,
     Proceed, Return, Pop3Inv, CInv, Placed, Types, Counts
<1>2. ASSUME result' = result \/ result'.kind # "reply" \/ op \notin {"dele", "rset"}
      PROVE told' = told
  <2>1. told' = [told EXCEPT !.gone = @]
    BY <1>1, <1>2 DEF Tells
  <2>. QED
    BY <2>1 DEF Pop3Inv, Typed, Serving, Stocked
<1>3. CASE Unresolved \/ UpgradeFails \/ SendFails(Verb, 0) \/ SendRefused \/ RecvTimeout
           \/ ClosedAtOtherEnd
  <2>1. op' = "none" /\ result'.kind # "reply" /\ result'.of = op
    <3>1. op' = "none" /\ result'.kind \notin {"ok", "reply"}
      BY <1>3, Fails
    <3>2. \E kind : Return(kind, 0)
      BY <1>3 DEF Unresolved, UpgradeFails, SendFails, SendRefused, RecvTimeout,
         ClosedAtOtherEnd, RecvClosed, GiveUp
    <3>. QED
      BY <3>1, <3>2 DEF Return
  <2>2. (Quiet' => Quiet) /\ (~Unresolved => ~Quiet')
    <3>1. CASE Unresolved \/ SendRefused
      BY <1>2, <2>1, <3>1 DEF Unresolved, SendRefused, histVars, Quiet
    <3>2. CASE ~(Unresolved \/ SendRefused)
      <4>1. lost' = lost + 1
        BY <1>3, <3>2 DEF UpgradeFails, SendFails, RecvTimeout, ClosedAtOtherEnd, RecvClosed,
           GiveUp
      <4>. QED
        BY <1>1, <3>2, <4>1 DEF Quiet
    <3>. QED
      BY <3>1, <3>2
  <2>3. Unresolved => op \notin Simple
    BY DEF Unresolved, Pop3Inv, CInv, Placed, Simple
  <2>4. CASE op \in Simple
    BY <1>1, <1>2, <2>1, <2>2, <2>3, <2>4, ComesBackFailed DEF Removals!Next
  <2>5. CASE op \notin Simple
    BY <1>1, <1>2, <2>1, <2>2, <2>5, Others DEF Removals!Next, Simple
  <2>. QED
    BY <2>4, <2>5
<1>4. ASSUME UNCHANGED <<chan, op, lost, reply, result>> PROVE UNCHANGED Removals!vars
  <2>1. UNCHANGED <<told, Quiet, Runs, Says, TextRead>>
    BY <1>2, <1>4 DEF Quiet, Runs, Says, TextRead
  <2>. QED
    BY <1>1, <2>1, ShowsNothing DEF Shows
<1>5. CASE SendCommand(Verb, 0)
  BY <1>4, <1>5 DEF SendCommand
<1>6. CASE RecvChunk
  <2>1. PICK chunk \in Chunks : LET data == buffer \o chunk IN
       \/ Keeps(chunk)
       \/ /\ ~Invalid(data) /\ Ends(data) # {} /\ Takes(chunk, ReplyIn(data))
          /\ LET code == Head(reply').code IN
             IF GoesOn(step, code) THEN Proceed(NextStep(step), code)
             ELSE Return(IF op = "connect" THEN "ServerError" ELSE "reply", code)
       \/ Rejects(chunk)
    BY <1>6 DEF RecvChunk
  <2>2. CASE Keeps(chunk)
    BY <1>4, <2>2 DEF Keeps, histVars
  <2>3. CASE Rejects(chunk)
    <3>1. op' = "none" /\ result'.kind # "reply" /\ result'.of = op /\ ~Quiet'
      BY <1>1, <2>3 DEF Rejects, GiveUp, Return, Quiet
    <3>2. CASE op \in Simple
      BY <1>1, <1>2, <3>1, <3>2, ComesBackFailed DEF Removals!Next
    <3>3. CASE op \notin Simple
      BY <1>1, <1>2, <3>1, <3>3, Others DEF Removals!Next, Simple
    <3>. QED
      BY <3>2, <3>3
  <2>4. CASE ~Keeps(chunk) /\ ~Rejects(chunk)
    <3>. DEFINE code == Head(reply').code
    <3>1. /\ ~Invalid(buffer \o chunk) /\ Ends(buffer \o chunk) # {}
          /\ Takes(chunk, ReplyIn(buffer \o chunk)) /\ reading
          /\ IF GoesOn(step, code) THEN Proceed(NextStep(step), code)
             ELSE Return(IF op = "connect" THEN "ServerError" ELSE "reply", code)
      BY <1>6, <2>1, <2>4 DEF RecvChunk
    <3>2. CASE op \in Simple
      <4>1. step = op /\ NextStep(step) = "done" /\ GoesOn(step, code) /\ op # "connect"
        BY <3>2, NextNotSimple DEF Pop3Inv, Stepped, GoesOn, Simple
      <4>2. Return("reply", code)
        BY <3>1, <4>1 DEF Proceed
      <4>. QED
        BY <1>1, <3>1, <3>2, <4>2, ComesBackAnswered DEF Removals!Next
    <3>3. CASE op \notin Simple
      <4>1. op' \in {op, "none"} /\ (op' # "none" \/ result'.of = op)
        BY <1>1, <3>1 DEF Proceed, Return
      <4>2. told' = told
        BY <1>2, <3>3 DEF Simple
      <4>3. Quiet' = Quiet
        BY <3>1, <4>2 DEF Takes, Quiet
      <4>. QED
        BY <1>1, <3>3, <4>1, <4>2, <4>3, Others DEF Removals!Next, Simple
    <3>. QED
      BY <3>2, <3>3
  <2>. QED
    BY <2>1, <2>2, <2>3, <2>4
<1>. QED
  BY <1>3, <1>5, <1>6 DEF Continues

LEMMA NextRemoval ==
  ASSUME Pop3Inv, Pop3Inv', [Next]_vars PROVE Removals!Next \/ UNCHANGED Removals!vars
<1>1. arg \in Nat /\ arg' \in Nat /\ lost \in Nat
  BY DEF Pop3Inv, CInv, Types, Counts
<1>2. CASE Dials
  <2>1. /\ op = "connect" /\ op' = "connect" /\ arg' = arg /\ store' = store
        /\ told' = Snapshot(FALSE)
    BY <1>2 DEF Dials, DialsTo, DialSucceeds, Proceed, NextStep, Pop3Inv, CInv, Placed
  <2>2. Runs = "none" /\ Runs' = "none" /\ Says = "none" /\ Says' = "none"
    BY <2>1 DEF Runs, Says, Simple
  <2>3. TextRead = <<>> /\ TextRead' = <<>>
    BY <2>2 DEF TextRead
  <2>4. told'.drop = store /\ told'.gone = {} /\ ~Quiet'
    BY <2>1 DEF Snapshot, Quiet
  <2>. QED
    BY <2>1, <2>2, <2>3, <2>4 DEF Removals!Next, Removals!Open
<1>3. CASE Upgrades
  <2>1. op \notin Simple /\ op' \in {op, "none"} /\ (op' # "none" \/ result'.of = op) /\ op # "none"
        /\ UNCHANGED <<lost, store, told>> /\ chan = "Plain"
    BY <1>3 DEF Upgrades, UpgradesTo, UpgradeSucceeds, Proceed, Return, histVars, Simple,
       Pop3Inv, CInv, Placed, Stepped
  <2>. QED
    BY <1>1, <2>1, Others DEF Removals!Next, Quiet, Simple
<1>4. CASE DialFailed /\ UNCHANGED told
  <2>1. op = "connect" /\ op' = "none" /\ result'.of = op /\ store' = store /\ chan' = "Closed"
    BY <1>4 DEF DialFailed, DialFails, Return, Pop3Inv, CInv, Placed
  <2>. QED
    BY <1>1, <1>4, <2>1, Others DEF Removals!Next, Quiet, Simple
<1>5. CASE Closes /\ UNCHANGED told
  <2>1. op = "close" /\ op' = "none" /\ result'.of = op /\ store' = store /\ chan' = "Closed"
    BY <1>5 DEF Closes, CloseEnds, Return, Pop3Inv, CInv, Placed
  <2>. QED
    BY <1>1, <1>5, <2>1, Others DEF Removals!Next, Quiet, Simple
<1>6. CASE Continues
  BY <1>6, ContinuesRemoval
<1>7. CASE RecvFails /\ UNCHANGED <<serverVars, told>>
  <2>1. /\ op # "none" /\ op' = "none" /\ result'.of = op /\ result'.kind # "reply" /\ arg' = arg
        /\ lost' = lost + 1 /\ store' = store
    BY <1>7 DEF RecvFails, GiveUp, Return, serverVars, Pop3Inv, CInv, Placed
  <2>2. ~Quiet'
    BY <1>1, <2>1 DEF Quiet
  <2>3. CASE op \in Simple
    BY <1>7, <2>1, <2>2, <2>3, ComesBackFailed DEF Removals!Next
  <2>4. CASE op \notin Simple
    BY <1>1, <1>7, <2>1, <2>2, <2>4, Others DEF Removals!Next, Simple
  <2>. QED
    BY <2>3, <2>4
<1>8. CASE /\ \/ \E m \in Methods : Call(m)
              \/ \E e \in Endpoints : Connect(e) \/ ConnectWrongScheme(e)
              \/ Close
           /\ UNCHANGED <<serverVars, told>>
  <2>1. op = "none" /\ UNCHANGED <<chan, lost, store, told>> /\ Quiet' = Quiet
    BY <1>8 DEF Call, Connect, ConnectTo, Close, Begin, ConnectWrongScheme, RefuseScheme, Answers,
       serverVars, Quiet
  <2>2. CASE op' \in Simple
    <3>1. Runs = "none" /\ Runs' \in {"retr", "dele", "rset", "quit"} /\ Says' = "none"
      BY <2>1, <2>2 DEF Runs, Says, Simple
    <3>2. TextRead' = <<>>
      BY <3>1 DEF TextRead
    <3>. QED
      BY <1>1, <2>1, <3>1, <3>2 DEF Removals!Next, Removals!Begin
  <2>3. CASE op' \notin Simple
    <3>1. op' # "none" \/ result'.of = "connect"
      BY <1>8, Pop3Assumption DEF Pop3Assumption, AllMethods, Call, Connect, ConnectTo, Close,
         Begin, ConnectWrongScheme, RefuseScheme, Answers
    <3>. QED
      BY <1>1, <2>1, <2>3, <3>1, Others DEF Removals!Next, Simple
  <2>. QED
    BY <2>2, <2>3
<1>9. CASE ServerStep
  BY <1>9, ServerRemoves DEF Removals!Next
<1>10. CASE UNCHANGED vars
  <2>1. Shows
    BY <1>10 DEF vars, mailVars, clientVars, callVars, histVars, serverVars, Shows, Quiet, Runs,
       Says, TextRead
  <2>. QED
    BY <2>1, ShowsNothing
<1>11. CASE QuitsLate
  BY <1>11, LateRemoves DEF Removals!Next
<1>. QED
  BY <1>2, <1>3, <1>4, <1>5, <1>6, <1>7, <1>8, <1>9, <1>10, <1>11 DEF Next, Departs, ClientStep

LEMMA InitRemoval == ASSUME Init PROVE Removals!Init
<1>1. Runs = "none" /\ Says = "none" /\ ~Quiet /\ Quiet \in BOOLEAN /\ arg = 0
  BY DEF Init, SessionInit, ClientInit, Runs, Says, Simple, Quiet
<1>2. TextRead = <<>>
  BY <1>1 DEF TextRead
<1>3. told.drop = store /\ told.gone = {}
  BY DEF Init, Snapshot
<1>. QED
  BY <1>1, <1>2, <1>3 DEF Removals!Init

\* Pop3Client and any server keep the promise of Removal, for any maildrop and
\* any number of calls and sessions: messages leave the maildrop at once, while
\* a quit runs, and are those the caller was told; retr and dele succeed only
\* for messages that are not deleted, and the answer of quit is true.  A QUIT
\* given up, which a server the client has left may read after a reconnect,
\* removes messages before the new session has its numbers or ends what is
\* sure of it.
THEOREM Pop3ImplementsRemoval == Spec => ImplementsRemoval
<1>1. ASSUME Init PROVE Removals!Init
  BY <1>1, InitRemoval
<1>2. ASSUME Pop3Inv, Pop3Inv', [Next]_vars PROVE [Removals!Next]_(Removals!vars)
  BY <1>2, NextRemoval
<1>. QED
  BY <1>1, <1>2, Pop3Invariant, PTL DEF Spec, ImplementsRemoval, Removals!Spec
=============================================================================
