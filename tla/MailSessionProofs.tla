------------------------- MODULE MailSessionProofs -------------------------
(***************************************************************************)
(* What the two clients have in common about connections and credentials,  *)
(* proved one action of MailClient at a time for any set of endpoints and  *)
(* any number of calls.  SmtpSessionProofs and Pop3SessionProofs put the   *)
(* actions together.                                                       *)
(***************************************************************************)
EXTENDS MailSession, FiniteSetsExt, WellFoundedInduction, TLAPS

\* The methods and the steps of both clients.
Names ==
  {"none", "done", "connect", "dial", "close", "greeting", "upgrade", "ehlo", "helo", "hello",
   "pre_tls_ehlo", "post_tls_ehlo", "startTls", "authPlain", "authLogin", "authLoginUsername",
   "authLoginPassword", "mailFrom", "rcptTo", "data", "dataBody", "sendMail", "quit",
   "capa", "stls", "userPass", "user", "pass", "stat", "list", "retr", "dele", "noop", "rset"}

Commands ==
  [no : Nat, verb : Names, call : Nat, by : Names, arg : Nat, turn : Nat,
   enc : BOOLEAN, lost : Nat, whole : BOOLEAN]

Counts ==
  /\ op \in Names /\ step \in Names /\ reading \in BOOLEAN
  /\ arg \in Nat /\ turn \in Nat /\ calls \in Nat /\ cmds \in Nat /\ lost \in Nat

Types == Counts /\ c2s \in Seq(Commands)

\* Where connect stands: it is connected to the endpoint it was called with,
\* and the steps of "late" come only after encryption if that was asked for.
Placed(late) ==
  /\ op = "none" => step = "done" /\ ~reading
  /\ step = "dial" => op = "connect"
  /\ step = "close" => op = "close"
  /\ reading => step \notin {"dial", "close", "upgrade"}
  /\ op = "connect" =>
       /\ endpoint \in Endpoints
       /\ step # "dial" =>
            /\ peer = endpoint
            /\ endpoint.security = "Tls" => chan = "Tls"
            /\ endpoint.security = "StartTls" /\ step \in late => chan = "Tls"

Safe(c, p) ==
  c.by = "connect" /\ c.verb \in {"authPlain", "user", "pass"} /\ p.security # "Plain" => c.enc
AllSafe == \A i \in DOMAIN c2s : Safe(c2s[i], peer)

CInv(late) == Types /\ Placed(late) /\ AllSafe
-----------------------------------------------------------------------------
\* A step the client may go on to: not a dial or a close, and to one of "late"
\* only over the channel that was asked for.
Fits(next, late) ==
  /\ next \in Names /\ next \notin {"dial", "close"}
  /\ op = "connect" /\ endpoint.security = "StartTls" /\ next \in late => chan' = "Tls"

\* What is left of a sequence without its first one or two elements.
LEMMA TailKeeps ==
  ASSUME NEW S, NEW s \in Seq(S), s # <<>>
  PROVE  Tail(s) \in Seq(S) /\ Len(Tail(s)) = Len(s) - 1
         /\ \A i \in 1..Len(Tail(s)) : Tail(s)[i] = s[i + 1]
OBVIOUS

LEMMA NotEmpty == ASSUME NEW S, NEW s \in Seq(S), Len(s) > 0 PROVE s # <<>>
OBVIOUS

LEMMA TailTailKeeps ==
  ASSUME NEW S, NEW s \in Seq(S), Len(s) > 1
  PROVE  Tail(Tail(s)) \in Seq(S) /\ Len(Tail(Tail(s))) = Len(s) - 2
         /\ \A i \in 1..Len(Tail(Tail(s))) : Tail(Tail(s))[i] = s[i + 2]
<1>1. Tail(s) \in Seq(S) /\ Len(Tail(s)) = Len(s) - 1
      /\ \A i \in 1..Len(Tail(s)) : Tail(s)[i] = s[i + 1]
  BY TailKeeps
<1>2. Len(Tail(s)) > 0
  BY <1>1
<1>3. Tail(s) # <<>>
  BY <1>1, <1>2, NotEmpty
<1>. QED
  BY <1>1, <1>3, TailKeeps

\* The server takes commands from the front of c2s and no others.
LEMMA TakenSafely ==
  ASSUME AllSafe, peer' = peer, NEW k \in Nat, c2s \in Seq(Commands), c2s' \in Seq(Commands),
         Len(c2s') = Len(c2s) - k, \A i \in 1..Len(c2s') : c2s'[i] = c2s[i + k]
  PROVE  AllSafe'
<1>1. SUFFICES ASSUME NEW i \in DOMAIN c2s' PROVE Safe(c2s'[i], peer')
  BY DEF AllSafe
<1>2. i + k \in DOMAIN c2s /\ c2s'[i] = c2s[i + k]
  OBVIOUS
<1>. QED
  BY <1>2 DEF AllSafe

LEMMA TakesCommands ==
  ASSUME AllSafe, peer' = peer, c2s \in Seq(Commands),
         \/ c2s' = c2s
         \/ c2s # <<>> /\ c2s' = Tail(c2s)
         \/ Len(c2s) > 1 /\ c2s' = Tail(Tail(c2s))
  PROVE  c2s' \in Seq(Commands) /\ AllSafe'
<1>1. CASE c2s' = c2s
  BY <1>1 DEF AllSafe
<1>2. CASE c2s # <<>> /\ c2s' = Tail(c2s)
  BY <1>2, TailKeeps, TakenSafely
<1>3. CASE Len(c2s) > 1 /\ c2s' = Tail(Tail(c2s))
  BY <1>3, TailTailKeeps, TakenSafely
<1>. QED
  BY <1>1, <1>2, <1>3

LEMMA SomeNames ==
  /\ "none" \in Names /\ "done" \in Names /\ "connect" \in Names /\ "dial" \in Names
  /\ "close" \in Names
BY DEF Names

LEMMA InitCInv == ASSUME NEW late, ClientInit, c2s = <<>> PROVE CInv(late)
<1>1. Types
  <2>1. Counts
    BY SomeNames DEF ClientInit, Counts
  <2>. QED
    BY <2>1 DEF Types
<1>2. Placed(late)
  BY DEF ClientInit, Placed
<1>3. AllSafe
  BY DEF AllSafe
<1>. QED
  BY <1>1, <1>2, <1>3 DEF CInv

\* A call begins; connect begins with the dial.
LEMMA BeginCInv ==
  ASSUME NEW late, CInv(late), NEW m \in Names, NEW n \in Nat, NEW first \in Names,
         Begin(m, n, first), m # "none", m = "connect" <=> first = "dial",
         m = "close" <=> first = "close",
         m = "connect" => endpoint' \in Endpoints
  PROVE  CInv(late)'
<1>1. Types'
  <2>1. Counts'
    BY DEF CInv, Types, Counts, Begin
  <2>2. c2s' = c2s
    BY DEF Begin, wire
  <2>. QED
    BY <2>1, <2>2 DEF CInv, Types
<1>2. Placed(late)'
  BY DEF CInv, Placed, Begin
<1>3. AllSafe'
  <2>1. c2s' = c2s /\ peer' = peer
    BY DEF Begin, wire
  <2>. QED
    BY <2>1 DEF CInv, AllSafe
<1>. QED
  BY <1>1, <1>2, <1>3 DEF CInv

\* A call that returns without a step.
LEMMA AnswersCInv ==
  ASSUME NEW late, CInv(late), NEW m, NEW kind, Answers(m, kind),
         c2s' \in Seq(Commands), AllSafe'
  PROVE  CInv(late)'
<1>1. Types'
  <2>1. Counts'
    BY DEF CInv, Types, Counts, Answers, callVars
  <2>. QED
    BY <2>1 DEF Types
<1>2. Placed(late)'
  BY DEF CInv, Placed, Answers, callVars
<1>. QED
  BY <1>1, <1>2 DEF CInv

\* A call returns; nothing happened to the connection or it was closed.
LEMMA ReturnCInv ==
  ASSUME NEW late, CInv(late), NEW kind, NEW code, Return(kind, code),
         UNCHANGED <<calls, peer, cmds>>, lost' \in {lost, lost + 1},
         c2s' \in Seq(Commands), AllSafe'
  PROVE  CInv(late)'
<1>1. Types'
  <2>1. op' \in Names /\ step' \in Names /\ reading' \in BOOLEAN /\ arg' = arg /\ turn' = turn
    BY SomeNames DEF Return
  <2>2. lost' \in Nat
    BY DEF CInv, Types, Counts
  <2>3. Counts'
    BY <2>1, <2>2 DEF CInv, Types, Counts
  <2>. QED
    BY <2>3 DEF Types
<1>2. Placed(late)'
  BY DEF Placed, Return
<1>3. AllSafe'
  OBVIOUS
<1>. QED
  BY <1>1, <1>2, <1>3 DEF CInv

\* The method goes on over the connection it has.
LEMMA ProceedCInv ==
  ASSUME NEW late, CInv(late), NEW next, NEW code, Proceed(next, code), Fits(next, late),
         op # "none", step # "dial", endpoint' = endpoint,
         chan' = chan \/ chan' = "Tls", UNCHANGED <<calls, peer, cmds, lost, c2s>>
  PROVE  CInv(late)'
BY SomeNames DEF CInv, Types, Counts, Placed, AllSafe, Safe, Proceed, Return, Fits

LEMMA DialCInv ==
  ASSUME NEW late, CInv(late), NEW next, DialSucceeds(next), Fits(next, late), op = "connect"
  PROVE  CInv(late)'
<1>1. Types'
  <2>1. Counts'
    BY SomeNames DEF CInv, Types, Counts, Proceed, Return, Fits, DialSucceeds
  <2>2. c2s' \in Seq(Commands)
    BY DEF DialSucceeds
  <2>. QED
    BY <2>1, <2>2 DEF Types
<1>2. Placed(late)'
  BY ClientAssumption DEF CInv, Placed, Proceed, Return, Fits, DialSucceeds, ClientAssumption
<1>3. AllSafe'
  BY DEF AllSafe, DialSucceeds
<1>. QED
  BY <1>1, <1>2, <1>3 DEF CInv

\* A command is sent, or the beginning of one: the credentials are safe
\* because they are sent in the steps of "late".
LEMMA SendsSafely ==
  ASSUME NEW late, CInv(late), Sends, NEW verb \in Names, NEW t \in Nat, NEW whole \in BOOLEAN,
         op = "connect" /\ verb \in {"authPlain", "user", "pass"} => step \in late
  PROVE  Command(verb, t, whole) \in Commands /\ Safe(Command(verb, t, whole), peer)
<1>1. Command(verb, t, whole) \in Commands
  BY DEF CInv, Types, Counts, Command, Commands
<1>2. Safe(Command(verb, t, whole), peer)
  BY ClientAssumption DEF CInv, Placed, Sends, Command, Safe, ClientAssumption
<1>. QED
  BY <1>1, <1>2

LEMMA AppendSafe ==
  ASSUME NEW c \in Commands, Safe(c, peer), c2s \in Seq(Commands), AllSafe,
         c2s' = Append(c2s, c), peer' = peer
  PROVE  c2s' \in Seq(Commands) /\ AllSafe'
<1>1. c2s' \in Seq(Commands) /\ Len(c2s') = Len(c2s) + 1
  OBVIOUS
<1>2. \A i \in 1..Len(c2s') : c2s'[i] = IF i = Len(c2s') THEN c ELSE c2s[i]
  OBVIOUS
<1>3. \A i \in 1..Len(c2s') : Safe(c2s'[i], peer)
  BY <1>1, <1>2 DEF AllSafe
<1>. QED
  BY <1>1, <1>3 DEF AllSafe

\* A command goes out, whole or only its beginning.
LEMMA SendCommandCInv ==
  ASSUME NEW late, CInv(late), NEW verb \in Names, NEW t \in Nat, SendCommand(verb, t),
         op = "connect" /\ verb \in {"authPlain", "user", "pass"} => step \in late
  PROVE  CInv(late)'
<1>1. c2s' \in Seq(Commands) /\ AllSafe'
  <2>1. Command(verb, t, TRUE) \in Commands /\ Safe(Command(verb, t, TRUE), peer)
    BY SendsSafely DEF SendCommand
  <2>. QED
    BY <2>1, AppendSafe DEF SendCommand, CInv, Types
<1>2. Types'
  <2>1. Counts'
    BY DEF CInv, Types, Counts, SendCommand
  <2>. QED
    BY <1>1, <2>1 DEF Types
<1>3. Placed(late)'
  BY DEF CInv, Placed, SendCommand, Sends
<1>. QED
  BY <1>1, <1>2, <1>3 DEF CInv

LEMMA SendFailsCInv ==
  ASSUME NEW late, CInv(late), NEW verb \in Names, NEW t \in Nat, SendFails(verb, t),
         op = "connect" /\ verb \in {"authPlain", "user", "pass"} => step \in late
  PROVE  CInv(late)'
<1>1. c2s' \in Seq(Commands) /\ AllSafe'
  <2>1. peer' = peer
    BY DEF SendFails, GiveUp
  <2>2. CASE c2s' = c2s
    BY <2>1, <2>2 DEF CInv, Types, AllSafe
  <2>3. CASE c2s' = Append(c2s, Command(verb, t, FALSE))
    <3>1. Command(verb, t, FALSE) \in Commands /\ Safe(Command(verb, t, FALSE), peer)
      BY SendsSafely DEF SendFails
    <3>. QED
      BY <2>1, <2>3, <3>1, AppendSafe DEF CInv, Types
  <2>. QED
    BY <2>2, <2>3 DEF SendFails
<1>. QED
  BY <1>1, ReturnCInv DEF SendFails, GiveUp

\* The reply arrives in part, or the read is given up.
LEMMA KeepsCInv ==
  ASSUME NEW late, CInv(late), NEW chunk, Keeps(chunk) PROVE CInv(late)'
<1>1. Types'
  <2>1. Counts'
    BY DEF CInv, Types, Counts, Keeps, histVars
  <2>. QED
    BY <2>1 DEF CInv, Types, Keeps
<1>2. Placed(late)'
  BY DEF CInv, Placed, Keeps, histVars
<1>3. AllSafe'
  BY DEF CInv, AllSafe, Keeps, histVars
<1>. QED
  BY <1>1, <1>2, <1>3 DEF CInv

LEMMA GiveUpCInv ==
  ASSUME NEW late, CInv(late), NEW kind, GiveUp(kind), c2s' = c2s
  PROVE  CInv(late)'
<1>1. peer' = peer /\ lost' \in {lost, lost + 1}
  BY DEF GiveUp
<1>2. c2s' \in Seq(Commands) /\ AllSafe'
  BY <1>1 DEF CInv, Types, AllSafe
<1>. QED
  BY <1>1, <1>2, ReturnCInv DEF GiveUp

\* The connection ends with the dial or with close.
LEMMA NothingInFlight ==
  ASSUME c2s' = <<>> PROVE c2s' \in Seq(Commands) /\ AllSafe'
BY DEF AllSafe

\* The server takes a step.
LEMMA ServerCInv ==
  ASSUME NEW late, CInv(late), UNCHANGED clientVars,
         \/ c2s' = c2s
         \/ c2s # <<>> /\ c2s' = Tail(c2s)
         \/ Len(c2s) > 1 /\ c2s' = Tail(Tail(c2s))
  PROVE  CInv(late)'
<1>1. c2s' \in Seq(Commands) /\ AllSafe'
  <2>1. peer' = peer
    BY DEF clientVars, histVars
  <2>. QED
    BY <2>1, TakesCommands DEF CInv, Types
<1>2. Types'
  <2>1. Counts'
    BY DEF CInv, Types, Counts, clientVars, callVars, histVars
  <2>. QED
    BY <1>1, <2>1 DEF Types
<1>3. Placed(late)'
  BY DEF CInv, Placed, clientVars, callVars, histVars
<1>. QED
  BY <1>1, <1>2, <1>3 DEF CInv
-----------------------------------------------------------------------------
\* The conjuncts of the properties from the invariant.
LEMMA CInvIsEnough == ASSUME NEW late, CInv(late) PROVE CredentialsEncrypted
BY DEF CInv, AllSafe, Safe, CredentialsEncrypted, InFlight, Types

\* The endpoint and the connection part only when a dial returns with
\* InvalidHost: nothing else ends a dial on an open connection, and nothing
\* else replaces one of the two.
LEMMA PartsAtDial ==
  ASSUME ~Misplaced, Misplaced',
         \/ UNCHANGED <<endpoint, peer>> /\ (chan' # "Closed" => chan # "Closed")
              /\ (step = "dial" => step' = "dial" \/ result'.kind = "InvalidHost")
         \/ step' = "dial"
         \/ endpoint' = peer'
         \/ chan' = "Closed"
  PROVE  result'.kind = "InvalidHost"
BY DEF Misplaced
-----------------------------------------------------------------------------
(* The reply stream.  While the channel is encrypted so is the server's    *)
(* side, and everything unread was written after the handshake.            *)

Lines == [re : Nat, code : Nat, last : BOOLEAN, enc : BOOLEAN]
Parts == [line : Lines, crlf : BOOLEAN]

AllEnc(s) == \A i \in DOMAIN s : s[i].line.enc

Wired ==
  /\ buffer \in Seq(Parts) /\ s2c \in Seq(Parts)
  /\ ~reading => buffer = <<>>
  /\ DOMAIN srv = {"open", "greeted", "tls", "work"}
  /\ chan = "Tls" => srv.tls = "on" /\ AllEnc(buffer) /\ AllEnc(s2c)

LEMMA NothingUnread == <<>> \in Seq(Parts) /\ AllEnc(<<>>)
BY DEF AllEnc

LEMMA PieceOfStream ==
  ASSUME NEW s \in Seq(Parts), NEW m \in 1..(Len(s) + 1), NEW n \in 0..Len(s), m <= n + 1
  PROVE  SubSeq(s, m, n) \in Seq(Parts) /\ (AllEnc(s) => AllEnc(SubSeq(s, m, n)))
<1>1. SubSeq(s, m, n) \in Seq(Parts) /\ Len(SubSeq(s, m, n)) = n - m + 1
      /\ \A i \in 1..(n - m + 1) : SubSeq(s, m, n)[i] = s[m + i - 1]
  OBVIOUS
<1>2. ASSUME AllEnc(s), NEW i \in DOMAIN SubSeq(s, m, n) PROVE SubSeq(s, m, n)[i].line.enc
  <2>1. i \in 1..(n - m + 1) /\ m + i - 1 \in DOMAIN s
    BY <1>1
  <2>. QED
    BY <1>1, <1>2, <2>1 DEF AllEnc
<1>. QED
  BY <1>1, <1>2 DEF AllEnc

LEMMA JoinedStream ==
  ASSUME NEW s \in Seq(Parts), NEW t \in Seq(Parts)
  PROVE  s \o t \in Seq(Parts) /\ (AllEnc(s) /\ AllEnc(t) => AllEnc(s \o t))
<1>1. s \o t \in Seq(Parts) /\ Len(s \o t) = Len(s) + Len(t)
      /\ \A i \in 1..(Len(s) + Len(t)) :
           (s \o t)[i] = IF i <= Len(s) THEN s[i] ELSE t[i - Len(s)]
  OBVIOUS
<1>2. ASSUME AllEnc(s), AllEnc(t), NEW i \in DOMAIN (s \o t) PROVE (s \o t)[i].line.enc
  <2>1. i \in 1..(Len(s) + Len(t))
    BY <1>1
  <2>2. CASE i <= Len(s)
    BY <1>1, <1>2, <2>1, <2>2 DEF AllEnc
  <2>3. CASE i > Len(s)
    <3>1. i - Len(s) \in DOMAIN t /\ (s \o t)[i] = t[i - Len(s)]
      BY <1>1, <2>1, <2>3
    <3>. QED
      BY <1>2, <3>1 DEF AllEnc
  <2>. QED
    BY <2>1, <2>2, <2>3
<1>. QED
  BY <1>1, <1>2 DEF AllEnc

\* What a recv returns and what it leaves.
LEMMA ChunkOfStream ==
  ASSUME s2c \in Seq(Parts), NEW chunk \in Chunks
  PROVE  /\ chunk \in Seq(Parts) /\ After(chunk) \in Seq(Parts)
         /\ AllEnc(s2c) => AllEnc(chunk) /\ AllEnc(After(chunk))
<1>1. PICK n \in 1..Len(s2c) : chunk = SubSeq(s2c, 1, n)
  BY DEF Chunks
<1>2. Len(chunk) = n
  BY <1>1
<1>. QED
  BY <1>1, <1>2, PieceOfStream DEF After

\* What a server writes: lines in clear or encrypted as it stands.
LEMMA WrittenStream ==
  ASSUME Wired, NEW lines \in Seq(Lines), Writes(lines),
         \A i \in DOMAIN lines : lines[i].enc = (srv.tls = "on")
  PROVE  s2c' \in Seq(Parts) /\ (srv.tls = "on" /\ AllEnc(s2c) => AllEnc(s2c'))
<1>1. \A i \in 1 .. 2 * Len(lines) : (i + 1) \div 2 \in DOMAIN lines
  OBVIOUS
<1>2. Pieces(lines) \in Seq(Parts) /\ Len(Pieces(lines)) = 2 * Len(lines)
  BY <1>1 DEF Pieces, Parts
<1>3. srv.tls = "on" => AllEnc(Pieces(lines))
  BY <1>1, <1>2 DEF AllEnc, Pieces
<1>. QED
  BY <1>2, <1>3, JoinedStream DEF Writes, Wired

\* The client goes on with its buffer empty, or leaves it as it is.
LEMMA EmptiedWired ==
  ASSUME Wired, UNCHANGED <<chan, srv>>, buffer' = <<>>,
         s2c' \in Seq(Parts), AllEnc(s2c) => AllEnc(s2c')
  PROVE  Wired'
BY NothingUnread DEF Wired

LEMMA UnchangedWired ==
  ASSUME Wired, UNCHANGED <<chan, srv, buffer, s2c>>, reading => reading'
  PROVE  Wired'
BY DEF Wired, AllEnc

LEMMA KeepsWired ==
  ASSUME Wired, reading, NEW chunk \in Chunks, Keeps(chunk), srv' = srv
  PROVE  Wired'
<1>1. buffer' \in Seq(Parts) /\ s2c' \in Seq(Parts)
      /\ (AllEnc(buffer) /\ AllEnc(s2c) => AllEnc(buffer') /\ AllEnc(s2c'))
  BY ChunkOfStream, JoinedStream DEF Wired, Keeps
<1>2. reading' /\ chan' = chan
  BY DEF Keeps
<1>. QED
  BY <1>1, <1>2 DEF Wired

\* A connection begins, ends or is encrypted.
LEMMA DialWired ==
  ASSUME NEW next, NEW work, DialsTo(next, work), next # "done" PROVE Wired'
<1>1. buffer' = <<>> /\ s2c' = <<>>
  BY DEF DialsTo, DialSucceeds, Proceed
<1>2. DOMAIN srv' = {"open", "greeted", "tls", "work"} /\ (chan' = "Tls" => srv'.tls = "on")
  BY DEF DialsTo, DialSucceeds, Fresh
<1>. QED
  BY <1>1, <1>2, NothingUnread DEF Wired

LEMMA GoneWired ==
  ASSUME Wired, srv' = Gone(srv), chan' = "Closed", s2c' = <<>>,
         buffer' = <<>> \/ (buffer' = buffer /\ reading' = reading)
  PROVE  Wired'
<1>1. DOMAIN srv' = {"open", "greeted", "tls", "work"}
  BY DEF Gone, Wired
<1>2. CASE buffer' = <<>>
  BY <1>1, <1>2, NothingUnread DEF Wired
<1>3. CASE buffer' = buffer /\ reading' = reading
  BY <1>1, <1>3, NothingUnread DEF Wired
<1>. QED
  BY <1>2, <1>3

LEMMA UpgradeWired ==
  ASSUME Wired, NEW next, NEW work, UpgradesTo(next, work) PROVE Wired'
<1>1. buffer' = <<>> /\ s2c' = <<>>
  BY DEF UpgradesTo, UpgradeSucceeds, Proceed, Return, wire
<1>2. DOMAIN srv' = {"open", "greeted", "tls", "work"} /\ srv'.tls = "on"
  BY DEF UpgradesTo, Secured, Wired
<1>. QED
  BY <1>1, <1>2, NothingUnread DEF Wired

\* The server takes a step.
LEMMA ServerWired ==
  ASSUME Wired, UNCHANGED clientVars, DOMAIN srv' = DOMAIN srv,
         srv.tls = "on" => srv'.tls = "on",
         s2c' \in Seq(Parts), srv.tls = "on" /\ AllEnc(s2c) => AllEnc(s2c')
  PROVE  Wired'
<1>1. chan' = chan /\ buffer' = buffer /\ reading' = reading
  BY DEF clientVars, callVars
<1>. QED
  BY <1>1 DEF Wired, AllEnc

LEMMA WiredIsEnough == ASSUME Wired PROVE NoClearReplyUnderTls
<1>. SUFFICES ASSUME chan = "Tls" PROVE \A p \in Readable : p.line.enc
  BY DEF NoClearReplyUnderTls
<1>1. AllEnc(buffer \o s2c)
  BY JoinedStream DEF Wired
<1>. QED
  BY <1>1 DEF Readable, AllEnc
-----------------------------------------------------------------------------
(* What the client has not read.                                           *)

Unread == buffer \o s2c

LEMMA UnreadType == ASSUME Wired PROVE Unread \in Seq(Parts) /\ Len(Unread) = Len(buffer) + Len(s2c)
BY DEF Wired, Unread

LEMMA KeptUnread ==
  ASSUME Wired, NEW chunk \in Chunks, Keeps(chunk)
  PROVE  Unread' = Unread
<1>1. PICK n \in 1..Len(s2c) : chunk = SubSeq(s2c, 1, n)
  BY DEF Chunks
<1>2. s2c = chunk \o After(chunk)
  BY <1>1 DEF After, Wired
<1>3. chunk \in Seq(Parts) /\ After(chunk) \in Seq(Parts)
  BY ChunkOfStream DEF Wired
<1>4. (buffer \o chunk) \o After(chunk) = buffer \o (chunk \o After(chunk))
  BY <1>3 DEF Wired
<1>. QED
  BY <1>2, <1>4 DEF Keeps, Unread

LEMMA Concatenated ==
  ASSUME NEW S, NEW s \in Seq(S), NEW t \in Seq(S)
  PROVE  /\ s \o t \in Seq(S) /\ Len(s \o t) = Len(s) + Len(t)
         /\ \A i \in 1..Len(s) : (s \o t)[i] = s[i]
         /\ \A i \in 1..Len(t) : (s \o t)[Len(s) + i] = t[i]
OBVIOUS

\* What is unread after the server has written lines.
LEMMA WrittenUnread ==
  ASSUME Wired, NEW lines \in Seq(Lines), Writes(lines), buffer' = buffer
  PROVE  /\ Unread' \in Seq(Parts) /\ Len(Unread') = Len(Unread) + 2 * Len(lines)
         /\ \A i \in 1..Len(Unread) : Unread'[i] = Unread[i]
         /\ \A i \in 1..(2 * Len(lines)) :
              Unread'[Len(Unread) + i] = [line |-> lines[(i + 1) \div 2], crlf |-> i % 2 = 0]
<1>. DEFINE p == Pieces(lines)
<1>1. \A i \in 1 .. 2 * Len(lines) : (i + 1) \div 2 \in DOMAIN lines
  OBVIOUS
<1>2. p \in Seq(Parts) /\ Len(p) = 2 * Len(lines)
      /\ \A i \in 1 .. 2 * Len(lines) :
           p[i] = [line |-> lines[(i + 1) \div 2], crlf |-> i % 2 = 0]
  BY <1>1 DEF Pieces, Parts
<1>. HIDE DEF p
<1>3. Unread' = Unread \o p
  <2>1. s2c' = s2c \o p
    BY DEF Writes, p
  <2>2. buffer \o (s2c \o p) = (buffer \o s2c) \o p
    BY <1>2 DEF Wired
  <2>. QED
    BY <2>1, <2>2 DEF Unread
<1>4. Unread \in Seq(Parts)
  BY UnreadType
<1>5. Unread' \in Seq(Parts) /\ Len(Unread') = Len(Unread) + Len(p)
      /\ (\A i \in 1..Len(Unread) : Unread'[i] = Unread[i])
      /\ \A i \in 1..Len(p) : Unread'[Len(Unread) + i] = p[i]
  <2>0. p \in Seq(Parts)
    BY <1>2
  <2>1. Unread \o p \in Seq(Parts) /\ Len(Unread \o p) = Len(Unread) + Len(p)
        /\ (\A i \in 1..Len(Unread) : (Unread \o p)[i] = Unread[i])
        /\ \A i \in 1..Len(p) : (Unread \o p)[Len(Unread) + i] = p[i]
    BY <2>0, <1>4, Concatenated
  <2>. QED
    BY <1>3, <2>1
<1>. QED
  BY <1>2, <1>5

LEMMA SmallestIn ==
  ASSUME NEW S, S \subseteq Nat, S # {}
  PROVE  Min(S) \in S /\ \A y \in S : Min(S) <= y
<1>. DEFINE less == OpToRel(<, Nat)
<1>1. IsWellFoundedOn(less, Nat)
  BY NatLessThanWellFounded
<1>2. \E x \in S : \A y \in S : <<y, x>> \notin less
  <2>. HIDE DEF less
  <2>. QED
    BY <1>1, WFMin
<1>3. \A x, y \in Nat : <<y, x>> \in less <=> y < x
  BY DEF OpToRel
<1>4. PICK x \in S : \A y \in S : <<y, x>> \notin less
  BY <1>2
<1>5. \A y \in S : x <= y
  <2>. HIDE DEF less
  <2>1. SUFFICES ASSUME NEW y \in S PROVE x <= y
    OBVIOUS
  <2>2. x \in Nat /\ y \in Nat /\ ~(y < x)
    BY <1>3, <1>4
  <2>. QED
    BY <2>2
<1>. QED
  BY <1>5 DEF Min

\* Commands in flight have the numbers they were sent with.
Sequenced == \A i \in DOMAIN c2s : c2s[i].no \in 1..(cmds + 1)

LEMMA SentSequenced ==
  ASSUME NEW late, CInv(late), Sequenced, NEW c, c.no = cmds + 1, c2s' \in {c2s, Append(c2s, c)},
         cmds' \in {cmds, cmds + 1}
  PROVE  Sequenced'
<1>1. c2s \in Seq(Commands) /\ cmds \in Nat
  BY DEF CInv, Types, Counts
<1>2. ASSUME NEW i \in DOMAIN c2s' PROVE c2s'[i].no \in 1..(cmds + 1)
  <2>1. (i \in DOMAIN c2s /\ c2s'[i] = c2s[i]) \/ c2s'[i] = c
    BY <1>1
  <2>. QED
    BY <1>1, <2>1 DEF Sequenced
<1>. QED
  BY <1>1, <1>2 DEF Sequenced

LEMMA StillSequenced ==
  ASSUME NEW late, CInv(late), Sequenced, UNCHANGED <<c2s, cmds>> PROVE Sequenced'
BY DEF Sequenced
\* Commands are taken from the front.
LEMMA TakenFromFront ==
  ASSUME c2s \in Seq(Commands),
         \/ c2s' = c2s
         \/ c2s # <<>> /\ c2s' = Tail(c2s)
         \/ Len(c2s) > 1 /\ c2s' = Tail(Tail(c2s))
  PROVE  \E k \in 0..2 : \A i \in DOMAIN c2s' :
           i + k \in DOMAIN c2s /\ c2s'[i] = c2s[i + k] /\ i \in Nat
<1>1. CASE c2s' = c2s
  <2>1. \A i \in DOMAIN c2s' : i + 0 \in DOMAIN c2s /\ c2s'[i] = c2s[i + 0] /\ i \in Nat
    BY <1>1
  <2>. QED
    BY <2>1
<1>2. CASE c2s # <<>> /\ c2s' = Tail(c2s)
  <2>1. c2s' \in Seq(Commands) /\ Len(c2s') = Len(c2s) - 1
        /\ \A i \in 1..Len(c2s') : c2s'[i] = c2s[i + 1]
    BY <1>2, TailKeeps
  <2>2. \A i \in DOMAIN c2s' : i + 1 \in DOMAIN c2s /\ c2s'[i] = c2s[i + 1] /\ i \in Nat
    BY <2>1
  <2>. QED
    BY <2>2
<1>3. CASE Len(c2s) > 1 /\ c2s' = Tail(Tail(c2s))
  <2>1. c2s' \in Seq(Commands) /\ Len(c2s') = Len(c2s) - 2
        /\ \A i \in 1..Len(c2s') : c2s'[i] = c2s[i + 2]
    BY <1>3, TailTailKeeps
  <2>2. \A i \in DOMAIN c2s' : i + 2 \in DOMAIN c2s /\ c2s'[i] = c2s[i + 2] /\ i \in Nat
    BY <2>1
  <2>. QED
    BY <2>2
<1>. QED
  BY <1>1, <1>2, <1>3

\* Where the methods and their loops stand, and what they were called with.
Running(most) ==
  /\ chan \in {"Closed", "Plain", "Tls"}
  /\ op \in Methods \cup {"none", "connect", "close"}
  /\ arg \in 0..most /\ turn \in 0..arg
  /\ calls \in 0..MaxCalls /\ result.call \in Nat /\ result.call <= calls
  /\ endpoint \in Endpoints \cup {NoEndpoint} /\ peer \in Endpoints \cup {NoEndpoint}

\* Whether there is a TLS socket.
Socketed == ssl \in BOOLEAN

LEMMA DialsSocketed == ASSUME NEW next, DialSucceeds(next) PROVE Socketed'
BY DEF DialSucceeds, Socketed

LEMMA DialFailedSocketed == ASSUME DialFails PROVE Socketed'
BY DEF DialFails, Socketed

\* A call that goes on or returns.
LEMMA GoesOnRuns ==
  ASSUME NEW late, CInv(late), NEW most, Running(most), NEW next, NEW kind, NEW code,
         Proceed(next, code) \/ Return(kind, code),
         chan' \in {"Closed", "Plain", "Tls"}, UNCHANGED <<endpoint, calls>>,
         peer' \in {peer, endpoint}
  PROVE  Running(most)'
<1>1. calls \in Nat
  BY DEF CInv, Types, Counts
<1>2. /\ op' \in {op, "none"} /\ UNCHANGED <<arg, turn>>
      /\ result' = result \/ result'.call = calls
  BY DEF Proceed, Return
<1>. QED
  BY <1>1, <1>2 DEF Running
=============================================================================
