--------------------------- MODULE SmtpReplyProofs ---------------------------
(***************************************************************************)
(* While nothing was given up on a connection, the reply that was read is  *)
(* the reply to the last command, whole and alone: what Lagging says       *)
(* of the numbers of unread lines leaves them no room for another.  So     *)
(* sendMail tells the truth about its message, implements Submission, and  *)
(* delivers the envelope of its own call.                                  *)
(***************************************************************************)
EXTENDS SmtpSessionProofs, SequenceTheorems

\* The reply that was read last, and the command it answers.
Owned ==
  chan # "Closed" /\ lost = 0 /\ reply # <<>> /\ LastCode # 421 =>
    \A i \in DOMAIN reply :
      reply[i].re = Awaited - 1 /\ (reply[i].last <=> i = Len(reply))
-----------------------------------------------------------------------------
\* The lines of a reply in a buffer are every second piece of it.
LEMMA LinesOfReplyIn ==
  ASSUME NEW data \in Seq(Parts), Complete(data)
  PROVE  \E m \in Nat :
           /\ m >= 1 /\ 2 * m \in 1..Len(data)
           /\ ReplyIn(data) \in Seq(Lines) /\ Len(ReplyIn(data)) = m
           /\ \A i \in 1..m : ReplyIn(data)[i] = data[2 * i].line
           /\ data[2 * m].line.last /\ data[2 * m].line.code = data[2].line.code
           /\ ~data[1].crlf
<1>. DEFINE m == Min(Stops(data))
<1>1. Len(data) \in Nat
  OBVIOUS
<1>2. m \in Stops(data) /\ m \in 1..(Len(data) \div 2)
  <2>1. Stops(data) \subseteq 1..(Len(data) \div 2)
    BY DEF Stops, FullLines
  <2>2. Stops(data) \subseteq Nat
    BY <2>1
  <2>3. Stops(data) # {}
    BY DEF Complete
  <2>. QED
    BY <2>1, <2>2, <2>3, SmallestIn
<1>3. /\ FullLines(data) \in Seq(Lines) /\ Len(FullLines(data)) = Len(data) \div 2
      /\ \A i \in 1..(Len(data) \div 2) : FullLines(data)[i] = data[2 * i].line
  <2>1. \A i \in 1..(Len(data) \div 2) : 2 * i \in 1..Len(data)
    BY <1>1
  <2>2. \A i \in 1..(Len(data) \div 2) : data[2 * i].line \in Lines
    BY <2>1, LineOfPart
  <2>. QED
    BY <1>1, <2>2 DEF FullLines
<1>4. ReplyIn(data) = SubSeq(FullLines(data), 1, m)
  BY DEF ReplyIn
<1>5. data[2 * m].line.last /\ data[2 * m].line.code = data[2].line.code
  <2>1. FullLines(data)[m] = data[2 * m].line
    <3>. HIDE DEF m
    <3>. QED
      BY <1>2, <1>3
  <2>. QED
    BY <2>1 DEF Complete
<1>. HIDE DEF m
<1>6. m \in Nat /\ m >= 1 /\ 2 * m \in 1..Len(data)
  BY <1>1, <1>2
<1>7. /\ ReplyIn(data) \in Seq(Lines) /\ Len(ReplyIn(data)) = m
      /\ \A i \in 1..m : ReplyIn(data)[i] = FullLines(data)[i] /\ i \in 1..(Len(data) \div 2)
  BY <1>1, <1>2, <1>3, <1>4
<1>8. \A i \in 1..m : ReplyIn(data)[i] = data[2 * i].line
  BY <1>3, <1>7
<1>9. ~data[1].crlf
  <2>1. data # <<>>
    BY <1>6
  <2>. QED
    BY <2>1 DEF Complete, StartsInside
<1>. QED
  BY <1>5, <1>6, <1>7, <1>8, <1>9

\* What is unread begins with the buffer and the chunk that arrived.
LEMMA BeginsUnread ==
  ASSUME Wired, NEW chunk \in Chunks
  PROVE  /\ buffer \o chunk \in Seq(Parts) /\ Len(buffer \o chunk) \in 0..Len(Unread)
         /\ \A i \in 1..Len(buffer \o chunk) : Unread[i] = (buffer \o chunk)[i]
<1>. DEFINE data == buffer \o chunk
<1>1. chunk \in Seq(Parts) /\ After(chunk) \in Seq(Parts) /\ data \in Seq(Parts)
  BY ChunkOfStream DEF Wired
<1>2. Unread = data \o After(chunk)
  <2>1. PICK n \in 1..Len(s2c) : chunk = SubSeq(s2c, 1, n)
    BY DEF Chunks
  <2>2. s2c = chunk \o After(chunk)
    BY <2>1 DEF After, Wired
  <2>3. (buffer \o chunk) \o After(chunk) = buffer \o (chunk \o After(chunk))
    BY <1>1 DEF Wired
  <2>. QED
    BY <2>2, <2>3 DEF Unread
<1>. HIDE DEF data
<1>3. /\ Len(Unread) = Len(data) + Len(After(chunk))
      /\ \A i \in 1..Len(data) : Unread[i] = data[i]
  BY <1>1, <1>2, Concatenated
<1>4. Len(data) \in 0..Len(Unread)
  BY <1>1, <1>3
<1>. QED
  BY <1>1, <1>3, <1>4 DEF data

LEMMA TakesOwn ==
  ASSUME CInv(Late), Wired, Lagging, reading, NEW chunk \in Chunks,
         Complete(buffer \o chunk), Takes(chunk, ReplyIn(buffer \o chunk)), ~reading'
  PROVE  Owned'
<1>. DEFINE data == buffer \o chunk
<1>1. data \in Seq(Parts) /\ Len(data) \in 0..Len(Unread)
      /\ \A i \in 1..Len(data) : Unread[i] = data[i]
  BY BeginsUnread
<1>2. /\ UNCHANGED <<chan, cmds, lost>> /\ reply' = ReplyIn(data)
      /\ Awaited = cmds /\ Awaited' = cmds + 1
  BY DEF Takes, Awaited
<1>3. Complete(data)
  OBVIOUS
<1>. HIDE DEF data
<1>4. PICK m \in Nat :
        /\ m >= 1 /\ 2 * m \in 1..Len(data)
        /\ ReplyIn(data) \in Seq(Lines) /\ Len(ReplyIn(data)) = m
        /\ \A i \in 1..m : ReplyIn(data)[i] = data[2 * i].line
        /\ data[2 * m].line.last /\ data[2 * m].line.code = data[2].line.code
        /\ ~data[1].crlf
  BY <1>1, <1>3, LinesOfReplyIn
<1>5. /\ Unread \in Seq(Parts) /\ Len(Unread) \in Nat
      /\ \A i \in 1..m : 2 * i \in 1..Len(Unread) /\ 2 * i \in 1..Len(data)
  <2>1. Unread \in Seq(Parts)
    BY UnreadType
  <2>2. Len(Unread) \in Nat /\ Len(data) \in Nat
    BY <1>1, <2>1
  <2>3. \A i \in 1..m : 2 * i \in 1..Len(Unread) /\ 2 * i \in 1..Len(data)
    BY <1>1, <1>4, <2>2
  <2>. QED
    BY <2>1, <2>2, <2>3
<1>6. \A i \in 1..m : Unread[2 * i].crlf
  <2>1. PICK b \in 0..1 : \A i \in 1..Len(Unread) : Unread[i].crlf <=> (i + b) % 2 = 0
    BY DEF Lagging, Alternates
  <2>2. 1 \in 1..Len(data) /\ 1 \in 1..Len(Unread)
    BY <1>1, <1>4, <1>5
  <2>3. ~((1 + b) % 2 = 0)
    BY <1>1, <1>4, <2>1, <2>2
  <2>4. b = 0
    BY <2>3
  <2>5. \A i \in 1..m : (2 * i + b) % 2 = 0
    BY <2>4
  <2>. QED
    BY <1>5, <2>1, <2>5
<1>7. \A i \in 1..m : reply'[i] = Unread[2 * i].line
  BY <1>1, <1>2, <1>4, <1>5
<1>8. reply' # <<>> /\ Head(reply').code = Unread[2 * m].line.code /\ DOMAIN reply' = 1..m
      /\ Len(reply') = m /\ Unread[2 * m].line.last
  <2>1. 1 \in 1..m /\ m \in 1..m
    BY <1>4
  <2>2. reply' # <<>> /\ Head(reply') = reply'[1] /\ DOMAIN reply' = 1..m /\ Len(reply') = m
    BY <1>2, <1>4
  <2>3. reply'[1] = data[2 * 1].line /\ 2 * 1 = 2
    BY <1>2, <1>4, <2>1
  <2>4. Unread[2 * m] = data[2 * m]
    BY <1>1, <1>4
  <2>. QED
    BY <1>4, <2>2, <2>3, <2>4
<1>9. SUFFICES ASSUME lost = 0, LastCode' # 421, NEW i \in 1..m
               PROVE  reply'[i].re = Awaited' - 1 /\ (reply'[i].last <=> i = m)
  BY <1>2, <1>8 DEF Owned
<1>10. Asked(Unread[2 * m])
  BY <1>8, <1>9 DEF Asked, LastCode
<1>11. m \in 1..m /\ \A j \in 1..m : j # m => 2 * j < 2 * m
  BY <1>4
<1>12. ASSUME NEW j \in 1..m PROVE Asked(Unread[2 * j]) /\ Unread[2 * j].line.re = cmds
  <2>1. 2 * j \in 1..Len(Unread) /\ 2 * m \in 1..Len(Unread)
    BY <1>5, <1>11
  <2>2. Asked(Unread[2 * j])
    BY <1>10, <1>11, <2>1 DEF Lagging, Ordered
  <2>3. Unread[2 * j].line.re <= cmds /\ Near(Unread[2 * j].line.re) /\ Unread[2 * j].line.re \in Nat
    BY <1>5, <2>1, <2>2, NumberOfPart DEF Lagging, Bounded
  <2>4. cmds \in Nat /\ Unread[2 * j].line.re >= cmds
    BY <1>2, <1>9, <2>3, Numbers DEF Near
  <2>. QED
    BY <2>2, <2>3, <2>4
<1>13. ASSUME i # m PROVE ~Unread[2 * i].line.last
  <2>1. 2 * i \in 1..Len(Unread) /\ 2 * m \in 1..Len(Unread) /\ 2 * i < 2 * m
    BY <1>5, <1>11, <1>13
  <2>2. Unread[2 * i].line.last => Unread[2 * i].line.re < Unread[2 * m].line.re
    BY <1>6, <1>10, <2>1 DEF Lagging, Ordered
  <2>3. Unread[2 * i].line.re = cmds /\ Unread[2 * m].line.re = cmds /\ cmds \in Nat
    BY <1>11, <1>12, Numbers
  <2>. QED
    BY <2>2, <2>3
<1>14. Unread[2 * i].line.re = cmds /\ cmds \in Nat
  BY <1>12, Numbers
<1>15. reply'[i].last <=> i = m
  BY <1>7, <1>8, <1>13
<1>16. reply'[i].re = Awaited' - 1
  BY <1>2, <1>7, <1>14
<1>. QED
  BY <1>15, <1>16
-----------------------------------------------------------------------------
\* A step that reads no reply and gives something up or sends nothing new.
LEMMA SameOwn ==
  ASSUME CInv(Late), Owned, reply' = reply, chan' # "Closed" => chan # "Closed",
         lost' = lost + 1 \/ (lost' = lost /\ Awaited' = Awaited)
  PROVE  Owned'
<1>1. lost \in Nat /\ LastCode' = LastCode
  BY Numbers DEF LastCode
<1>2. CASE lost' = lost + 1
  <2>1. lost' # 0
    BY <1>1, <1>2
  <2>. QED
    BY <2>1 DEF Owned
<1>3. CASE lost' = lost /\ Awaited' = Awaited
  BY <1>1, <1>3 DEF Owned
<1>. QED
  BY <1>2, <1>3

LEMMA GiveUpOwn ==
  ASSUME CInv(Late), Owned, chan' = chan, NEW kind, GiveUp(kind) PROVE Owned'
<1>1. reply' = reply /\ lost' = lost + 1
  BY DEF GiveUp
<1>. QED
  BY <1>1, SameOwn

LEMMA ContinuesOwn ==
  ASSUME CInv(Late), Wired, Lagging, Owned, Continues PROVE Owned'
<1>1. CASE Unresolved \/ SendRefused
  <2>1. ~reading
    BY <1>1 DEF Unresolved, SendRefused, Sends, CInv, Placed
  <2>2. UNCHANGED <<reply, chan, lost, cmds>> /\ ~reading'
    BY <1>1 DEF Unresolved, SendRefused, Return, histVars
  <2>. QED
    BY <2>1, <2>2, SameOwn DEF Awaited
<1>2. CASE UpgradeFails \/ SendFails(Verb, Turn) \/ RecvTimeout \/ ClosedAtOtherEnd
  BY <1>2, GiveUpOwn DEF UpgradeFails, SendFails, RecvTimeout, ClosedAtOtherEnd, RecvClosed
<1>3. CASE SendCommand(Verb, Turn)
  <2>1. UNCHANGED <<reply, chan, lost>> /\ cmds' = cmds + 1 /\ reading' /\ ~reading
    BY <1>3 DEF SendCommand, Sends
  <2>. QED
    BY <2>1, SameOwn DEF Awaited
<1>4. CASE RecvChunk
  <2>1. PICK chunk \in Chunks :
          \/ Keeps(chunk)
          \/ /\ Complete(buffer \o chunk) /\ Takes(chunk, ReplyIn(buffer \o chunk))
             /\ \/ \E code : Proceed(NextStep(step), code)
                \/ \E kind, code : Return(kind, code)
          \/ Rejects(chunk)
    BY <1>4 DEF RecvChunk
  <2>2. CASE Keeps(chunk)
    <3>1. UNCHANGED <<reply, chan, lost, cmds, reading>>
      BY <2>2 DEF Keeps, histVars
    <3>. QED
      BY <3>1, SameOwn DEF Awaited
  <2>3. CASE Rejects(chunk)
    BY <2>3, GiveUpOwn DEF Rejects
  <2>4. CASE /\ Complete(buffer \o chunk) /\ Takes(chunk, ReplyIn(buffer \o chunk))
             /\ \/ \E code : Proceed(NextStep(step), code)
                \/ \E kind, code : Return(kind, code)
    <3>1. reading /\ step # "dial"
      BY <1>4 DEF RecvChunk, CInv, Placed
    <3>2. ~reading'
      BY <2>4, <3>1, NotTheGreeting DEF Proceed, Return
    <3>. QED
      BY <2>4, <3>1, <3>2, TakesOwn
  <2>. QED
    BY <2>1, <2>2, <2>3, <2>4
<1>. QED
  BY <1>1, <1>2, <1>3, <1>4 DEF Continues

LEMMA NextOwn ==
  ASSUME CInv(Late), Wired, Lagging, Owned, [Next]_vars PROVE Owned'
<1>1. CASE Dials
  <2>1. reply' = <<>>
    BY <1>1 DEF Dials, DialsTo, DialSucceeds
  <2>. QED
    BY <2>1 DEF Owned
<1>2. CASE DialFailed \/ Closes
  <2>1. chan' = "Closed"
    BY <1>2 DEF DialFailed, DialFails, Closes, CloseEnds
  <2>. QED
    BY <2>1 DEF Owned
<1>3. CASE Upgrades
  <2>1. UNCHANGED <<reply, cmds, lost>> /\ chan = "Plain" /\ ~reading /\ ~reading'
    BY <1>3 DEF Upgrades, UpgradesTo, UpgradeSucceeds, Proceed, Return, NextStep, AfterDial,
       AfterGreeting, RcptsLeft, histVars, CInv, Placed
  <2>. QED
    BY <2>1, SameOwn DEF Awaited
<1>4. CASE ClientStep
  <2>1. CASE RecvFails
    BY <2>1, GiveUpOwn DEF RecvFails
  <2>2. CASE \/ \E m \in Methods : Call(m)
             \/ \E e \in Endpoints : Connect(e) \/ ConnectWrongScheme(e)
             \/ Close
    <3>1. UNCHANGED <<reply, chan, cmds, lost, reading>>
      BY <2>2 DEF Call, Close, Connect, ConnectTo, Begin, ConnectWrongScheme, RefuseScheme, Answers, callVars
    <3>. QED
      BY <3>1, SameOwn DEF Awaited
  <2>. QED
    BY <1>4, <2>1, <2>2, ContinuesOwn DEF ClientStep
<1>5. CASE ServerStep \/ TakesLate \/ UNCHANGED vars
  <2>1. UNCHANGED <<reply, chan, cmds, lost, reading>>
    BY <1>5 DEF ServerStep, TakesLate, vars, mailVars, clientVars, callVars, histVars
  <2>. QED
    BY <2>1, SameOwn DEF Awaited
<1>. QED
  BY <1>1, <1>2, <1>3, <1>4, <1>5 DEF Next, Departs

LEMMA OwnedIsEnough == ASSUME CInv(Late), Lagging, Owned PROVE OwnWholeReply
<1>. SUFFICES ASSUME chan # "Closed", lost = 0, reply # <<>>, LastCode # 421
              PROVE  /\ \A i \in DOMAIN reply : reply[i].re = IF reading THEN cmds - 1 ELSE cmds
                     /\ \A i \in DOMAIN reply : reply[i].last <=> i = Len(reply)
  BY DEF OwnWholeReply
<1>1. cmds \in Nat /\ Awaited - 1 = (IF reading THEN cmds - 1 ELSE cmds)
  BY Numbers DEF Awaited
<1>. QED
  BY <1>1 DEF Owned

\* While nothing was given up on the connection, the reply just read is the
\* reply to the last command from its first line to its last, for replies of
\* any length cut into chunks in any way.
THEOREM SmtpOwnWholeReply == Spec => []OwnWholeReply
<1>1. CInv(Late) /\ Wired /\ Bodied /\ Lagging /\ Owned /\ [Next]_vars =>
        CInv(Late)' /\ Wired' /\ Bodied' /\ Lagging' /\ Owned'
  BY NextSmtp, NextWired, NextBodied, NextLag, NextOwn
<1>2. Init => CInv(Late) /\ Wired /\ Bodied /\ Lagging /\ Owned
  <2>1. Init => Owned
    BY DEF Init, SessionInit, ClientInit, Owned
  <2>. QED
    BY <2>1, InitSmtp, InitWired, InitBodied, InitLag
<1>3. CInv(Late) /\ Lagging /\ Owned => OwnWholeReply
  BY OwnedIsEnough
<1>. QED
  BY <1>1, <1>2, <1>3, PTL DEF Spec
-----------------------------------------------------------------------------
(* What sendMail says of its message.                                      *)

Taken(n) == \E d \in store : d.body = n

\* The body of call n is where the server can still read it.
Out(n) ==
  srv.open /\ \E i \in DOMAIN c2s :
    c2s[i].whole /\ c2s[i].verb = "dataBody" /\ c2s[i].call = n

NoSuccess(s) == \A i \in 1..Len(s) : s[i].line.code \notin 200..299

Numbered ==
  /\ \A d \in store : d.body \in Nat /\ d.body <= calls
  /\ \A i \in DOMAIN c2s : c2s[i].call <= calls

\* Before the body of the call is sent nobody can have taken it.
Composing ==
  op = "sendMail" =>
    /\ step \in {"mailFrom", "rcptTo", "data", "dataBody"}
    /\ ~(step = "dataBody" /\ reading) => ~Taken(calls) /\ ~Out(calls)

\* The reply to data or to the body: the server has not decided, or refused ...
Undecided ==
  /\ ~Taken(calls) /\ NoSuccess(Unread)
  /\ srv.open => srv.greeted /\ \A i \in DOMAIN c2s :
       c2s[i].whole => c2s[i].verb = step /\ c2s[i].call = calls
\* ... or it has the message, and says so next.
Granted ==
  /\ step = "dataBody" /\ Taken(calls)
  /\ srv.open => Len(Unread) >= 2 /\ \A i \in DOMAIN c2s : ~c2s[i].whole
  /\ \A i \in 1..Len(Unread) : i <= 2 => Unread[i].line.code \in {0, 250}
Asking ==
  op = "sendMail" /\ reading /\ step \in {"data", "dataBody"} /\ lost = 0 =>
    Undecided \/ Granted

Told ==
  op = "none" /\ result.of = "sendMail" /\ result.kind = "reply" /\ lost = 0 =>
    (result.code \in 200..299 <=> Taken(result.call)) /\ ~Out(result.call)

Honest == Numbered /\ Composing /\ Asking /\ Told

\* The mails adrift are of earlier calls, one of each, and older than every
\* command on the connection; what sendMail returned is of the last call.
Strays ==
  /\ \A m \in adrift : m.body \in Nat /\ m.body < calls
  /\ \A m \in adrift : \A i \in DOMAIN c2s : m.body < c2s[i].call
  /\ \A m, n \in adrift : m.body = n.body => m = n
  /\ step \in {"dial", "close"} => \A i \in DOMAIN c2s : c2s[i].call < calls
  /\ op = "none" /\ result.of = "sendMail" => result.call = calls
-----------------------------------------------------------------------------
\* A step after which no sendMail runs and none has just returned a reply.
LEMMA OtherHonest ==
  ASSUME Numbered', op' # "sendMail",
         op' = "none" => result'.of # "sendMail" \/ result'.kind # "reply"
  PROVE  Honest'
BY DEF Honest, Composing, Asking, Told

LEMMA NumberedKept ==
  ASSUME CInv(Late), Numbered, store' = store, calls' \in {calls, calls + 1},
         c2s' = c2s \/ c2s' = <<>>
  PROVE  Numbered'
<1>1. calls \in Nat /\ c2s \in Seq(Commands)
  BY DEF CInv, Types, Counts
<1>2. \A i \in DOMAIN c2s : c2s[i].call \in Nat
  <2>1. \A i \in DOMAIN c2s : c2s[i] \in Commands
    BY <1>1
  <2>. QED
    BY <2>1 DEF Commands
<1>3. \A x \in Nat : x <= calls => x <= calls'
  BY <1>1
<1>. QED
  BY <1>2, <1>3 DEF Numbered

LEMMA NumberedSent ==
  ASSUME CInv(Late), Numbered, UNCHANGED <<store, calls>>,
         NEW c, c.call = calls, c2s' \in {c2s, Append(c2s, c)}
  PROVE  Numbered'
<1>1. calls \in Nat /\ c2s \in Seq(Commands)
  BY DEF CInv, Types, Counts
<1>2. ASSUME NEW i \in DOMAIN c2s' PROVE c2s'[i].call <= calls
  BY <1>1, <1>2 DEF Numbered
<1>. QED
  BY <1>2 DEF Numbered

\* A step that leaves the call, the connection and the messages alone.
LEMMA SameHonest ==
  ASSUME Honest, UNCHANGED <<op, step, reading, result, calls, lost, c2s, srv, store>>,
         Unread' = Unread
  PROVE  Honest'
BY DEF Honest, Numbered, Composing, Asking, Told, Undecided, Granted, Taken, Out, NoSuccess

-----------------------------------------------------------------------------
\* While nothing was given up, one command at a time is on its way, and then
\* no reply is; between two commands neither is.
LEMMA AloneOnWire ==
  ASSUME CInv(Late), Wired, Lagging, srv.open, lost = 0, NEW i \in DOMAIN c2s, c2s[i].whole
  PROVE  /\ reading /\ srv.greeted /\ Unread = <<>> /\ c2s[i].no = cmds
         /\ \A j \in DOMAIN c2s : c2s[j].whole => j = i
<1>1. Queued /\ cmds \in Nat /\ c2s \in Seq(Commands) /\ Unread \in Seq(Parts)
  BY Numbers, UnreadType DEF Lagging, CInv, Types
<1>2. ASSUME NEW j \in DOMAIN c2s, c2s[j].whole PROVE reading /\ c2s[j].no = cmds /\ cmds >= 1
  <2>1. c2s[j].no \in 1..cmds /\ c2s[j].no + 0 >= Awaited
    BY <1>1, <1>2 DEF Queued, Near
  <2>2. reading
    BY <1>1, <2>1 DEF Awaited
  <2>. QED
    BY <1>1, <2>1, <2>2 DEF Awaited
<1>3. reading /\ c2s[i].no = cmds /\ cmds >= 1
  BY <1>2
<1>4. ASSUME NEW j \in DOMAIN c2s, c2s[j].whole PROVE j = i
  <2>1. c2s[j].no = cmds
    BY <1>2, <1>4
  <2>2. i \in 1..Len(c2s) /\ j \in 1..Len(c2s)
    BY <1>1
  <2>3. j < i => c2s[j].no < c2s[i].no
    BY <1>1, <1>4, <2>2 DEF Queued
  <2>4. i < j => c2s[i].no < c2s[j].no
    BY <1>1, <1>4, <2>2 DEF Queued
  <2>. QED
    BY <1>1, <1>3, <2>1, <2>2, <2>3, <2>4
<1>5. Unread = <<>>
  <2>1. ASSUME NEW k \in 1..Len(Unread) PROVE FALSE
    <3>1. Asked(Unread[k]) /\ Unread[k].line.re < c2s[i].no
      BY <1>1 DEF Queued
    <3>2. Unread[k].line.re \in Nat /\ Unread[k].line.re + 0 >= cmds
      BY <1>1, <1>3, <3>1, NumberOfPart DEF Lagging, Bounded, Near, Awaited
    <3>. QED
      BY <1>1, <1>3, <3>1, <3>2
  <2>2. Len(Unread) \in Nat /\ (Len(Unread) = 0 => Unread = <<>>)
    BY <1>1
  <2>. QED
    BY <2>1, <2>2
<1>6. srv.greeted
  BY <1>1, <1>3 DEF Queued, Near, Awaited
<1>. QED
  BY <1>3, <1>4, <1>5, <1>6

LEMMA NothingLate ==
  ASSUME CInv(Late), Wired, Lagging, lost = 0, ~reading
  PROVE  /\ NoSuccess(Unread)
         /\ srv.open => srv.greeted /\ \A i \in DOMAIN c2s : ~c2s[i].whole
<1>1. cmds \in Nat /\ Unread \in Seq(Parts) /\ Awaited = cmds + 1
  BY Numbers, UnreadType DEF Awaited
<1>2. ASSUME NEW i \in 1..Len(Unread), Asked(Unread[i]) PROVE FALSE
  <2>1. Unread[i].line.re <= cmds /\ Unread[i].line.re + 0 >= cmds + 1
    BY <1>1, <1>2 DEF Lagging, Bounded, Near
  <2>2. Unread[i].line.re \in Nat
    BY <1>1, NumberOfPart
  <2>. QED
    BY <1>1, <2>1, <2>2
<1>3. NoSuccess(Unread)
  <2>1. SUFFICES ASSUME NEW i \in 1..Len(Unread) PROVE Unread[i].line.code \notin 200..299
    BY DEF NoSuccess
  <2>2. Unread[i].line.code = 421
    BY <1>2 DEF Asked
  <2>. QED
    BY <2>2
<1>4. ASSUME srv.open PROVE srv.greeted /\ \A i \in DOMAIN c2s : ~c2s[i].whole
  <2>1. \A i \in DOMAIN c2s : ~c2s[i].whole
    BY <1>4, AloneOnWire
  <2>2. srv.greeted
    BY <1>1, <1>4 DEF Lagging, Queued, Near
  <2>. QED
    BY <2>1, <2>2
<1>. QED
  BY <1>3, <1>4
-----------------------------------------------------------------------------
(* The client's steps                                                      *)

LEMMA SendsHonest ==
  ASSUME CInv(Late), Wired, Lagging, Honest, UNCHANGED serverVars, SendCommand(Verb, Turn)
  PROVE  Honest'
<1>. DEFINE c == Command(Verb, Turn, TRUE)
<1>1. /\ UNCHANGED <<op, step, calls, lost, srv, store>> /\ reading' /\ ~reading
      /\ c2s' = Append(c2s, c) /\ Unread' = Unread /\ step # "done"
  BY DEF SendCommand, Sends, serverVars, Unread
<1>2. c.call = calls /\ c.verb = Verb /\ c2s \in Seq(Commands) /\ op # "none"
  BY <1>1 DEF Command, CInv, Types, Placed
<1>. HIDE DEF c
<1>3. DOMAIN c2s' = 1..(Len(c2s) + 1) /\ DOMAIN c2s = 1..Len(c2s) /\ Len(c2s) \in Nat
      /\ c2s'[Len(c2s) + 1] = c /\ \A i \in 1..Len(c2s) : c2s'[i] = c2s[i]
  BY <1>1, <1>2
<1>4. \A i \in DOMAIN c2s' : (i \in DOMAIN c2s /\ c2s'[i] = c2s[i]) \/ c2s'[i] = c
  BY <1>3
<1>5. Numbered'
  BY <1>1, <1>2, NumberedSent DEF Honest
<1>6. ASSUME op = "sendMail"
      PROVE  step \in {"mailFrom", "rcptTo", "data", "dataBody"} /\ Verb = step
             /\ ~Taken(calls) /\ ~Out(calls)
  BY <1>1, <1>6 DEF Honest, Composing, Verb
<1>7. Composing'
  <2>1. SUFFICES ASSUME op = "sendMail", step # "dataBody" PROVE ~Taken(calls)' /\ ~Out(calls)'
    BY <1>1, <1>6 DEF Composing
  <2>2. ~Taken(calls)'
    BY <1>1, <1>6, <2>1 DEF Taken
  <2>3. c.verb # "dataBody"
    BY <1>2, <1>6, <2>1
  <2>4. ~Out(calls)'
    BY <1>1, <1>4, <1>6, <2>1, <2>3 DEF Out
  <2>. QED
    BY <2>2, <2>4
<1>8. Asking'
  <2>1. SUFFICES ASSUME op = "sendMail", lost = 0 PROVE Undecided'
    BY <1>1 DEF Asking
  <2>2. ~Taken(calls)'
    BY <1>1, <1>6, <2>1 DEF Taken
  <2>3. NoSuccess(Unread) /\ (srv.open => srv.greeted /\ \A i \in DOMAIN c2s : ~c2s[i].whole)
    BY <1>1, <2>1, NothingLate
  <2>4. NoSuccess(Unread)'
    BY <1>1, <2>3 DEF NoSuccess
  <2>5. \A i \in DOMAIN c2s' : srv.open /\ c2s'[i].whole => c2s'[i].verb = step /\ c2s'[i].call = calls
    BY <1>2, <1>4, <1>6, <2>1, <2>3
  <2>. QED
    BY <1>1, <2>2, <2>3, <2>4, <2>5 DEF Undecided
<1>9. Told'
  BY <1>1, <1>2 DEF Told
<1>. QED
  BY <1>5, <1>7, <1>8, <1>9 DEF Honest

LEMMA GiveUpHonest ==
  ASSUME CInv(Late), Honest, store' = store, NEW kind, kind # "reply", GiveUp(kind),
         NEW c, c.call = calls, c2s' \in {c2s, Append(c2s, c)}
  PROVE  Honest'
<1>1. Numbered'
  BY NumberedSent DEF GiveUp, Honest
<1>2. op' = "none" /\ result'.kind = kind
  BY DEF GiveUp, Return
<1>. QED
  BY <1>1, <1>2, OtherHonest

\* The code readReply found is the one of the first line that was unread.
LEMMA CodeRead ==
  ASSUME CInv(Late), Wired, Lagging, NEW chunk \in Chunks, Complete(buffer \o chunk)
  PROVE  /\ 2 \in 1..Len(Unread) /\ Head(ReplyIn(buffer \o chunk)).code = Unread[2].line.code
         /\ Unread[2].line.code \in Nat \ {0}
<1>1. 2 \in 1..Len(Unread) /\ Head(ReplyIn(buffer \o chunk)) = Unread[2].line
  BY TakenReply
<1>2. PICK m \in Nat : m >= 1 /\ 2 * m \in 1..Len(buffer \o chunk)
  BY BeginsUnread, LinesOfReplyIn
<1>3. Unread[2] = (buffer \o chunk)[2]
  <2>1. Len(buffer \o chunk) \in 0..Len(Unread) /\ Len(Unread) \in Nat
        /\ \A i \in 1..Len(buffer \o chunk) : Unread[i] = (buffer \o chunk)[i]
    BY BeginsUnread, UnreadType DEF Wired
  <2>2. 2 \in 1..Len(buffer \o chunk)
    BY <1>2, <2>1
  <2>. QED
    BY <2>1, <2>2
<1>4. (buffer \o chunk)[2].line.code # 0
  BY DEF Complete
<1>5. Unread[2].line.code \in Nat
  BY <1>1, UnreadType, LineOfPart DEF Lines
<1>. QED
  BY <1>1, <1>3, <1>4, <1>5

\* The reply after which sendMail returns.
LEMMA TellsHonest ==
  ASSUME CInv(Late), Wired, Lagging, Honest, UNCHANGED serverVars, op = "sendMail", reading,
         NEW chunk \in Chunks, Complete(buffer \o chunk), Takes(chunk, ReplyIn(buffer \o chunk)),
         NEW code, code = Head(reply').code, step = "dataBody" \/ ~GoesOn(step, code),
         Return("reply", code)
  PROVE  Honest'
<1>1. /\ UNCHANGED <<calls, lost, c2s, srv, store>> /\ op' = "none"
      /\ result' = [of |-> "sendMail", kind |-> "reply", code |-> code, call |-> calls]
  BY DEF Takes, Return, serverVars
<1>2. 2 \in 1..Len(Unread) /\ code = Unread[2].line.code /\ code \in Nat \ {0}
  BY CodeRead DEF Takes
<1>3. Numbered'
  BY <1>1, NumberedKept DEF Honest
<1>4. step \in {"mailFrom", "rcptTo", "data", "dataBody"}
  BY DEF Honest, Composing
<1>5. ASSUME lost = 0 PROVE (code \in 200..299 <=> Taken(calls)) /\ ~Out(calls)
  <2>1. ASSUME NoSuccess(Unread) PROVE code \notin 200..299
    BY <1>2, <2>1 DEF NoSuccess
  <2>2. CASE step \in {"mailFrom", "rcptTo"}
    <3>1. code >= 400
      BY <2>2 DEF GoesOn, EnvelopeOk, negative
    <3>2. code \in Nat /\ \A x \in Nat : x >= 400 => x \notin 200..299
      BY <1>2
    <3>3. code \notin 200..299
      BY <3>1, <3>2
    <3>. QED
      BY <2>2, <3>3 DEF Honest, Composing
  <2>3. CASE step = "data"
    <3>1. Undecided
      BY <1>5, <2>3 DEF Honest, Asking, Granted
    <3>. QED
      BY <2>1, <2>3, <3>1 DEF Honest, Composing, Undecided
  <2>4. CASE step = "dataBody" /\ Undecided
    <3>1. ~Out(calls)
      BY <1>2, <1>5, AloneOnWire DEF Out
    <3>. QED
      BY <2>1, <2>4, <3>1 DEF Undecided
  <2>5. CASE step = "dataBody" /\ Granted
    <3>1. code \in {0, 250}
      BY <1>2, <2>5 DEF Granted
    <3>2. ~Out(calls)
      BY <2>5 DEF Granted, Out
    <3>. QED
      BY <1>2, <2>5, <3>1, <3>2 DEF Granted
  <2>. QED
    BY <1>4, <1>5, <2>2, <2>3, <2>4, <2>5 DEF Honest, Asking
<1>6. Told'
  BY <1>1, <1>5 DEF Told, Taken, Out
<1>7. Composing' /\ Asking'
  BY <1>1 DEF Composing, Asking
<1>. QED
  BY <1>3, <1>6, <1>7 DEF Honest

LEMMA TakesHonest ==
  ASSUME CInv(Late), Wired, Lagging, Honest, UNCHANGED serverVars, reading,
         NEW chunk \in Chunks, Complete(buffer \o chunk), Takes(chunk, ReplyIn(buffer \o chunk)),
         NEW code, code = Head(reply').code,
         IF GoesOn(step, code) THEN Proceed(NextStep(step), code)
         ELSE Return(IF op \in {"connect", "startTls"} THEN "ServerError" ELSE "reply", code)
  PROVE  Honest'
<1>1. UNCHANGED <<calls, lost, c2s, srv, store>>
  BY DEF Takes, serverVars
<1>2. Numbered'
  BY <1>1, NumberedKept DEF Honest
<1>3. op # "none"
  BY DEF CInv, Placed
<1>4. CASE op # "sendMail"
  <2>1. op' = op \/ (op' = "none" /\ result'.of = op)
    BY DEF Proceed, Return
  <2>. QED
    BY <1>2, <1>3, <1>4, <2>1, OtherHonest
<1>5. CASE op = "sendMail" /\ (step = "dataBody" \/ ~GoesOn(step, code))
  <2>1. step = "dataBody" => NextStep(step) = "done"
    BY DEF NextStep
  <2>2. Return("reply", code)
    BY <1>5, <2>1 DEF Proceed
  <2>. QED
    BY <1>5, <2>2, TellsHonest
<1>6. CASE op = "sendMail" /\ step # "dataBody" /\ GoesOn(step, code)
  <2>1. step \in {"mailFrom", "rcptTo", "data"} /\ ~Taken(calls) /\ ~Out(calls)
    BY <1>6 DEF Honest, Composing
  <2>2. NextStep(step) \in {"rcptTo", "data", "dataBody"}
    BY <1>6, <2>1 DEF NextStep
  <2>3. op' = "sendMail" /\ step' = NextStep(step) /\ ~reading'
    BY <1>6, <2>2 DEF Proceed
  <2>4. ~Taken(calls)' /\ ~Out(calls)'
    BY <1>1, <2>1 DEF Taken, Out
  <2>5. Composing' /\ Asking' /\ Told'
    BY <2>2, <2>3, <2>4 DEF Composing, Asking, Told
  <2>. QED
    BY <1>2, <2>5 DEF Honest
<1>. QED
  BY <1>4, <1>5, <1>6

LEMMA RecvChunkHonest ==
  ASSUME CInv(Late), Wired, Lagging, Honest, UNCHANGED serverVars, RecvChunk PROVE Honest'
<1>1. PICK chunk \in Chunks : LET data == buffer \o chunk IN
        \/ Incomplete(data) /\ Keeps(chunk)
        \/ /\ Complete(data) /\ Takes(chunk, ReplyIn(data))
           /\ LET code == Head(reply').code IN
              IF GoesOn(step, code) THEN Proceed(NextStep(step), code)
              ELSE Return(IF op \in {"connect", "startTls"} THEN "ServerError" ELSE "reply", code)
        \/ ~Incomplete(data) /\ ~Complete(data) /\ Rejects(chunk)
  BY DEF RecvChunk
<1>2. CASE Keeps(chunk)
  <2>1. UNCHANGED <<op, step, reading, result, calls, lost, c2s, srv, store>>
    BY <1>2 DEF Keeps, histVars, serverVars
  <2>. QED
    BY <1>2, <2>1, KeptUnread, SameHonest
<1>3. CASE Rejects(chunk)
  <2>. DEFINE c == [call |-> calls]
  <2>1. c.call = calls /\ GiveUp("ParseError") /\ c2s' = c2s /\ store' = store
    BY <1>3 DEF Rejects, serverVars
  <2>. HIDE DEF c
  <2>. QED
    BY <2>1, GiveUpHonest
<1>4. CASE Complete(buffer \o chunk) /\ ~Keeps(chunk) /\ ~Rejects(chunk)
  <2>. DEFINE code == Head(reply').code
  <2>1. /\ reading /\ Takes(chunk, ReplyIn(buffer \o chunk))
        /\ IF GoesOn(step, code) THEN Proceed(NextStep(step), code)
           ELSE Return(IF op \in {"connect", "startTls"} THEN "ServerError" ELSE "reply", code)
    BY <1>1, <1>4 DEF RecvChunk
  <2>2. code = Head(reply').code
    OBVIOUS
  <2>. HIDE DEF code
  <2>. QED
    BY <1>4, <2>1, <2>2, TakesHonest
<1>. QED
  BY <1>1, <1>2, <1>3, <1>4

LEMMA CommandCall == ASSUME NEW t, NEW w PROVE Command(Verb, t, w).call = calls
BY DEF Command

LEMMA ContinuesHonest ==
  ASSUME CInv(Late), Wired, Lagging, Honest, UNCHANGED serverVars, Continues PROVE Honest'
<1>1. CASE Unresolved \/ SendRefused
  <2>1. UNCHANGED <<calls, c2s, store>> /\ op' = "none" /\ result'.kind # "reply"
    BY <1>1 DEF Unresolved, SendRefused, Return, histVars, wire, serverVars
  <2>2. Numbered'
    BY <2>1, NumberedKept DEF Honest
  <2>. QED
    BY <2>1, <2>2, OtherHonest
<1>2. CASE UpgradeFails \/ RecvTimeout \/ ClosedAtOtherEnd \/ SendFails(Verb, Turn)
  <2>. DEFINE c == Command(Verb, Turn, FALSE)
  <2>1. c.call = calls
    BY CommandCall
  <2>2. c2s' \in {c2s, Append(c2s, c)} /\ store' = store
    BY <1>2 DEF UpgradeFails, RecvTimeout, ClosedAtOtherEnd, RecvClosed, SendFails, wire, serverVars
  <2>. HIDE DEF c
  <2>3. \E kind : kind # "reply" /\ GiveUp(kind)
    BY <1>2 DEF UpgradeFails, RecvTimeout, ClosedAtOtherEnd, RecvClosed, SendFails
  <2>. QED
    BY <2>1, <2>2, <2>3, GiveUpHonest
<1>. QED
  BY <1>1, <1>2, SendsHonest, RecvChunkHonest DEF Continues

\* A call begins, or comes back at once.
LEMMA CallsHonest ==
  ASSUME CInv(Late), Honest, UNCHANGED serverVars,
         \/ \E m \in Methods : Call(m)
         \/ \E e \in Endpoints : Connect(e) \/ ConnectWrongScheme(e)
         \/ Close
  PROVE  Honest'
<1>1. /\ UNCHANGED <<c2s, srv, store, reading>> /\ calls' = calls + 1 /\ op = "none"
      /\ ~reading /\ calls \in Nat
  BY DEF Call, Close, Connect, ConnectTo, Begin, ConnectWrongScheme, RefuseScheme, Answers, callVars,
     wire, serverVars, CInv, Placed, Types, Counts
<1>2. Numbered'
  BY <1>1, NumberedKept DEF Honest
<1>3. CASE \E e \in Endpoints : ConnectWrongScheme(e)
  <2>1. op' = "none" /\ result'.of # "sendMail"
    BY <1>1, <1>3 DEF ConnectWrongScheme, RefuseScheme, Answers, callVars
  <2>. QED
    BY <1>2, <2>1, OtherHonest
<1>4. CASE Close \/ \E e \in Endpoints : Connect(e)
  <2>1. op' \in {"connect", "close"}
    BY <1>4 DEF Close, Connect, ConnectTo, Begin
  <2>. QED
    BY <1>2, <2>1, OtherHonest
<1>5. ASSUME NEW m \in Methods, Call(m) PROVE Honest'
  <2>1. op' = m /\ step' = FirstStep(m)
    BY <1>5 DEF Call, Begin
  <2>2. CASE m # "sendMail"
    BY <1>2, <2>1, <2>2, MethodsAreNames, OtherHonest
  <2>3. CASE m = "sendMail"
    <3>1. step' = "mailFrom" /\ op' = "sendMail"
      BY <2>1, <2>3 DEF FirstStep
    <3>2. ~Taken(calls)'
      <4>1. \A d \in store : d.body \in Nat /\ d.body <= calls
        BY DEF Honest, Numbered
      <4>2. \A d \in store : d.body # calls + 1
        BY <1>1, <4>1
      <4>. QED
        BY <1>1, <4>2 DEF Taken
    <3>3. ~Out(calls)'
      <4>1. \A i \in DOMAIN c2s : c2s[i].call <= calls
        BY DEF Honest, Numbered
      <4>2. \A i \in DOMAIN c2s : c2s[i].call # calls + 1
        BY <1>1, <4>1
      <4>. QED
        BY <1>1, <4>2 DEF Out
    <3>4. Composing' /\ Asking' /\ Told'
      BY <1>1, <3>1, <3>2, <3>3 DEF Composing, Asking, Told
    <3>. QED
      BY <1>2, <3>4 DEF Honest
  <2>. QED
    BY <2>2, <2>3
<1>. QED
  BY <1>3, <1>4, <1>5
-----------------------------------------------------------------------------
(* The server's steps                                                      *)

\* Only the body of a message that is read whole is stored.
LEMMA ServerStores ==
  ASSUME CInv(Late), Serves \/ Leaves
  PROVE  /\ srv.open
         /\ \/ store' = store
            \/ \E d : /\ store' = store \cup {d} /\ c2s # <<>>
                      /\ d.body = Head(c2s).call /\ d.by = Head(c2s).by
                      /\ Head(c2s).verb = "dataBody" /\ Head(c2s).whole
<1>1. CASE Greets \/ Shutdown \/ Crash \/ AbortsHandshake \/ JoinsPartials
  BY <1>1 DEF Greets, Shutdown, Crash, AbortsHandshake, JoinsPartials, Reads, serverVars
<1>2. CASE HandlesPartial
  BY <1>2 DEF HandlesPartial, Reads, Refuses, Accepts, serverVars
<1>3. CASE Handles
  <2>1. srv.open /\ c2s # <<>> /\ Head(c2s).whole
    BY <1>3 DEF Handles, Reads
  <2>2. \/ store' = store
        \/ TakesBody(Head(c2s), srv.work) /\ Head(c2s).verb = "dataBody"
    BY <1>3 DEF Handles, Refuses, AcceptsCommand, AcceptsCredential, Accepts, serverVars
  <2>3. CASE TakesBody(Head(c2s), srv.work) /\ Head(c2s).verb = "dataBody"
    <3>1. \/ store' = store
          \/ \E d : /\ store' = store \cup {d}
                    /\ d.body = Head(c2s).call /\ d.by = Head(c2s).by
      BY <2>3 DEF TakesBody, Mail
    <3>. QED
      BY <2>1, <2>3, <3>1
  <2>. QED
    BY <2>1, <2>2, <2>3
<1>. QED
  BY <1>1, <1>2, <1>3 DEF Serves, Leaves

LEMMA ServerTakesFrom ==
  ASSUME CInv(Late), Serves \/ Leaves
  PROVE  \A i \in DOMAIN c2s' : \E j \in DOMAIN c2s : c2s'[i] = c2s[j]
<1>1. PICK k \in 0..2 :
        \A i \in DOMAIN c2s' : i + k \in DOMAIN c2s /\ c2s'[i] = c2s[i + k] /\ i \in Nat
  BY ServerTakes, TakenFromFront DEF CInv, Types
<1>. QED
  BY <1>1

LEMMA ServerKeepsOut ==
  ASSUME CInv(Late), Serves \/ Leaves, NEW n, ~Out(n)
  PROVE  /\ \A d \in store' : d.body = n => Taken(n)
         /\ \A d \in store : d \in store'
         /\ \A i \in DOMAIN c2s' :
              ~(c2s'[i].whole /\ c2s'[i].verb = "dataBody" /\ c2s'[i].call = n)
<1>1. srv.open /\ \A i \in DOMAIN c2s : ~(c2s[i].whole /\ c2s[i].verb = "dataBody" /\ c2s[i].call = n)
  BY ServerStores DEF Out
<1>2. c2s # <<>> => 1 \in DOMAIN c2s /\ Head(c2s) = c2s[1]
  BY DEF CInv, Types
<1>3. \A d \in store' : d.body = n => d \in store
  BY <1>1, <1>2, ServerStores
<1>4. \A d \in store : d \in store'
  BY ServerStores
<1>. QED
  BY <1>1, <1>3, <1>4, ServerTakesFrom DEF Taken

LEMMA ServerNumbered ==
  ASSUME CInv(Late), Serves \/ Leaves, UNCHANGED clientVars, Numbered PROVE Numbered'
<1>1. calls' = calls /\ calls \in Nat /\ c2s \in Seq(Commands)
  BY DEF clientVars, histVars, CInv, Types, Counts
<1>2. c2s # <<>> => Head(c2s).call \in Nat /\ Head(c2s).call <= calls
  <2>1. c2s # <<>> => 1 \in DOMAIN c2s /\ Head(c2s) = c2s[1] /\ c2s[1] \in Commands
    BY <1>1
  <2>. QED
    BY <2>1 DEF Numbered, Commands
<1>3. \A d \in store' : d.body \in Nat /\ d.body <= calls
  BY <1>2, ServerStores DEF Numbered
<1>4. \A i \in DOMAIN c2s' : c2s'[i].call <= calls
  BY ServerTakesFrom DEF Numbered
<1>. QED
  BY <1>1, <1>3, <1>4 DEF Numbered

LEMMA AddedLine ==
  ASSUME NEW s \in Seq(Parts), NEW t \in Seq(Parts), NEW lines \in Seq(Lines),
         Adds(s, t, lines), NEW i \in 1..Len(t), i \notin 1..Len(s)
  PROVE  \E k \in DOMAIN lines : t[i].line = lines[k]
<1>1. PICK j \in 1..(2 * Len(lines)), k \in DOMAIN lines :
        /\ i = Len(s) + j /\ k = (j + 1) \div 2
        /\ t[i].line = lines[k] /\ (t[i].crlf = (j % 2 = 0))
  BY NewPiece DEF Adds
<1>. QED
  BY <1>1

\* What the lines a server writes add to the codes that are unread.
LEMMA CodesWritten ==
  ASSUME Wired, NEW lines \in Seq(Lines), Writes(lines), buffer' = buffer
  PROVE  /\ Len(Unread') = Len(Unread) + 2 * Len(lines)
         /\ \A i \in 1..Len(Unread) : Unread'[i] = Unread[i]
         /\ \A i \in 1..Len(Unread') :
              i \in 1..Len(Unread) \/ \E k \in DOMAIN lines : Unread'[i].line = lines[k]
<1>1. /\ Unread' \in Seq(Parts) /\ Len(Unread') = Len(Unread) + 2 * Len(lines)
      /\ \A i \in 1..Len(Unread) : Unread'[i] = Unread[i]
      /\ \A i \in 1..(2 * Len(lines)) :
           Unread'[Len(Unread) + i] = [line |-> lines[(i + 1) \div 2], crlf |-> i % 2 = 0]
  BY WrittenUnread
<1>2. Unread \in Seq(Parts)
  BY UnreadType
<1>3. Adds(Unread, Unread', lines)
  BY <1>1 DEF Adds
<1>4. \A i \in 1..Len(Unread') : i \notin 1..Len(Unread) =>
        \E k \in DOMAIN lines : Unread'[i].line = lines[k]
  BY <1>1, <1>2, <1>3, AddedLine
<1>. QED
  BY <1>1, <1>4

LEMMA CodesReplied ==
  ASSUME Wired, NEW c, c.no \in Nat, NEW code \in Nat, Replies(c, code), buffer' = buffer
  PROVE  /\ Len(Unread') >= Len(Unread) + 2
         /\ \A i \in 1..Len(Unread') :
              \/ i \in 1..Len(Unread) /\ Unread'[i] = Unread[i]
              \/ Unread'[i].line.code \in {0, code}
<1>1. PICK lines \in Seq(Lines) :
        Writes(lines) /\ Len(lines) >= 1 /\ \A i \in DOMAIN lines : lines[i].code \in {0, code}
  <2>1. CASE \E n \in 1..MaxLines : Writes([i \in 1..n |-> Line(c.no, code, i = n)])
    <3>1. PICK n \in 1..MaxLines : Writes([i \in 1..n |-> Line(c.no, code, i = n)])
      BY <2>1
    <3>. DEFINE lines == [i \in 1..n |-> Line(c.no, code, i = n)]
    <3>2. lines \in Seq(Lines) /\ Len(lines) = n /\ n >= 1
      BY SmtpServerAssumption DEF SmtpServerAssumption, Line, Lines
    <3>3. \A i \in DOMAIN lines : lines[i].code = code
      BY DEF Line
    <3>4. Writes(lines) /\ Len(lines) >= 1
      BY <3>1, <3>2
    <3>. HIDE DEF lines
    <3>. QED
      BY <3>2, <3>3, <3>4
  <2>2. CASE WritesBadLine(c.no)
    <3>. DEFINE lines == <<Line(c.no, 0, TRUE)>>
    <3>1. lines \in Seq(Lines) /\ Len(lines) = 1
          /\ \A i \in DOMAIN lines : i = 1 /\ lines[i].code = 0
      BY DEF Line, Lines
    <3>2. Writes(lines)
      BY <2>2 DEF WritesBadLine
    <3>. HIDE DEF lines
    <3>3. lines \in Seq(Lines) /\ Writes(lines) /\ Len(lines) >= 1
          /\ \A i \in DOMAIN lines : lines[i].code \in {0, code}
      BY <3>1, <3>2
    <3>. QED
      BY <3>3
  <2>. QED
    BY <2>1, <2>2 DEF Replies
<1>2. /\ Len(Unread') = Len(Unread) + 2 * Len(lines)
      /\ \A i \in 1..Len(Unread) : Unread'[i] = Unread[i]
      /\ \A i \in 1..Len(Unread') :
           i \in 1..Len(Unread) \/ \E k \in DOMAIN lines : Unread'[i].line = lines[k]
  BY <1>1, CodesWritten
<1>3. Len(Unread) \in Nat
  BY UnreadType
<1>4. Len(Unread') >= Len(Unread) + 2
  BY <1>1, <1>2, <1>3
<1>. QED
  BY <1>1, <1>2, <1>4

\* What a crash leaves unread.
LEMMA CrashUnread ==
  ASSUME Wired, Crash, buffer' = buffer
  PROVE  \A i \in 1..Len(Unread') : i \in 1..Len(Unread) /\ Unread'[i] = Unread[i]
<1>1. PICK n \in 0..Len(s2c) : s2c' = SubSeq(s2c, 1, n)
  BY DEF Crash
<1>2. s2c' \in Seq(Parts) /\ Len(s2c') = n /\ \A i \in 1..n : s2c'[i] = s2c[i]
  BY <1>1 DEF Wired
<1>. QED
  BY <1>2 DEF Unread, Wired

\* The server has not decided, and this step does not decide for it.
LEMMA StillUndecided ==
  ASSUME CInv(Late), Serves \/ Leaves, UNCHANGED clientVars, Undecided, store' = store,
         srv'.open => srv'.greeted, NoSuccess(Unread')
  PROVE  Undecided'
<1>1. UNCHANGED <<calls, step>>
  BY DEF clientVars, callVars, histVars
<1>2. ~Taken(calls)'
  BY <1>1 DEF Undecided, Taken
<1>3. \A i \in DOMAIN c2s' : c2s'[i].whole => c2s'[i].verb = step /\ c2s'[i].call = calls
  BY ServerStores, ServerTakesFrom DEF Undecided
<1>4. NoSuccess(Unread)'
  BY DEF NoSuccess
<1>. QED
  BY <1>1, <1>2, <1>3, <1>4 DEF Undecided

LEMMA RepliesUndecided ==
  ASSUME CInv(Late), Wired, Serves \/ Leaves, UNCHANGED clientVars, Undecided, store' = store,
         srv'.open => srv'.greeted,
         NEW c, c.no \in Nat, NEW code \in Nat, code \notin 200..299, Replies(c, code)
  PROVE  Undecided'
<1>1. buffer' = buffer
  BY ClientWaits
<1>2. \A i \in 1..Len(Unread') :
         \/ i \in 1..Len(Unread) /\ Unread'[i] = Unread[i]
         \/ Unread'[i].line.code \in {0, code}
  BY <1>1, CodesReplied
<1>3. 0 \notin 200..299
  OBVIOUS
<1>4. NoSuccess(Unread')
  BY <1>2, <1>3 DEF Undecided, NoSuccess
<1>. QED
  BY <1>4, StillUndecided

\* The one command in flight is read.
LEMMA HandlesUndecided ==
  ASSUME CInv(Late), Wired, Lagging, UNCHANGED clientVars, Undecided, lost = 0,
         step \in {"data", "dataBody"}, Handles
  PROVE  Undecided' \/ Granted'
<1>. DEFINE c == Head(c2s)
            w == srv.work
<1>1. /\ c2s \in Seq(Commands) /\ c2s # <<>> /\ c = c2s[1] /\ 1 \in DOMAIN c2s /\ c2s[1].whole
      /\ srv.open /\ srv.greeted /\ c2s' = Tail(c2s) /\ buffer' = buffer
  BY ClientWaits DEF Handles, Reads, CInv, Types
<1>2. c \in Commands
  BY <1>1
<1>3. c.no \in Nat /\ c.verb = step /\ c.call = calls
  BY <1>1, <1>2 DEF Undecided, Commands
<1>4. Unread = <<>> /\ \A j \in DOMAIN c2s : c2s[j].whole => j = 1
  BY <1>1, AloneOnWire
<1>5. \/ Refuses(c, w) \/ AcceptsCommand(c, w)
      \/ TakesBody(c, w) /\ c.verb = "dataBody"
      \/ UNCHANGED <<s2c, serverVars>>
  BY <1>3 DEF Handles, AcceptsCredential
<1>. HIDE DEF c, w
<1>6. Serves \/ Leaves
  BY DEF Serves
<1>7. CASE Refuses(c, w)
  <2>1. store' = store /\ srv'.greeted /\ Replies(c, 550)
    BY <1>1, <1>7 DEF Refuses, Accepts, Working, Wired
  <2>2. 550 \in Nat /\ 550 \notin 200..299
    OBVIOUS
  <2>. QED
    BY <1>3, <1>6, <2>1, <2>2, RepliesUndecided
<1>8. CASE AcceptsCommand(c, w)
  <2>1. store' = store /\ srv'.greeted /\ Replies(c, 354)
    BY <1>1, <1>3, <1>8 DEF AcceptsCommand, Accepts, Working, Wired
  <2>2. 354 \in Nat /\ 354 \notin 200..299
    OBVIOUS
  <2>. QED
    BY <1>3, <1>6, <2>1, <2>2, RepliesUndecided
<1>9. CASE TakesBody(c, w) /\ c.verb = "dataBody"
  <2>1. srv'.greeted
    BY <1>1, <1>9 DEF TakesBody, Working, Wired
  <2>2. CASE Replies(c, 554) /\ store' = store
    <3>1. 554 \in Nat /\ 554 \notin 200..299
      OBVIOUS
    <3>. QED
      BY <1>3, <1>6, <2>1, <2>2, <3>1, RepliesUndecided
  <2>3. ASSUME Replies(c, 250), NEW d, d.body = c.call, store' = store \cup {d} PROVE Granted'
    <3>1. UNCHANGED <<step, calls>>
      BY DEF clientVars, callVars, histVars
    <3>2. step' = "dataBody" /\ Taken(calls)'
      BY <1>3, <1>9, <2>3, <3>1 DEF Taken
    <3>3. \A i \in DOMAIN c2s' : ~c2s'[i].whole
      <4>1. \A i \in DOMAIN c2s' : i \in Nat /\ i # 0 /\ i + 1 \in DOMAIN c2s /\ c2s'[i] = c2s[i + 1]
        BY <1>1, TailKeeps
      <4>. QED
        BY <1>4, <4>1
    <3>4. /\ Len(Unread') >= Len(Unread) + 2
          /\ \A i \in 1..Len(Unread') :
               \/ i \in 1..Len(Unread) /\ Unread'[i] = Unread[i]
               \/ Unread'[i].line.code \in {0, 250}
      BY <1>1, <1>3, <2>3, CodesReplied
    <3>5. Len(Unread) = 0 /\ \A i \in 1..Len(Unread) : FALSE
      BY <1>4
    <3>6. Len(Unread') >= 2 /\ \A i \in 1..Len(Unread') : Unread'[i].line.code \in {0, 250}
      BY <3>4, <3>5
    <3>. QED
      BY <3>2, <3>3, <3>6 DEF Granted
  <2>4. \/ Replies(c, 554) /\ store' = store
        \/ Replies(c, 250) /\ \E d : d.body = c.call /\ store' = store \cup {d}
    BY <1>9 DEF TakesBody, Mail
  <2>. QED
    BY <2>2, <2>3, <2>4
<1>10. CASE UNCHANGED <<s2c, serverVars>>
  <2>1. store' = store /\ srv' = srv /\ Unread' = Unread
    BY <1>1, <1>10 DEF serverVars, Unread
  <2>2. NoSuccess(Unread')
    BY <2>1 DEF Undecided
  <2>. QED
    BY <1>1, <1>6, <2>1, <2>2, StillUndecided
<1>. QED
  BY <1>5, <1>7, <1>8, <1>9, <1>10

LEMMA ServerUndecided ==
  ASSUME CInv(Late), Wired, Lagging, UNCHANGED clientVars, Undecided, lost = 0,
         step \in {"data", "dataBody"}, Serves \/ Leaves
  PROVE  Undecided' \/ Granted'
<1>1. srv.open /\ srv.greeted /\ buffer' = buffer
  BY ServerStores, ClientWaits DEF Undecided
<1>2. CASE Greets
  BY <1>1, <1>2 DEF Greets
<1>3. CASE Handles
  BY <1>3, HandlesUndecided
<1>4. CASE UNCHANGED <<s2c, store>> /\ (srv' = srv \/ srv' = Gone(srv))
  <2>1. Unread' = Unread /\ srv'.greeted
    BY <1>1, <1>4 DEF Unread, Gone, Wired
  <2>2. NoSuccess(Unread')
    BY <2>1 DEF Undecided
  <2>. QED
    BY <1>4, <2>1, <2>2, StillUndecided
<1>5. CASE HandlesPartial
  <2>1. CASE Len(c2s) > 1 /\ Refuses(c2s[2], srv.work)
    <3>1. store' = store /\ srv'.greeted /\ Replies(c2s[2], 550)
      BY <1>1, <2>1 DEF Refuses, Accepts, Working, Wired
    <3>2. 550 \in Nat /\ 550 \notin 200..299
      OBVIOUS
    <3>3. c2s[2] \in Commands
      BY <2>1 DEF CInv, Types
    <3>4. c2s[2].no \in Nat
      BY <3>3 DEF Commands
    <3>. QED
      BY <3>1, <3>2, <3>4, RepliesUndecided
  <2>. QED
    BY <1>4, <1>5, <2>1 DEF HandlesPartial, serverVars
<1>6. CASE Shutdown
  <2>. DEFINE lines == <<Line(0, 421, TRUE)>>
  <2>1. lines \in Seq(Lines) /\ \A i \in DOMAIN lines : i = 1 /\ lines[i].code = 421
    BY DEF Line, Lines
  <2>2. Writes(lines) /\ store' = store /\ ~srv'.open
    BY <1>6 DEF Shutdown, Gone, Wired
  <2>. HIDE DEF lines
  <2>3. /\ \A i \in 1..Len(Unread) : Unread'[i] = Unread[i]
        /\ \A i \in 1..Len(Unread') :
             i \in 1..Len(Unread) \/ \E k \in DOMAIN lines : Unread'[i].line = lines[k]
    BY <1>1, <2>1, <2>2, CodesWritten
  <2>4. \A i \in 1..Len(Unread') : i \in 1..Len(Unread) \/ Unread'[i].line.code = 421
    BY <2>1, <2>3
  <2>5. NoSuccess(Unread')
    <3>1. SUFFICES ASSUME NEW i \in 1..Len(Unread') PROVE Unread'[i].line.code \notin 200..299
      BY DEF NoSuccess
    <3>2. i \in 1..Len(Unread) \/ Unread'[i].line.code = 421
      BY <2>4
    <3>3. 421 \notin 200..299
      OBVIOUS
    <3>. QED
      BY <2>3, <3>2, <3>3 DEF Undecided, NoSuccess
  <2>. QED
    BY <2>2, <2>5, StillUndecided
<1>7. CASE Crash
  <2>1. store' = store /\ ~srv'.open
    BY <1>7 DEF Crash, Gone, Wired
  <2>2. NoSuccess(Unread')
    BY <1>1, <1>7, CrashUnread DEF Undecided, NoSuccess
  <2>. QED
    BY <2>1, <2>2, StillUndecided
<1>. QED
  BY <1>2, <1>3, <1>4, <1>5, <1>6, <1>7
     DEF Serves, Leaves, JoinsPartials, AbortsHandshake, wire, serverVars

\* The message is stored, and its reply comes before anything else.
LEMMA ServerGranted ==
  ASSUME CInv(Late), Wired, Lagging, UNCHANGED clientVars, Granted, Serves \/ Leaves
  PROVE  Granted'
<1>1. srv.open /\ buffer' = buffer /\ UNCHANGED <<step, calls>>
      /\ Len(Unread) >= 2 /\ (\A i \in DOMAIN c2s : ~c2s[i].whole)
      /\ \A i \in DOMAIN c2s' : ~c2s'[i].whole
  BY ServerStores, ServerTakesFrom, ClientWaits DEF Granted, clientVars, callVars, histVars
<1>2. Len(Unread) \in Nat /\ c2s \in Seq(Commands)
  BY UnreadType DEF Wired, CInv, Types
<1>3. ~Greets
  BY <1>1 DEF Greets, Lagging, Queued
<1>4. ~Handles
  BY <1>1, <1>2 DEF Handles, Reads
<1>5. ~(Len(c2s) > 1 /\ c2s[2].whole)
  BY <1>1, <1>2
<1>6. UNCHANGED store
  BY <1>3, <1>4, <1>5 DEF Serves, Leaves, HandlesPartial, JoinsPartials, AbortsHandshake, Shutdown,
     Crash, serverVars
<1>7. step' = "dataBody" /\ Taken(calls)'
  BY <1>1, <1>6 DEF Granted, Taken
<1>8. ASSUME \A i \in 1..Len(Unread') : i <= 2 => i \in 1..Len(Unread) /\ Unread'[i] = Unread[i],
             srv'.open => Len(Unread') >= 2
      PROVE  Granted'
  BY <1>1, <1>7, <1>8 DEF Granted
<1>9. CASE UNCHANGED <<s2c, store>>
  <2>1. Unread' = Unread
    BY <1>1, <1>9 DEF Unread
  <2>. QED
    BY <1>1, <1>8, <2>1
<1>10. CASE Shutdown
  <2>. DEFINE lines == <<Line(0, 421, TRUE)>>
  <2>1. lines \in Seq(Lines)
    BY DEF Line, Lines
  <2>2. Writes(lines) /\ ~srv'.open
    BY <1>10 DEF Shutdown, Gone, Wired
  <2>. HIDE DEF lines
  <2>3. \A i \in 1..Len(Unread) : Unread'[i] = Unread[i]
    BY <1>1, <2>1, <2>2, CodesWritten
  <2>4. \A i \in 1..Len(Unread') : i <= 2 => i \in 1..Len(Unread)
    BY <1>1, <1>2
  <2>. QED
    BY <1>8, <2>2, <2>3, <2>4
<1>11. CASE Crash
  <2>1. ~srv'.open
    BY <1>11 DEF Crash, Gone, Wired
  <2>. QED
    BY <1>1, <1>8, <1>11, <2>1, CrashUnread
<1>. QED
  BY <1>3, <1>4, <1>5, <1>9, <1>10, <1>11
     DEF Serves, Leaves, HandlesPartial, JoinsPartials, AbortsHandshake, wire, serverVars

LEMMA ServerHonest ==
  ASSUME CInv(Late), Wired, Lagging, Honest, UNCHANGED clientVars, Serves \/ Leaves
  PROVE  Honest'
<1>1. UNCHANGED <<op, step, reading, result, calls, lost>>
  BY DEF clientVars, callVars, histVars
<1>2. Numbered'
  BY ServerNumbered DEF Honest
<1>3. Composing'
  <2>1. SUFFICES ASSUME op = "sendMail", ~(step = "dataBody" /\ reading)
                 PROVE  ~Taken(calls)' /\ ~Out(calls)'
    BY <1>1 DEF Honest, Composing
  <2>2. ~Taken(calls) /\ ~Out(calls)
    BY <2>1 DEF Honest, Composing
  <2>. QED
    BY <1>1, <2>2, ServerKeepsOut DEF Taken, Out
<1>4. Told'
  <2>1. SUFFICES ASSUME op = "none", result.of = "sendMail", result.kind = "reply", lost = 0
                 PROVE  (result.code \in 200..299 <=> Taken(result.call)') /\ ~Out(result.call)'
    BY <1>1 DEF Told
  <2>2. (result.code \in 200..299 <=> Taken(result.call)) /\ ~Out(result.call)
    BY <2>1 DEF Honest, Told
  <2>3. Taken(result.call)' <=> Taken(result.call)
    BY <1>1, <2>2, ServerKeepsOut DEF Taken
  <2>4. ~Out(result.call)'
    BY <1>1, <2>2, ServerKeepsOut DEF Out
  <2>. QED
    BY <2>2, <2>3, <2>4
<1>5. Asking'
  <2>1. SUFFICES ASSUME op = "sendMail", reading, step \in {"data", "dataBody"}, lost = 0
                 PROVE  Undecided' \/ Granted'
    BY <1>1 DEF Asking
  <2>2. Undecided \/ Granted
    BY <2>1 DEF Honest, Asking
  <2>. QED
    BY <2>1, <2>2, ServerUndecided, ServerGranted
<1>. QED
  BY <1>2, <1>3, <1>4, <1>5 DEF Honest
-----------------------------------------------------------------------------
\* A mail adrift is taken: it is not of the call that runs or returned last.
LEMMA LateHonest ==
  ASSUME CInv(Late), Honest, Strays, TakesLate PROVE Honest'
<1>1. /\ UNCHANGED <<op, step, reading, result, calls, lost, c2s, srv>>
      /\ Unread' = Unread
  BY DEF TakesLate, clientVars, callVars, histVars, wire, Unread
<1>2. PICK m \in adrift : store' = store \cup {m}
  BY DEF TakesLate
<1>3. m.body \in Nat /\ m.body < calls /\ calls \in Nat
  BY DEF Strays, CInv, Types, Counts
<1>4. Taken(calls)' <=> Taken(calls)
  BY <1>1, <1>2, <1>3 DEF Taken
<1>5. Numbered'
  BY <1>1, <1>2, <1>3 DEF Honest, Numbered
<1>6. Composing'
  BY <1>1, <1>4 DEF Honest, Composing, Out
<1>7. Asking'
  <2>1. Undecided => Undecided'
    BY <1>1, <1>4 DEF Undecided, NoSuccess
  <2>2. Granted => Granted'
    BY <1>1, <1>4 DEF Granted
  <2>. QED
    BY <1>1, <2>1, <2>2 DEF Honest, Asking
<1>8. Told'
  <2>1. SUFFICES ASSUME op = "none", result.of = "sendMail", result.kind = "reply", lost = 0
                 PROVE  (result.code \in 200..299 <=> Taken(result.call)') /\ ~Out(result.call)'
    BY <1>1 DEF Told
  <2>2. result.call = calls
    BY <2>1 DEF Strays
  <2>3. (result.code \in 200..299 <=> Taken(calls)) /\ ~Out(calls)
    BY <2>1, <2>2 DEF Honest, Told
  <2>4. Taken(result.call)' <=> Taken(calls)'
    BY <1>1, <2>2 DEF Taken
  <2>5. Out(result.call)' <=> Out(calls)
    BY <1>1, <2>2 DEF Out
  <2>. QED
    BY <1>4, <2>3, <2>4, <2>5
<1>. QED
  BY <1>5, <1>6, <1>7, <1>8 DEF Honest

\* The client leaves its connection: a connect or a close goes on or ends.
LEMMA Leaving ==
  ASSUME CInv(Late), Dials \/ DialFailed \/ Closes
  PROVE  /\ step \in {"dial", "close"} /\ step' \notin {"dial", "close"}
         /\ c2s' = <<>> /\ UNCHANGED <<calls, store>>
         /\ op \in {"connect", "close"} /\ op' \in {op, "none"}
         /\ \/ op' = op /\ result' = result
            \/ op' = "none" /\ result'.of = op
<1>1. CASE Dials
  <2>1. Proceed(NextStep("dial"), 0) /\ step = "dial" /\ c2s' = <<>> /\ UNCHANGED <<calls, store>>
    BY <1>1 DEF Dials, DialsTo, DialSucceeds
  <2>2. NextStep("dial") = "greeting" /\ "greeting" # "done"
    BY DEF NextStep, AfterDial
  <2>3. op' = op /\ result' = result /\ step' = "greeting"
    BY <2>1, <2>2 DEF Proceed
  <2>. QED
    BY <2>1, <2>3 DEF CInv, Placed
<1>2. CASE DialFailed
  BY <1>2 DEF DialFailed, DialFails, Return, histVars, CInv, Placed
<1>3. CASE Closes
  BY <1>3 DEF Closes, CloseEnds, Return, histVars, CInv, Placed
<1>. QED
  BY <1>1, <1>2, <1>3

LEMMA NextHonest ==
  ASSUME CInv(Late), Wired, Lagging, Honest, Strays, [Next]_vars PROVE Honest'
<1>1. CASE Dials \/ DialFailed \/ Closes
  <2>1. store' = store /\ c2s' = <<>> /\ calls' = calls
    BY <1>1, Leaving
  <2>2. Numbered'
    BY <2>1, NumberedKept DEF Honest
  <2>3. op' # "sendMail" /\ (op' = "none" => result'.of # "sendMail" \/ result'.kind # "reply")
    BY <1>1, Leaving
  <2>. QED
    BY <2>2, <2>3, OtherHonest
<1>2. CASE Upgrades
  <2>1. UNCHANGED <<store, c2s, calls>> /\ step = "upgrade"
        /\ Proceed(NextStep("upgrade"), LastCode)
    BY <1>2 DEF Upgrades, UpgradesTo, UpgradeSucceeds, histVars, wire
  <2>2. Numbered'
    BY <2>1, NumberedKept DEF Honest
  <2>3. op # "sendMail" /\ op # "none"
    BY <2>1 DEF Honest, Composing, CInv, Placed
  <2>4. op' = op \/ (op' = "none" /\ result'.of = op)
    BY <2>1 DEF Proceed, Return
  <2>. QED
    BY <2>2, <2>3, <2>4, OtherHonest
<1>3. CASE ClientStep
  <2>1. UNCHANGED serverVars
    BY <1>3 DEF ClientStep, Continues
  <2>2. CASE RecvFails
    <3>. DEFINE c == [call |-> calls]
    <3>1. c.call = calls /\ GiveUp("RecvError") /\ c2s' = c2s /\ store' = store
      BY <2>1, <2>2 DEF RecvFails, wire, serverVars
    <3>. HIDE DEF c
    <3>. QED
      BY <3>1, GiveUpHonest
  <2>. QED
    BY <1>3, <2>1, <2>2, ContinuesHonest, CallsHonest DEF ClientStep
<1>4. CASE ServerStep
  BY <1>4, ServerHonest DEF ServerStep
<1>5. CASE UNCHANGED vars
  <2>1. UNCHANGED <<op, step, reading, result, calls, lost, c2s, srv, store>> /\ Unread' = Unread
    BY <1>5 DEF vars, mailVars, clientVars, callVars, histVars, wire, serverVars, Unread
  <2>. QED
    BY <2>1, SameHonest
<1>. QED
  BY <1>1, <1>2, <1>3, <1>4, <1>5, LateHonest DEF Next, Departs

LEMMA InitHonest == ASSUME Init PROVE Honest /\ Strays
<1>1. op = "none" /\ result.of = "none" /\ store = {} /\ c2s = <<>> /\ adrift = {}
  BY DEF Init, SessionInit, ClientInit
<1>. QED
  BY <1>1 DEF Honest, Numbered, Composing, Asking, Told, Strays
-----------------------------------------------------------------------------
\* The commands are those there were or of the call that runs, no mail has come
\* adrift, and no dial or close begins.
LEMMA KeepsStrays ==
  ASSUME CInv(Late), Strays, adrift' \subseteq adrift, calls' = calls,
         NEW c, c.call = calls,
         \A i \in DOMAIN c2s' : c2s'[i] = c \/ \E j \in DOMAIN c2s : c2s'[i] = c2s[j],
         step' \notin {"dial", "close"} \/ UNCHANGED <<step, c2s>>,
         \/ UNCHANGED <<op, result>>
         \/ op' # "none"
         \/ result'.of # "sendMail" \/ result'.call = calls
  PROVE  Strays'
<1>1. \A m \in adrift' : m.body < calls' /\ \A i \in DOMAIN c2s' : m.body < c2s'[i].call
  BY DEF Strays
<1>2. step' \in {"dial", "close"} => \A i \in DOMAIN c2s' : c2s'[i].call < calls'
  BY DEF Strays
<1>. QED
  BY <1>1, <1>2 DEF Strays

\* The client leaves, and what it sent last may come adrift.
LEMMA DepartsStrays ==
  ASSUME CInv(Late), Bodied, Strays, Departs PROVE Strays'
<1>1. /\ step \in {"dial", "close"} /\ step' \notin {"dial", "close"}
      /\ c2s' = <<>> /\ calls' = calls /\ adrift' = adrift \cup LeftBehind
      /\ op' = "none" => result'.of # "sendMail"
  BY Leaving DEF Departs
<1>2. calls \in Nat /\ c2s \in Seq(Commands)
  BY DEF CInv, Types, Counts
<1>3. ASSUME NEW m \in LeftBehind
      PROVE  \E i \in DOMAIN c2s : /\ m = Mail(c2s[i], srv.work) /\ m.body = c2s[i].call
                                   /\ c2s[i].verb = "dataBody"
                                   /\ srv.open /\ srv.work.mode = "data"
  BY DEF LeftBehind, InFlight, Mail
<1>4. ASSUME NEW m \in LeftBehind
      PROVE  /\ m.body \in Nat /\ m.body < calls
             /\ \A n \in adrift : n.body # m.body
             /\ \A n \in LeftBehind : n = m
  <2>1. PICK i \in DOMAIN c2s : /\ m = Mail(c2s[i], srv.work) /\ m.body = c2s[i].call
                                /\ c2s[i].verb = "dataBody"
                                /\ srv.open /\ srv.work.mode = "data"
    BY <1>3
  <2>2. c2s[i] \in Commands
    BY <1>2
  <2>3. c2s[i].call \in Nat /\ c2s[i].call < calls
    BY <1>1, <2>2 DEF Strays, Commands
  <2>4. ASSUME NEW n \in adrift PROVE n.body # m.body
    <3>1. n.body \in Nat /\ n.body < c2s[i].call
      BY DEF Strays
    <3>. QED
      BY <2>1, <2>3, <3>1
  <2>5. ASSUME NEW n \in LeftBehind PROVE n = m
    <3>1. PICK j \in DOMAIN c2s : n = Mail(c2s[j], srv.work) /\ c2s[j].verb = "dataBody"
      BY <1>3
    <3>2. i = j
      BY <2>1, <3>1 DEF Bodied, InData, OneBody
    <3>. QED
      BY <2>1, <3>1, <3>2
  <2>. QED
    BY <2>1, <2>3, <2>4, <2>5
<1>5. \A m \in adrift' : m.body \in Nat /\ m.body < calls'
  BY <1>1, <1>4 DEF Strays
<1>6. \A m, n \in adrift' : m.body = n.body => m = n
  BY <1>1, <1>4 DEF Strays
<1>. QED
  BY <1>1, <1>5, <1>6 DEF Strays

LEMMA ContinuesStrays ==
  ASSUME CInv(Late), Strays, UNCHANGED adrift, Continues \/ RecvFails PROVE Strays'
<1>. DEFINE c == [call |-> calls]
<1>1. c.call = calls /\ c2s \in Seq(Commands)
  BY DEF CInv, Types
<1>2. CASE SendCommand(Verb, Turn)
  <2>. DEFINE d == Command(Verb, Turn, TRUE)
  <2>1. d.call = calls
    BY CommandCall
  <2>2. /\ c2s' = Append(c2s, d) /\ UNCHANGED <<calls, step, op, result>>
        /\ step \notin {"dial", "close"}
    BY <1>2 DEF SendCommand, Sends
  <2>. HIDE DEF d
  <2>3. \A i \in DOMAIN c2s' : c2s'[i] = d \/ \E j \in DOMAIN c2s : c2s'[i] = c2s[j]
    BY <1>1, <2>2
  <2>. QED
    BY <2>1, <2>2, <2>3, KeepsStrays
<1>3. CASE SendFails(Verb, Turn)
  <2>. DEFINE d == Command(Verb, Turn, FALSE)
  <2>1. d.call = calls
    BY CommandCall
  <2>2. /\ c2s' \in {c2s, Append(c2s, d)} /\ calls' = calls /\ step' = "done"
        /\ result'.call = calls
    BY <1>3 DEF SendFails, GiveUp, Return
  <2>. HIDE DEF d
  <2>3. \A i \in DOMAIN c2s' : c2s'[i] = d \/ \E j \in DOMAIN c2s : c2s'[i] = c2s[j]
    BY <1>1, <2>2
  <2>. QED
    BY <2>1, <2>2, <2>3, KeepsStrays
<1>4. CASE Unresolved \/ UpgradeFails \/ SendRefused \/ RecvTimeout \/ ClosedAtOtherEnd \/ RecvFails
  <2>1. c2s' = c2s /\ calls' = calls /\ step' = "done" /\ result'.call = calls
    BY <1>4 DEF Unresolved, UpgradeFails, SendRefused, RecvTimeout, ClosedAtOtherEnd, RecvClosed,
       RecvFails, GiveUp, Return, histVars, wire
  <2>2. \A i \in DOMAIN c2s' : c2s'[i] = c \/ \E j \in DOMAIN c2s : c2s'[i] = c2s[j]
    BY <2>1
  <2>. HIDE DEF c
  <2>. QED
    BY <1>1, <2>1, <2>2, KeepsStrays
<1>5. CASE RecvChunk
  <2>1. PICK chunk \in Chunks :
          \/ Keeps(chunk)
          \/ /\ Takes(chunk, ReplyIn(buffer \o chunk))
             /\ \/ \E code : Proceed(NextStep(step), code)
                \/ \E kind, code : Return(kind, code)
          \/ Rejects(chunk)
    BY <1>5 DEF RecvChunk
  <2>2. c2s' = c2s /\ calls' = calls
    BY <2>1 DEF Keeps, Takes, Rejects, GiveUp, Return, Proceed, histVars
  <2>3. NextStep(step) \notin {"dial", "close"}
    BY DEF NextStep, AfterDial, AfterGreeting
  <2>4. step' \notin {"dial", "close"} \/ step' = step
    BY <2>1, <2>3 DEF Keeps, Rejects, GiveUp, Return, Proceed
  <2>5. UNCHANGED <<op, result>> \/ result'.call = calls
    BY <2>1 DEF Keeps, Rejects, GiveUp, Return, Proceed
  <2>6. \A i \in DOMAIN c2s' : c2s'[i] = c \/ \E j \in DOMAIN c2s : c2s'[i] = c2s[j]
    BY <2>2
  <2>. HIDE DEF c
  <2>. QED
    BY <1>1, <2>2, <2>4, <2>5, <2>6, KeepsStrays
<1>. QED
  BY <1>2, <1>3, <1>4, <1>5 DEF Continues

LEMMA CallsStrays ==
  ASSUME CInv(Late), Honest, Strays, UNCHANGED adrift,
         \/ \E m \in Methods : Call(m)
         \/ \E e \in Endpoints : Connect(e) \/ ConnectWrongScheme(e)
         \/ Close
  PROVE  Strays'
<1>1. c2s' = c2s /\ calls' = calls + 1 /\ calls \in Nat /\ c2s \in Seq(Commands)
  BY DEF Call, Close, Connect, ConnectTo, Begin, ConnectWrongScheme, RefuseScheme, Answers, wire,
     CInv, Types, Counts
<1>2. op' # "none" \/ result'.of # "sendMail"
  BY MethodsAreNames DEF Call, Close, Connect, ConnectTo, Begin, ConnectWrongScheme, RefuseScheme,
     Answers
<1>3. \A i \in DOMAIN c2s : c2s[i].call \in Nat /\ c2s[i].call <= calls
  <2>1. \A i \in DOMAIN c2s : c2s[i] \in Commands
    BY <1>1
  <2>. QED
    BY <2>1 DEF Honest, Numbered, Commands
<1>4. \A i \in DOMAIN c2s' : c2s'[i].call < calls'
  BY <1>1, <1>3
<1>5. \A m \in adrift : m.body \in Nat /\ m.body < calls'
  BY <1>1 DEF Strays
<1>. QED
  BY <1>1, <1>2, <1>4, <1>5 DEF Strays

LEMMA NextStrays ==
  ASSUME CInv(Late), Wired, Bodied, Honest, Strays, [Next]_vars PROVE Strays'
<1>. DEFINE c == [call |-> calls]
<1>1. c.call = calls
  OBVIOUS
<1>. HIDE DEF c
<1>2. CASE Upgrades
  <2>1. /\ c2s' = c2s /\ calls' = calls /\ adrift' = adrift /\ step = "upgrade"
        /\ Proceed(NextStep("upgrade"), LastCode)
    BY <1>2 DEF Upgrades, UpgradesTo, UpgradeSucceeds, histVars, wire
  <2>2. NextStep("upgrade") \notin {"dial", "close"}
    BY DEF NextStep
  <2>3. step' \notin {"dial", "close"} /\ (UNCHANGED <<op, result>> \/ result'.call = calls)
    BY <2>1, <2>2 DEF Proceed, Return
  <2>4. \A i \in DOMAIN c2s' : c2s'[i] = c \/ \E j \in DOMAIN c2s : c2s'[i] = c2s[j]
    BY <2>1
  <2>. QED
    BY <1>1, <2>1, <2>3, <2>4, KeepsStrays
<1>3. CASE ServerStep
  <2>1. UNCHANGED <<calls, step, op, result, adrift>>
    BY <1>3 DEF ServerStep, clientVars, callVars, histVars
  <2>2. \A i \in DOMAIN c2s' : \E j \in DOMAIN c2s : c2s'[i] = c2s[j]
    BY <1>3, ServerTakesFrom DEF ServerStep
  <2>3. \A m \in adrift : \A i \in DOMAIN c2s' : m.body < c2s'[i].call
    BY <2>2 DEF Strays
  <2>4. step \in {"dial", "close"} => \A i \in DOMAIN c2s' : c2s'[i].call < calls
    BY <2>2 DEF Strays
  <2>. QED
    BY <2>1, <2>3, <2>4 DEF Strays
<1>4. CASE TakesLate \/ UNCHANGED vars
  <2>1. UNCHANGED <<calls, step, op, result, c2s>> /\ adrift' \subseteq adrift
    BY <1>4 DEF TakesLate, vars, mailVars, clientVars, callVars, histVars, wire
  <2>2. \A i \in DOMAIN c2s' : c2s'[i] = c \/ \E j \in DOMAIN c2s : c2s'[i] = c2s[j]
    BY <2>1
  <2>. QED
    BY <1>1, <2>1, <2>2, KeepsStrays
<1>5. CASE ClientStep
  BY <1>5, ContinuesStrays, CallsStrays DEF ClientStep, Continues
<1>. QED
  BY <1>2, <1>3, <1>4, <1>5, DepartsStrays DEF Next

\* While nothing was given up on the connection, sendMail returns a reply 2yz
\* if and only if the server has taken the message of that very call: for any
\* number of calls and recipients, replies of any length cut in any way, and a
\* server that may refuse, go away or crash at any point.
THEOREM SmtpSendMailTellsTheTruth == Spec => []SendMailTellsTheTruth
<1>1. CInv(Late) /\ Wired /\ Bodied /\ Lagging /\ Honest /\ Strays /\ [Next]_vars =>
        CInv(Late)' /\ Wired' /\ Bodied' /\ Lagging' /\ Honest' /\ Strays'
  BY NextSmtp, NextWired, NextBodied, NextLag, NextHonest, NextStrays
<1>2. Init => CInv(Late) /\ Wired /\ Bodied /\ Lagging /\ Honest /\ Strays
  BY InitSmtp, InitWired, InitBodied, InitLag, InitHonest
<1>3. Honest => SendMailTellsTheTruth
  BY DEF Honest, Told, Taken, SendMailTellsTheTruth
<1>. QED
  BY <1>1, <1>2, <1>3, PTL DEF Spec
-----------------------------------------------------------------------------
\* sendMail implements Submission: what holds of the call that runs.

\* The commands in flight and the messages stored of the call that runs are
\* its own; while nothing was given up, no other command is in flight.
Attributed ==
  /\ op # "none" =>
       /\ calls >= 1
       /\ \A d \in store : d.body = calls => d.by = op
       /\ \A i \in DOMAIN c2s : c2s[i].call = calls => c2s[i].by = op
  /\ \A i \in DOMAIN c2s : c2s[i].call >= 1
  /\ srv.open /\ lost = 0 =>
       \A i \in DOMAIN c2s : c2s[i].whole => c2s[i].call = calls /\ c2s[i].by = op

NoneWhole == srv.open /\ lost = 0 => \A i \in DOMAIN c2s : ~c2s[i].whole

LEMMA KeepsAttributed ==
  ASSUME Attributed, UNCHANGED <<store, calls>>, c2s' \in {c2s, <<>>}, op' \in {op, "none"},
         NoneWhole' \/ UNCHANGED <<srv, lost, op>>
  PROVE  Attributed'
<1>1. \A i \in DOMAIN c2s' : i \in DOMAIN c2s /\ c2s'[i] = c2s[i]
  OBVIOUS
<1>2. op' # "none" => op' = op
  OBVIOUS
<1>3. srv'.open /\ lost' = 0 =>
        \A i \in DOMAIN c2s' : c2s'[i].whole => c2s'[i].call = calls /\ c2s'[i].by = op'
  <2>1. CASE NoneWhole'
    BY <2>1 DEF NoneWhole
  <2>2. CASE UNCHANGED <<srv, lost, op>>
    BY <1>1, <2>2 DEF Attributed
  <2>. QED
    BY <2>1, <2>2
<1>. QED
  BY <1>1, <1>2, <1>3 DEF Attributed

LEMMA NoneWholeBetween ==
  ASSUME CInv(Late), Wired, Lagging, ~reading \/ Unread # <<>> PROVE NoneWhole
BY AloneOnWire DEF NoneWhole

LEMMA NoneWholeStays ==
  ASSUME NoneWhole, UNCHANGED <<lost, c2s>>, srv'.open => srv.open PROVE NoneWhole'
BY DEF NoneWhole

LEMMA EndsAttributed ==
  ASSUME CInv(Late), Attributed, UNCHANGED <<store, calls>>, op' = "none", lost' = lost + 1,
         NEW c, c.call = calls, c2s' \in {c2s, Append(c2s, c)}, op # "none"
  PROVE  Attributed'
<1>1. lost' # 0 /\ c2s \in Seq(Commands)
  BY Numbers DEF CInv, Types
<1>2. \A i \in DOMAIN c2s' : (i \in DOMAIN c2s /\ c2s'[i] = c2s[i]) \/ c2s'[i] = c
  <2>1. CASE c2s' = Append(c2s, c)
    BY <1>1, <2>1
  <2>. QED
    BY <2>1
<1>3. calls >= 1
  BY DEF Attributed
<1>. QED
  BY <1>1, <1>2, <1>3 DEF Attributed

LEMMA SendsAttributed ==
  ASSUME CInv(Late), Wired, Lagging, Attributed, UNCHANGED serverVars, SendCommand(Verb, Turn)
  PROVE  Attributed'
<1>. DEFINE c == Command(Verb, Turn, TRUE)
<1>1. /\ UNCHANGED <<op, calls, lost, srv, store>> /\ ~reading /\ c2s' = Append(c2s, c)
      /\ c2s \in Seq(Commands) /\ op # "none" /\ c.call = calls /\ c.by = op
  BY DEF SendCommand, Sends, serverVars, Command, CInv, Types, Placed
<1>. HIDE DEF c
<1>2. \A i \in DOMAIN c2s' : (i \in DOMAIN c2s /\ c2s'[i] = c2s[i]) \/ c2s'[i] = c
  BY <1>1
<1>3. NoneWhole
  BY <1>1, NoneWholeBetween
<1>. QED
  BY <1>1, <1>2, <1>3 DEF Attributed, NoneWhole

LEMMA RecvAttributed ==
  ASSUME CInv(Late), Wired, Lagging, Attributed, UNCHANGED serverVars, RecvChunk
  PROVE  Attributed'
<1>1. PICK chunk \in Chunks :
        \/ Keeps(chunk)
        \/ /\ Complete(buffer \o chunk) /\ Takes(chunk, ReplyIn(buffer \o chunk))
           /\ \/ \E code : Proceed(NextStep(step), code)
              \/ \E kind, code : Return(kind, code)
        \/ Rejects(chunk)
  BY DEF RecvChunk
<1>2. reading /\ op # "none" /\ UNCHANGED <<srv, store>>
  BY DEF RecvChunk, CInv, Placed, serverVars
<1>3. CASE Keeps(chunk)
  <2>1. UNCHANGED <<op, calls, lost, c2s>>
    BY <1>3 DEF Keeps, histVars
  <2>. QED
    BY <1>2, <2>1, KeepsAttributed
<1>4. CASE Rejects(chunk)
  <2>. DEFINE c == [call |-> calls]
  <2>1. c.call = calls /\ op' = "none" /\ lost' = lost + 1 /\ UNCHANGED <<calls, c2s>>
    BY <1>4 DEF Rejects, GiveUp, Return
  <2>. HIDE DEF c
  <2>. QED
    BY <1>2, <2>1, EndsAttributed
<1>5. CASE /\ Complete(buffer \o chunk) /\ Takes(chunk, ReplyIn(buffer \o chunk))
           /\ \/ \E code : Proceed(NextStep(step), code)
              \/ \E kind, code : Return(kind, code)
  <2>1. UNCHANGED <<calls, lost, c2s>> /\ op' \in {op, "none"}
    BY <1>5 DEF Takes, Proceed, Return
  <2>2. Unread # <<>>
    BY <1>5, CodeRead
  <2>3. NoneWhole'
    BY <1>2, <2>1, <2>2, NoneWholeBetween, NoneWholeStays
  <2>. QED
    BY <1>2, <2>1, <2>3, KeepsAttributed
<1>. QED
  BY <1>1, <1>3, <1>4, <1>5

LEMMA ContinuesAttributed ==
  ASSUME CInv(Late), Wired, Lagging, Attributed, UNCHANGED serverVars, Continues \/ RecvFails
  PROVE  Attributed'
<1>1. CASE Unresolved \/ SendRefused
  <2>1. ~reading
    BY <1>1 DEF Unresolved, SendRefused, Sends, CInv, Placed
  <2>2. UNCHANGED <<calls, c2s, lost, store, srv>> /\ op' = "none"
    BY <1>1 DEF Unresolved, SendRefused, Return, histVars, wire, serverVars
  <2>3. NoneWhole'
    BY <2>1, <2>2, NoneWholeBetween, NoneWholeStays
  <2>. QED
    BY <2>2, <2>3, KeepsAttributed
<1>2. CASE UpgradeFails \/ RecvTimeout \/ ClosedAtOtherEnd \/ RecvFails \/ SendFails(Verb, Turn)
  <2>. DEFINE c == Command(Verb, Turn, FALSE)
  <2>1. c.call = calls
    BY CommandCall
  <2>2. c2s' \in {c2s, Append(c2s, c)} /\ store' = store
    BY <1>2 DEF UpgradeFails, RecvTimeout, ClosedAtOtherEnd, RecvClosed, RecvFails, SendFails,
       wire, serverVars
  <2>. HIDE DEF c
  <2>3. \E kind : GiveUp(kind)
    BY <1>2 DEF UpgradeFails, RecvTimeout, ClosedAtOtherEnd, RecvClosed, RecvFails, SendFails
  <2>4. op' = "none" /\ lost' = lost + 1 /\ calls' = calls
    BY <2>3 DEF GiveUp, Return
  <2>5. op # "none"
    BY <1>2 DEF UpgradeFails, RecvTimeout, ClosedAtOtherEnd, RecvClosed, RecvFails, SendFails,
       Sends, CInv, Placed
  <2>. QED
    BY <2>1, <2>2, <2>4, <2>5, EndsAttributed
<1>. QED
  BY <1>1, <1>2, SendsAttributed, RecvAttributed DEF Continues

LEMMA CallsAttributed ==
  ASSUME CInv(Late), Wired, Lagging, Honest, Attributed, UNCHANGED serverVars,
         \/ \E m \in Methods : Call(m)
         \/ \E e \in Endpoints : Connect(e) \/ ConnectWrongScheme(e)
         \/ Close
  PROVE  Attributed'
<1>1. /\ UNCHANGED <<c2s, srv, store, lost>> /\ calls' = calls + 1 /\ ~reading /\ calls \in Nat
  BY DEF Call, Close, Connect, ConnectTo, Begin, ConnectWrongScheme, RefuseScheme, Answers, callVars,
     histVars, wire, serverVars, CInv, Placed, Types, Counts
<1>2. NoneWhole'
  BY <1>1, NoneWholeBetween, NoneWholeStays
<1>3. \A d \in store : d.body # calls + 1
  BY <1>1 DEF Honest, Numbered
<1>4. \A i \in DOMAIN c2s : c2s[i].call # calls + 1
  BY <1>1 DEF Honest, Numbered
<1>5. calls' >= 1
  BY <1>1
<1>. QED
  BY <1>1, <1>2, <1>3, <1>4, <1>5 DEF Attributed, NoneWhole

LEMMA ServerAttributed ==
  ASSUME CInv(Late), Attributed, UNCHANGED clientVars, Serves \/ Leaves PROVE Attributed'
<1>1. UNCHANGED <<op, calls, lost>>
  BY DEF clientVars, callVars, histVars
<1>2. c2s # <<>> => 1 \in DOMAIN c2s /\ Head(c2s) = c2s[1]
  BY DEF CInv, Types
<1>3. srv.open /\ \A d \in store' :
        d \in store \/ (c2s # <<>> /\ d.body = Head(c2s).call /\ d.by = Head(c2s).by)
  BY ServerStores
<1>4. op # "none" => \A d \in store' : d.body = calls => d.by = op
  BY <1>2, <1>3 DEF Attributed
<1>. QED
  BY <1>1, <1>3, <1>4, ServerTakesFrom DEF Attributed

LEMMA NextAttributed ==
  ASSUME CInv(Late), Wired, Lagging, Honest, Strays, Attributed, [Next]_vars PROVE Attributed'
<1>1. CASE Dials \/ DialFailed \/ Closes
  <2>1. store' = store /\ c2s' = <<>> /\ (op' = "none" \/ (op' = op /\ calls' = calls))
    BY <1>1, Leaving
  <2>. QED
    BY <2>1 DEF Attributed
<1>2. CASE Upgrades
  <2>1. UNCHANGED <<store, c2s, calls, lost>> /\ ~reading /\ op' \in {op, "none"} /\ srv.open
    BY <1>2 DEF Upgrades, UpgradesTo, UpgradeSucceeds, Proceed, Return, histVars, wire, CInv, Placed
  <2>2. NoneWhole'
    BY <2>1, NoneWholeBetween, NoneWholeStays
  <2>. QED
    BY <2>1, <2>2, KeepsAttributed
<1>3. CASE ClientStep
  BY <1>3, ContinuesAttributed, CallsAttributed DEF ClientStep, Continues
<1>4. CASE ServerStep
  BY <1>4, ServerAttributed DEF ServerStep
<1>5. CASE UNCHANGED vars
  <2>1. UNCHANGED <<op, calls, lost, c2s, srv, store>>
    BY <1>5 DEF vars, mailVars, clientVars, callVars, histVars, wire, serverVars
  <2>. QED
    BY <2>1, KeepsAttributed
<1>6. CASE TakesLate
  <2>1. UNCHANGED <<op, calls, lost, c2s, srv>> /\ \E m \in adrift : store' = store \cup {m}
    BY <1>6 DEF TakesLate, clientVars, callVars, histVars, wire
  <2>2. \A m \in adrift : m.body # calls
    BY DEF Strays, CInv, Types, Counts
  <2>. QED
    BY <2>1, <2>2 DEF Attributed
<1>. QED
  BY <1>1, <1>2, <1>3, <1>4, <1>5, <1>6 DEF Next, Departs

LEMMA InitAttributed == ASSUME Init PROVE Attributed
<1>1. op = "none" /\ c2s = <<>>
  BY DEF Init, SessionInit, ClientInit
<1>. QED
  BY <1>1 DEF Attributed
-----------------------------------------------------------------------------
\* The mails a server has taken.
Mailed == {d.body : d \in {m \in store : m.by = "sendMail"}}

LEMMA MailedMeans == ASSUME NEW n PROVE n \in Mailed <=> \E d \in store : d.by = "sendMail" /\ d.body = n
BY DEF Mailed

LEMMA SameMailed == ASSUME store' = store PROVE Mailed' = Mailed
BY DEF Mailed

\* The mails that were sent and may yet be taken: adrift, or on the connection.
Travelling == SentBySendMail(adrift \cup LeftBehind)

Adrift(n) == \E m \in adrift : m.by = "sendMail" /\ m.body = n
Afloat(n) ==
  /\ srv.open /\ srv.work.mode = "data"
  /\ \E i \in DOMAIN c2s : /\ c2s[i].whole /\ c2s[i].verb = "dataBody"
                           /\ c2s[i].by = "sendMail" /\ c2s[i].call = n

LEMMA TravelMeans == ASSUME NEW n PROVE n \in Travelling <=> Adrift(n) \/ Afloat(n)
<1>1. n \in Travelling <=> \E m \in adrift \cup LeftBehind : m.by = "sendMail" /\ m.body = n
  BY DEF Travelling, SentBySendMail
<1>2. (\E m \in LeftBehind : m.by = "sendMail" /\ m.body = n) <=> Afloat(n)
  <2>1. ASSUME NEW m \in LeftBehind, m.by = "sendMail", m.body = n PROVE Afloat(n)
    BY <2>1 DEF LeftBehind, InFlight, Mail, Afloat
  <2>2. ASSUME Afloat(n) PROVE \E m \in LeftBehind : m.by = "sendMail" /\ m.body = n
    <3>1. PICK i \in DOMAIN c2s : /\ c2s[i].whole /\ c2s[i].verb = "dataBody"
                                  /\ c2s[i].by = "sendMail" /\ c2s[i].call = n
      BY <2>2 DEF Afloat
    <3>2. srv.open /\ srv.work.mode = "data"
      BY <2>2 DEF Afloat
    <3>3. c2s[i] \in {d \in InFlight : srv.open /\ srv.work.mode = "data"
                                       /\ d.whole /\ d.verb = "dataBody"}
      BY <3>1, <3>2 DEF InFlight
    <3>4. Mail(c2s[i], srv.work) \in LeftBehind
      BY <3>3 DEF LeftBehind
    <3>5. Mail(c2s[i], srv.work).by = "sendMail" /\ Mail(c2s[i], srv.work).body = n
      BY <3>1 DEF Mail
    <3>. QED
      BY <3>4, <3>5
  <2>. QED
    BY <2>1, <2>2
<1>. QED
  BY <1>1, <1>2 DEF Adrift

LEMMA TravelMeansNext == ASSUME NEW n PROVE n \in Travelling' <=> Adrift(n)' \/ Afloat(n)'
<1>1. n \in Travelling' <=> \E m \in adrift' \cup LeftBehind' : m.by = "sendMail" /\ m.body = n
  BY DEF Travelling, SentBySendMail
<1>2. (\E m \in LeftBehind' : m.by = "sendMail" /\ m.body = n) <=> Afloat(n)'
  <2>1. ASSUME NEW m \in LeftBehind', m.by = "sendMail", m.body = n PROVE Afloat(n)'
    BY <2>1 DEF LeftBehind, InFlight, Mail, Afloat
  <2>2. ASSUME Afloat(n)' PROVE \E m \in LeftBehind' : m.by = "sendMail" /\ m.body = n
    <3>1. PICK i \in DOMAIN c2s' : /\ c2s'[i].whole /\ c2s'[i].verb = "dataBody"
                                   /\ c2s'[i].by = "sendMail" /\ c2s'[i].call = n
      BY <2>2 DEF Afloat
    <3>2. srv'.open /\ srv'.work.mode = "data"
      BY <2>2 DEF Afloat
    <3>3. c2s'[i] \in {d \in InFlight' : srv'.open /\ srv'.work.mode = "data"
                                         /\ d.whole /\ d.verb = "dataBody"}
      BY <3>1, <3>2 DEF InFlight
    <3>4. Mail(c2s'[i], srv'.work) \in LeftBehind'
      BY <3>3 DEF LeftBehind
    <3>5. Mail(c2s'[i], srv'.work).by = "sendMail" /\ Mail(c2s'[i], srv'.work).body = n
      BY <3>1 DEF Mail
    <3>. QED
      BY <3>4, <3>5
  <2>. QED
    BY <2>1, <2>2
<1>. QED
  BY <1>1, <1>2 DEF Adrift

LEMMA SameTravelling == ASSUME UNCHANGED <<adrift, srv, c2s>> PROVE Travelling' = Travelling
<1>1. \A n : n \in Travelling' <=> n \in Travelling
  <2>1. ASSUME NEW n PROVE (Adrift(n)' <=> Adrift(n)) /\ (Afloat(n)' <=> Afloat(n))
    BY DEF Adrift, Afloat
  <2>. QED
    BY <2>1, TravelMeans, TravelMeansNext
<1>. QED
  BY <1>1

\* What the client left may still be taken, and nothing of the new connection.
LEMMA LeavingTravels == ASSUME Departs, c2s' = <<>> PROVE Travelling' = Travelling
<1>1. LeftBehind' = {}
  BY DEF LeftBehind, InFlight
<1>2. adrift' \cup LeftBehind' = adrift \cup LeftBehind
  BY <1>1 DEF Departs
<1>. QED
  BY <1>2 DEF Travelling, SentBySendMail

LEMMA SameSays == ASSUME result' = result PROVE Says' = Says
BY DEF Says

\* A call that is no sendMail begins, goes on or ends.
LEMMA OtherwiseSubmits ==
  ASSUME CInv(Late), store' = store, Travelling' = Travelling, op # "sendMail", op' # "sendMail",
         calls' \in {calls, calls + 1}, result' = result \/ result'.of # "sendMail"
  PROVE  Mails!Next
<1>1. Says' \in {Says, "none"}
  BY SameSays DEF Says
<1>2. Mailed' = Mailed
  BY SameMailed
<1>. QED
  BY <1>1, <1>2 DEF Mails!Next, Mails!Otherwise, Mailed, Travelling, SentBySendMail

\* A sendMail returns.
LEMMA ReturnsSubmits ==
  ASSUME CInv(Late), store' = store, Travelling' = Travelling,
         op = "sendMail", op' = "none", calls' = calls,
         result'.of = "sendMail", lost' = lost \/ (lost' = lost + 1 /\ result'.kind # "reply"),
         lost = 0 /\ result'.kind = "reply" =>
           (result'.code \in 200..299 <=> calls \in Mailed) /\ calls \notin Travelling
  PROVE  Mails!Next
<1>1. Says' \in {"accepted", "refused", "unknown"}
      /\ (Says' = "unknown" <=> result'.kind # "reply")
      /\ (result'.kind = "reply" => (Says' = "accepted" <=> result'.code \in 200..299))
  BY DEF Says
<1>2. lost' = 0 => lost = 0
  BY Numbers
<1>3. Mailed' = Mailed
  BY SameMailed
<1>4. Mails!Answers(Says')
  BY <1>1, <1>2, <1>3 DEF Mails!Answers, Mailed, Travelling, SentBySendMail
<1>. QED
  BY <1>1, <1>4 DEF Mails!Next

\* A step of the server with the mails that travel: none new, and of those of
\* this connection at most one is gone.
LEMMA ServerTravels ==
  ASSUME CInv(Late), Bodied, UNCHANGED adrift, Serves \/ Leaves
  PROVE  Travelling' = Travelling \/ \E n \in Travelling : Afloat(n) /\ Travelling' = Travelling \ {n}
<1>1. \A i \in DOMAIN c2s' : \E j \in DOMAIN c2s : c2s'[i] = c2s[j]
  BY ServerTakesFrom
<1>2. srv.open
  BY ServerStores
<1>3. ASSUME NEW n, Afloat(n)' PROVE Afloat(n)
  <2>1. PICK i \in DOMAIN c2s' : /\ c2s'[i].whole /\ c2s'[i].verb = "dataBody"
                                 /\ c2s'[i].by = "sendMail" /\ c2s'[i].call = n
    BY <1>3 DEF Afloat
  <2>2. PICK j \in DOMAIN c2s : c2s'[i] = c2s[j]
    BY <1>1
  <2>3. ~NoBody
    BY <2>1, <2>2 DEF NoBody
  <2>4. srv.work.mode = "data"
    BY <1>2, <2>3 DEF Bodied, Commanded
  <2>. QED
    BY <1>2, <2>1, <2>2, <2>4 DEF Afloat
<1>4. ASSUME NEW n, NEW k, Afloat(n), Afloat(k) PROVE n = k
  <2>1. OneBody
    BY <1>2, <1>4 DEF Bodied, InData, Afloat
  <2>. QED
    BY <1>4, <2>1 DEF Afloat, OneBody
<1>5. \A n : Adrift(n)' <=> Adrift(n)
  BY DEF Adrift
<1>6. \A n : n \in Travelling' => n \in Travelling
  BY <1>3, <1>5, TravelMeans, TravelMeansNext
<1>7. \A n : n \in Travelling /\ n \notin Travelling' => Afloat(n)
  BY <1>5, TravelMeans, TravelMeansNext
<1>8. CASE \A n : n \in Travelling => n \in Travelling'
  <2>1. Travelling' = Travelling
    BY <1>6, <1>8
  <2>. QED
    BY <2>1
<1>9. CASE \E n : n \in Travelling /\ n \notin Travelling'
  <2>1. PICK n : n \in Travelling /\ n \notin Travelling'
    BY <1>9
  <2>2. \A k : k \in Travelling /\ k \notin Travelling' => k = n
    BY <1>4, <1>7, <2>1
  <2>3. Travelling' = Travelling \ {n}
    BY <1>6, <2>1, <2>2
  <2>. QED
    BY <1>7, <2>1, <2>3
<1>. QED
  BY <1>8, <1>9

\* A mail is stored when its text ends.
LEMMA StoredAtEnd ==
  ASSUME Wired, Bodied, Serves \/ Leaves, store' # store PROVE srv'.work.mode = "command"
<1>1. TakesBody(Head(c2s), srv.work) /\ srv.open
  <2>1. ~(Greets \/ Shutdown \/ Crash \/ AbortsHandshake \/ JoinsPartials \/ HandlesPartial)
    BY DEF Greets, Shutdown, Crash, AbortsHandshake, JoinsPartials, HandlesPartial, Refuses, Accepts,
       serverVars
  <2>2. Handles
    BY <2>1 DEF Serves, Leaves
  <2>. QED
    BY <2>2 DEF Handles, Reads, Refuses, AcceptsCommand, AcceptsCredential, Accepts, serverVars
<1>2. srv'.work = NoMail(srv.work)
  BY <1>1, WorkingWork DEF TakesBody
<1>. QED
  BY <1>1, <1>2 DEF Bodied, NoMail

\* The server takes a mail that was sent to it, loses one, or neither.
LEMMA ServerSubmits ==
  ASSUME CInv(Late), Wired, Bodied, Strays, UNCHANGED <<clientVars, adrift>>, Serves \/ Leaves
  PROVE  Mails!Next \/ UNCHANGED Mails!vars
<1>1. UNCHANGED <<op, calls, lost, result>> /\ Says' = Says
  BY SameSays DEF clientVars, callVars, histVars
<1>2. CASE Mailed' = Mailed
  <2>1. CASE Travelling' = Travelling
    BY <1>1, <1>2, <2>1 DEF Mails!vars, Mailed, Travelling, SentBySendMail
  <2>2. ASSUME NEW n \in Travelling, Travelling' = Travelling \ {n} PROVE Mails!Next
    <3>1. Mails!Lose
      BY <1>1, <1>2, <2>2 DEF Mails!Lose, Mailed, Travelling, SentBySendMail
    <3>. QED
      BY <3>1 DEF Mails!Next
  <2>. QED
    BY <2>1, <2>2, ServerTravels
<1>3. ASSUME NEW d, store' = store \cup {d}, c2s # <<>>, d.body = Head(c2s).call,
             d.by = Head(c2s).by, Head(c2s).whole, Head(c2s).verb = "dataBody", srv.open,
             Mailed' # Mailed
      PROVE  Mails!Next
  <2>. PICK n : n = Head(c2s).call
    OBVIOUS
  <2>1. 1 \in DOMAIN c2s /\ Head(c2s) = c2s[1] /\ c2s[1] \in Commands
    BY <1>3 DEF CInv, Types
  <2>2. d.by = "sendMail" /\ n \notin Mailed /\ Mailed' = Mailed \cup {n}
    BY <1>3 DEF Mailed
  <2>3. srv.work.mode = "data"
    BY <1>3, <2>1 DEF Bodied, Commanded, NoBody
  <2>4. Afloat(n)
    BY <1>3, <2>1, <2>2, <2>3 DEF Afloat
  <2>5. ~Adrift(n)
    <3>1. \A m \in adrift : m.body \in Nat /\ m.body < c2s[1].call
      BY <2>1 DEF Strays
    <3>2. c2s[1].call \in Nat
      BY <2>1 DEF Commands
    <3>3. \A m \in adrift : m.body # n
      BY <2>1, <3>1, <3>2
    <3>. QED
      BY <3>3 DEF Adrift
  <2>6. n \in Travelling
    BY <2>4, TravelMeans
  <2>7. ~Afloat(n)'
    <3>1. srv'.work.mode = "command"
      BY <1>3, SameMailed, StoredAtEnd
    <3>. QED
      BY <3>1 DEF Afloat
  <2>8. n \notin Travelling'
    <3>1. ~Adrift(n)'
      BY <2>5 DEF Adrift
    <3>. QED
      BY <2>7, <3>1, TravelMeansNext
  <2>9. Travelling' = Travelling \ {n}
    BY <2>6, <2>8, ServerTravels
  <2>10. n \in Travelling \ Mailed
    BY <2>2, <2>6
  <2>11. Mails!Accept
    BY <1>1, <2>2, <2>9, <2>10 DEF Mails!Accept, Mailed, Travelling, SentBySendMail
  <2>. QED
    BY <2>11 DEF Mails!Next
<1>. QED
  BY <1>2, <1>3, ServerStores, SameMailed

\* A mail adrift is taken.
LEMMA LateSubmits ==
  ASSUME CInv(Late), Bodied, Strays, TakesLate PROVE Mails!Next \/ UNCHANGED Mails!vars
<1>1. UNCHANGED <<op, calls, lost, result, srv, c2s>> /\ Says' = Says
  BY SameSays DEF TakesLate, clientVars, callVars, histVars, wire
<1>2. PICK m \in adrift : store' = store \cup {m} /\ adrift' = adrift \ {m}
  BY DEF TakesLate
<1>3. \A k : Afloat(k)' <=> Afloat(k)
  BY <1>1 DEF Afloat
<1>4. CASE m.by # "sendMail"
  <2>1. Mailed' = Mailed
    BY <1>2, <1>4 DEF Mailed
  <2>2. \A k : Adrift(k)' <=> Adrift(k)
    BY <1>2, <1>4 DEF Adrift
  <2>3. Travelling' = Travelling
    <3>1. \A k : k \in Travelling' <=> k \in Travelling
      BY <1>3, <2>2, TravelMeans, TravelMeansNext
    <3>. QED
      BY <3>1
  <2>. QED
    BY <1>1, <2>1, <2>3 DEF Mails!vars, Mailed, Travelling, SentBySendMail
<1>5. CASE m.by = "sendMail"
  <2>. DEFINE n == m.body
  <2>1. Mailed' = Mailed \cup {n}
    BY <1>2, <1>5 DEF Mailed
  <2>2. Adrift(n)
    BY <1>5 DEF Adrift
  <2>3. \A k : Adrift(k)' <=> Adrift(k) /\ k # n
    BY <1>2 DEF Adrift, Strays
  <2>4. ~Afloat(n)
    <3>1. \A i \in DOMAIN c2s : c2s[i].call # n
      <4>1. \A i \in DOMAIN c2s : c2s[i] \in Commands
        BY DEF CInv, Types
      <4>2. \A i \in DOMAIN c2s : c2s[i].call \in Nat /\ n < c2s[i].call /\ n \in Nat
        BY <4>1 DEF Strays, Commands
      <4>3. \A x, y \in Nat : x < y => y # x
        OBVIOUS
      <4>. QED
        BY <4>2, <4>3
    <3>. QED
      BY <3>1 DEF Afloat
  <2>. HIDE DEF n
  <2>5. Travelling' = Travelling \ {n}
    <3>1. \A k : k \in Travelling' <=> k \in Travelling /\ k # n
      BY <1>3, <2>3, <2>4, TravelMeans, TravelMeansNext
    <3>. QED
      BY <3>1
  <2>6. n \in Travelling
    BY <2>2, TravelMeans
  <2>7. CASE n \in Mailed
    <3>1. Mailed' = Mailed
      BY <2>1, <2>7
    <3>2. Mails!Lose
      BY <1>1, <2>5, <2>6, <3>1 DEF Mails!Lose, Mailed, Travelling, SentBySendMail
    <3>. QED
      BY <3>2 DEF Mails!Next
  <2>8. CASE n \notin Mailed
    <3>1. n \in Travelling \ Mailed
      BY <2>6, <2>8
    <3>2. Mails!Accept
      BY <1>1, <2>1, <2>5, <3>1 DEF Mails!Accept, Mailed, Travelling, SentBySendMail
    <3>. QED
      BY <3>2 DEF Mails!Next
  <2>. QED
    BY <2>7, <2>8
<1>. QED
  BY <1>4, <1>5

\* The method that runs goes on, or returns.
LEMMA GoesOnOrReturns ==
  ASSUME Continues \/ RecvFails
  PROVE  /\ calls' = calls
         /\ \/ UNCHANGED <<op, result, lost>>
            \/ /\ op' = "none" /\ result'.of = op /\ result'.call = calls
               /\ lost' = lost \/ (lost' = lost + 1 /\ result'.kind # "reply")
<1>1. ASSUME NEW kind, kind # "reply", GiveUp(kind)
      PROVE  /\ calls' = calls /\ op' = "none" /\ result'.of = op /\ result'.call = calls
             /\ lost' = lost + 1 /\ result'.kind # "reply"
  BY <1>1 DEF GiveUp, Return
<1>2. CASE \E kind : kind # "reply" /\ GiveUp(kind)
  BY <1>1, <1>2
<1>3. CASE SendCommand(Verb, Turn)
  BY <1>3 DEF SendCommand
<1>4. CASE Unresolved \/ SendRefused
  BY <1>4 DEF Unresolved, SendRefused, Return, histVars
<1>5. CASE RecvChunk
  <2>1. PICK chunk \in Chunks :
          \/ Keeps(chunk)
          \/ /\ Takes(chunk, ReplyIn(buffer \o chunk))
             /\ \/ \E code : Proceed(NextStep(step), code)
                \/ \E kind, code : Return(kind, code)
          \/ Rejects(chunk)
    BY <1>5 DEF RecvChunk
  <2>. QED
    BY <1>2, <2>1 DEF Keeps, Takes, Rejects, Proceed, Return, histVars
<1>6. CASE UpgradeFails \/ RecvTimeout \/ ClosedAtOtherEnd \/ RecvFails \/ SendFails(Verb, Turn)
  BY <1>2, <1>6 DEF UpgradeFails, RecvTimeout, ClosedAtOtherEnd, RecvClosed, RecvFails, SendFails
<1>. QED
  BY <1>3, <1>4, <1>5, <1>6 DEF Continues

LEMMA OthersTravel ==
  ASSUME CInv(Late), Continues \/ RecvFails, UNCHANGED <<serverVars, adrift>>,
         ~SendCommand(Verb, Turn)
  PROVE  Travelling' = Travelling
<1>1. CASE c2s' = c2s
  BY <1>1, SameTravelling DEF serverVars
<1>2. CASE SendFails(Verb, Turn)
  <2>. DEFINE c == Command(Verb, Turn, FALSE)
  <2>1. ~c.whole /\ c2s \in Seq(Commands)
    BY DEF Command, CInv, Types
  <2>2. c2s' \in {c2s, Append(c2s, c)} /\ UNCHANGED <<srv, adrift>>
    BY <1>2 DEF SendFails, serverVars
  <2>. HIDE DEF c
  <2>3. CASE c2s' = Append(c2s, c)
    <3>1. /\ \A i \in DOMAIN c2s' : c2s'[i] = c \/ (i \in DOMAIN c2s /\ c2s'[i] = c2s[i])
          /\ \A i \in DOMAIN c2s : i \in DOMAIN c2s' /\ c2s'[i] = c2s[i]
      BY <2>1, <2>3
    <3>2. \A n : (Afloat(n)' <=> Afloat(n)) /\ (Adrift(n)' <=> Adrift(n))
      BY <2>1, <2>2, <3>1 DEF Afloat, Adrift
    <3>3. \A n : n \in Travelling' <=> n \in Travelling
      BY <3>2, TravelMeans, TravelMeansNext
    <3>. QED
      BY <3>3
  <2>. QED
    BY <1>1, <2>2, <2>3
<1>. QED
  BY <1>1, <1>2
     DEF Continues, Unresolved, UpgradeFails, SendRefused, RecvChunk, Keeps, Takes, Rejects,
         RecvTimeout, ClosedAtOtherEnd, RecvClosed, RecvFails, wire

\* The mail is sent with its text, if the server still waits for it.
LEMMA SendsSubmits ==
  ASSUME CInv(Late), Honest, Strays, UNCHANGED <<serverVars, adrift>>, SendCommand(Verb, Turn)
  PROVE  Mails!Next \/ UNCHANGED Mails!vars
<1>. DEFINE c == Command(Verb, Turn, TRUE)
<1>1. /\ c2s \in Seq(Commands) /\ calls \in Nat /\ c2s' = Append(c2s, c) /\ ~reading
      /\ UNCHANGED <<op, calls, lost, result, srv, store, adrift>>
  BY DEF SendCommand, Sends, CInv, Types, Counts, serverVars
<1>2. c.whole /\ c.verb = Verb /\ c.by = op /\ c.call = calls
  BY DEF Command
<1>. HIDE DEF c
<1>3. /\ \A i \in DOMAIN c2s' : c2s'[i] = c \/ (i \in DOMAIN c2s /\ c2s'[i] = c2s[i])
      /\ \A i \in DOMAIN c2s : i \in DOMAIN c2s' /\ c2s'[i] = c2s[i]
      /\ Len(c2s) + 1 \in DOMAIN c2s' /\ c2s'[Len(c2s) + 1] = c
  BY <1>1
<1>4. Says' = Says /\ Mailed' = Mailed /\ \A n : Adrift(n)' <=> Adrift(n)
  BY <1>1, SameSays, SameMailed DEF Adrift
<1>5. CASE srv.open /\ srv.work.mode = "data" /\ Verb = "dataBody" /\ op = "sendMail"
  <2>1. \A n : Afloat(n)' <=> Afloat(n) \/ n = calls
    BY <1>1, <1>2, <1>3, <1>5 DEF Afloat
  <2>2. Travelling' = Travelling \cup {calls}
    <3>1. \A n : n \in Travelling' <=> n \in Travelling \/ n = calls
      BY <1>4, <2>1, TravelMeans, TravelMeansNext
    <3>. QED
      BY <3>1
  <2>3. ~Taken(calls) /\ ~Out(calls)
    BY <1>1, <1>5 DEF Honest, Composing
  <2>4. calls \notin Travelling
    <3>1. ~Adrift(calls)
      BY <1>1 DEF Adrift, Strays
    <3>2. ~Afloat(calls)
      BY <2>3 DEF Afloat, Out
    <3>. QED
      BY <3>1, <3>2, TravelMeans
  <2>5. calls \notin Mailed
    BY <2>3 DEF Taken, Mailed
  <2>6. Mails!Send
    BY <1>1, <1>4, <1>5, <2>2, <2>4, <2>5 DEF Mails!Send, Mailed, Travelling, SentBySendMail
  <2>. QED
    BY <2>6 DEF Mails!Next
<1>6. CASE ~(srv.open /\ srv.work.mode = "data" /\ Verb = "dataBody" /\ op = "sendMail")
  <2>1. \A n : Afloat(n)' <=> Afloat(n)
    BY <1>1, <1>2, <1>3, <1>6 DEF Afloat
  <2>2. \A n : n \in Travelling' <=> n \in Travelling
    BY <1>4, <2>1, TravelMeans, TravelMeansNext
  <2>3. Travelling' = Travelling
    BY <2>2
  <2>. QED
    BY <1>1, <1>4, <2>3 DEF Mails!vars, Mailed, Travelling, SentBySendMail
<1>. QED
  BY <1>5, <1>6

LEMMA ContinuesSubmits ==
  ASSUME CInv(Late), Honest, Honest', Strays, Attributed, UNCHANGED <<serverVars, adrift>>,
         op # "none", Continues \/ RecvFails
  PROVE  Mails!Next \/ UNCHANGED Mails!vars
<1>1. /\ store' = store /\ srv' = srv /\ calls' = calls /\ calls \in Nat
      /\ \/ UNCHANGED <<op, result, lost>>
         \/ /\ op' = "none" /\ result'.of = op /\ result'.call = calls
            /\ lost' = lost \/ (lost' = lost + 1 /\ result'.kind # "reply")
  BY GoesOnOrReturns DEF serverVars, CInv, Types, Counts
<1>2. CASE SendCommand(Verb, Turn)
  BY <1>2, SendsSubmits
<1>3. CASE ~SendCommand(Verb, Turn)
  <2>1. Travelling' = Travelling
    BY <1>3, OthersTravel
  <2>2. CASE UNCHANGED <<op, result, lost>>
    BY <1>1, <2>1, <2>2, SameSays, SameMailed DEF Mails!vars, Mailed, Travelling, SentBySendMail
  <2>3. CASE op # "sendMail" /\ op' = "none" /\ result'.of = op
    BY <1>1, <2>1, <2>3, OtherwiseSubmits
  <2>4. CASE op = "sendMail" /\ op' = "none" /\ result'.of = op /\ result'.call = calls
             /\ (lost' = lost \/ (lost' = lost + 1 /\ result'.kind # "reply"))
    <3>1. ASSUME lost = 0, result'.kind = "reply"
          PROVE  (result'.code \in 200..299 <=> calls \in Mailed) /\ calls \notin Travelling
      <4>1. /\ result'.code \in 200..299 <=> \E d \in store : d.body = calls
            /\ ~Out(calls)'
        BY <1>1, <2>4, <3>1 DEF Honest, Told, Taken, Out
      <4>2. \A d \in store : d.body = calls => d.by = "sendMail"
        BY <2>4 DEF Attributed
      <4>. PICK k : k = calls
        OBVIOUS
      <4>3. ~Adrift(k)' /\ ~Afloat(k)'
        BY <1>1, <4>1 DEF Adrift, Strays, Afloat, Out
      <4>4. calls \notin Travelling'
        BY <4>3, TravelMeansNext
      <4>. QED
        BY <2>1, <4>1, <4>2, <4>4, MailedMeans
    <3>. QED
      BY <1>1, <2>1, <2>4, <3>1, ReturnsSubmits
  <2>. QED
    BY <1>1, <2>2, <2>3, <2>4
<1>. QED
  BY <1>2, <1>3

LEMMA CallsSubmits ==
  ASSUME CInv(Late), UNCHANGED <<serverVars, adrift>>,
         \/ \E m \in Methods : Call(m)
         \/ \E e \in Endpoints : Connect(e) \/ ConnectWrongScheme(e)
         \/ Close
  PROVE  Mails!Next
<1>1. /\ op = "none" /\ calls' = calls + 1 /\ store' = store /\ lost' = lost
      /\ UNCHANGED <<srv, c2s, adrift>>
  BY DEF Call, Close, Connect, ConnectTo, Begin, ConnectWrongScheme, RefuseScheme, Answers, callVars,
     histVars, wire, serverVars
<1>2. Travelling' = Travelling
  BY <1>1, SameTravelling
<1>3. CASE op' # "sendMail"
  <2>1. result' = result \/ result'.of # "sendMail"
    BY DEF Call, Close, Connect, ConnectTo, Begin, ConnectWrongScheme, RefuseScheme, Answers
  <2>. QED
    BY <1>1, <1>2, <1>3, <2>1, OtherwiseSubmits
<1>4. CASE op' = "sendMail"
  <2>1. result' = result
    BY <1>1, <1>4 DEF Call, Close, Connect, ConnectTo, Begin, ConnectWrongScheme, RefuseScheme,
       Answers, callVars
  <2>2. Says' = Says /\ Mailed' = Mailed
    BY <1>1, <2>1, SameSays, SameMailed
  <2>3. Mails!Submit
    BY <1>1, <1>2, <1>4, <2>2 DEF Mails!Submit, Mailed, Travelling, SentBySendMail
  <2>. QED
    BY <2>3 DEF Mails!Next
<1>. QED
  BY <1>3, <1>4

LEMMA NextSubmits ==
  ASSUME CInv(Late), Wired, Bodied, Lagging, Honest, Honest', Strays, Attributed, [Next]_vars
  PROVE  Mails!Next \/ UNCHANGED Mails!vars
<1>1. CASE Departs
  <2>1. /\ c2s' = <<>> /\ UNCHANGED <<calls, store>> /\ op \in {"connect", "close"}
        /\ op' \in {op, "none"} /\ (result' = result \/ result'.of = op)
    BY <1>1, Leaving DEF Departs
  <2>2. op # "sendMail" /\ op' # "sendMail" /\ (result' = result \/ result'.of # "sendMail")
    BY <2>1
  <2>3. Travelling' = Travelling
    BY <1>1, <2>1, LeavingTravels
  <2>. QED
    BY <2>1, <2>2, <2>3, OtherwiseSubmits
<1>2. CASE Upgrades
  <2>1. /\ store' = store /\ calls' = calls /\ step = "upgrade" /\ UNCHANGED <<c2s, adrift>>
        /\ Proceed(NextStep("upgrade"), LastCode) /\ srv.open /\ srv.tls = "await"
        /\ srv' = Secured(srv, NewWork)
    BY <1>2 DEF Upgrades, UpgradesTo, UpgradeSucceeds, histVars, wire
  <2>2. op # "sendMail"
    BY <2>1 DEF Honest, Composing
  <2>3. op' \in {op, "none"} /\ (result' = result \/ result'.of = op)
    BY <2>1 DEF Proceed, Return
  <2>4. Travelling' = Travelling
    <3>1. NoBody
      BY <2>1 DEF Bodied, InData, Commanded
    <3>2. \A n : ~Afloat(n) /\ ~Afloat(n)' /\ (Adrift(n)' <=> Adrift(n))
      BY <2>1, <3>1 DEF Afloat, NoBody, Adrift
    <3>3. \A n : n \in Travelling' <=> n \in Travelling
      BY <3>2, TravelMeans, TravelMeansNext
    <3>. QED
      BY <3>3
  <2>. QED
    BY <2>1, <2>2, <2>3, <2>4, OtherwiseSubmits
<1>3. CASE ClientStep
  <2>1. UNCHANGED <<serverVars, adrift>>
    BY <1>3 DEF ClientStep, Continues
  <2>2. CASE Continues \/ RecvFails
    <3>1. op # "none"
      BY <2>2 DEF Continues, Unresolved, UpgradeFails, SendCommand, SendFails, SendRefused, Sends,
         RecvChunk, RecvTimeout, ClosedAtOtherEnd, RecvClosed, RecvFails, CInv, Placed
    <3>. QED
      BY <2>1, <2>2, <3>1, ContinuesSubmits
  <2>. QED
    BY <1>3, <2>1, <2>2, CallsSubmits DEF ClientStep
<1>4. CASE ServerStep
  BY <1>4, ServerSubmits DEF ServerStep
<1>5. CASE UNCHANGED vars
  <2>1. UNCHANGED <<op, result, lost, calls, store, srv, c2s, adrift>>
    BY <1>5 DEF vars, mailVars, clientVars, callVars, histVars, wire, serverVars
  <2>. QED
    BY <2>1, SameSays, SameMailed, SameTravelling
       DEF Mails!vars, Mailed, Travelling, SentBySendMail
<1>. QED
  BY <1>1, <1>2, <1>3, <1>4, <1>5, LateSubmits DEF Next

LEMMA InitSubmits == ASSUME Init PROVE Mails!Init
<1>1. /\ op = "none" /\ calls = 0 /\ lost = 0 /\ store = {} /\ result.of = "none"
      /\ adrift = {} /\ c2s = <<>>
  BY DEF Init, SessionInit, ClientInit
<1>2. LeftBehind = {}
  BY <1>1 DEF LeftBehind, InFlight
<1>. QED
  BY <1>1, <1>2 DEF Mails!Init, Says, SentBySendMail

\* sendMail does what Submission promises, step by step: the mail of a call is
\* sent while the call runs, a server takes it at most once, and while nothing
\* was given up on the connection the call says whether it did and leaves
\* nothing of it on the way.  A mail that was given up may be taken at any time
\* later, after a reconnect too, and changes nothing for the calls made then.
THEOREM SmtpImplementsSubmission == Spec => ImplementsSubmission
<1>1. CInv(Late) /\ Wired /\ Bodied /\ Lagging /\ Honest /\ Strays /\ Attributed /\ [Next]_vars =>
        CInv(Late)' /\ Wired' /\ Bodied' /\ Lagging' /\ Honest' /\ Strays' /\ Attributed'
  BY NextSmtp, NextWired, NextBodied, NextLag, NextHonest, NextStrays, NextAttributed
<1>2. Init => CInv(Late) /\ Wired /\ Bodied /\ Lagging /\ Honest /\ Strays /\ Attributed
  BY InitSmtp, InitWired, InitBodied, InitLag, InitHonest, InitAttributed
<1>3. CInv(Late) /\ Wired /\ Bodied /\ Lagging /\ Honest /\ Honest' /\ Strays /\ Attributed
        /\ [Next]_vars => [Mails!Next]_Mails!vars
  BY NextSubmits
<1>4. Init => Mails!Init
  BY InitSubmits
<1>. QED
  BY <1>1, <1>2, <1>3, <1>4, PTL DEF Spec, ImplementsSubmission, Mails!Spec
-----------------------------------------------------------------------------
(* The envelope of a message.                                              *)

\* What the server has of call n: its sender and its first k recipients.
Addressed(n, k) ==
  srv.work.from = n /\ srv.work.to = [i \in 1..k |-> [mail |-> n, rcpt |-> i]]

\* The loop of sendMail over its recipients.
Looping ==
  op = "sendMail" =>
    /\ turn \in 0..arg
    /\ step = "mailFrom" => turn = 0
    /\ step = "rcptTo" => IF reading THEN turn >= 1 ELSE turn < arg
    /\ step \in {"data", "dataBody"} => turn = arg

\* No command on its way was cut short, and no recipients are left over.
AllWhole == lost = 0 => \A i \in DOMAIN c2s : c2s[i].whole
Blank    == srv.open /\ srv.work.from = 0 => srv.work.to = <<>>

\* While nothing was given up, sendMail's command is on its way, and the server
\* has what came before it; or it was answered, and if it was granted the
\* server has that too.
Asks ==
  /\ c2s # <<>>
  /\ \A i \in DOMAIN c2s : c2s[i].verb = step /\ c2s[i].call = calls /\ c2s[i].turn = turn
  /\ step # "mailFrom" => Addressed(calls, IF step = "rcptTo" THEN turn - 1 ELSE turn)
Settled ==
  /\ c2s = <<>> /\ srv.greeted
  /\ step # "dataBody" /\ Len(Unread) >= 2 /\ Unread[2].line.code \in 1..399 =>
       Addressed(calls, turn)
Building ==
  op = "sendMail" /\ lost = 0 /\ srv.open =>
    IF reading THEN Asks \/ Settled ELSE step # "mailFrom" => Addressed(calls, turn)

\* A text sent while nothing was given up is the first thing the server reads,
\* whatever is given up after it, and finds its envelope there.
OwnBody(c) == c.whole /\ c.verb = "dataBody" /\ c.by = "sendMail" /\ c.lost = 0
Carried ==
  srv.open => \A i \in DOMAIN c2s : OwnBody(c2s[i]) =>
    i = 1 /\ Addressed(c2s[i].call, c2s[i].arg)

Enveloped == Looping /\ AllWhole /\ Blank /\ Building /\ Carried /\ EnvelopeOfOneCall

\* A mail adrift took its envelope along.
Stamped ==
  \A m \in adrift : m.by = "sendMail" /\ m.lost = 0 =>
    /\ m.from = m.body
    /\ m.to = [i \in 1..m.rcpts |-> [mail |-> m.body, rcpt |-> i]]
-----------------------------------------------------------------------------
LEMMA OneMore ==
  ASSUME NEW n, NEW k \in Nat
  PROVE  Append([i \in 1..k |-> [mail |-> n, rcpt |-> i]], [mail |-> n, rcpt |-> k + 1])
           = [i \in 1..(k + 1) |-> [mail |-> n, rcpt |-> i]]
<1>. DEFINE S == {[mail |-> n, rcpt |-> i] : i \in 1..(k + 1)}
            s == [i \in 1..k |-> [mail |-> n, rcpt |-> i]]
            t == [i \in 1..(k + 1) |-> [mail |-> n, rcpt |-> i]]
            e == [mail |-> n, rcpt |-> k + 1]
<1>1. s \in Seq(S) /\ Len(s) = k /\ e \in S /\ t \in Seq(S) /\ Len(t) = k + 1
  <2>1. \A i \in 1..(k + 1) : [mail |-> n, rcpt |-> i] \in S
    OBVIOUS
  <2>2. 1..k \subseteq 1..(k + 1) /\ k + 1 \in 1..(k + 1)
    OBVIOUS
  <2>. HIDE DEF S
  <2>3. s \in [1..k -> S] /\ t \in [1..(k + 1) -> S] /\ e \in S
    BY <2>1, <2>2
  <2>. HIDE DEF s, t, e
  <2>. QED
    BY <2>3
<1>2. t[k + 1] = e /\ \A i \in 1..k : t[i] = s[i]
  OBVIOUS
<1>. HIDE DEF S, s, t, e
<1>3. /\ Append(s, e) \in Seq(S) /\ Len(Append(s, e)) = k + 1
      /\ \A i \in 1..(k + 1) : Append(s, e)[i] = t[i]
  BY <1>1, <1>2
<1>4. Append(s, e) = t
  BY <1>1, <1>3, SeqEqual
<1>. QED
  BY <1>4 DEF s, t, e

\* With nothing given up the command sendMail waits for is alone on the wire.
LEMMA AskedAlone ==
  ASSUME CInv(Late), Wired, Lagging, AllWhole, lost = 0, srv.open, c2s # <<>>
  PROVE  /\ reading /\ srv.greeted /\ Unread = <<>> /\ Len(c2s) = 1
         /\ 1 \in DOMAIN c2s /\ Head(c2s) = c2s[1] /\ c2s[1].whole
<1>1. c2s \in Seq(Commands) /\ 1 \in DOMAIN c2s /\ DOMAIN c2s = 1..Len(c2s) /\ Len(c2s) \in Nat
  BY DEF CInv, Types
<1>2. c2s[1].whole /\ Head(c2s) = c2s[1]
  BY <1>1 DEF AllWhole
<1>3. \A j \in DOMAIN c2s : c2s[j].whole => j = 1
  BY <1>1, <1>2, AloneOnWire
<1>4. Len(c2s) \in DOMAIN c2s
  BY <1>1
<1>5. Len(c2s) = 1
  BY <1>3, <1>4 DEF AllWhole
<1>. QED
  BY <1>1, <1>2, <1>5, AloneOnWire

-----------------------------------------------------------------------------
(* The client's steps                                                      *)

\* The messages stay as they are, and no sendMail runs.
LEMMA OtherEnveloped ==
  ASSUME Enveloped, op' # "sendMail", store' = store, AllWhole', Blank', Carried'
  PROVE  Enveloped'
BY DEF Enveloped, Looping, Building, EnvelopeOfOneCall

LEMMA KeptServer ==
  ASSUME Enveloped, UNCHANGED serverVars
  PROVE  Blank' /\ EnvelopeOfOneCall' /\ srv' = srv /\ store' = store
BY DEF Enveloped, Blank, EnvelopeOfOneCall, serverVars

\* A call that ends or begins, with nothing sent or only the beginning of a command.
LEMMA EndsEnveloped ==
  ASSUME CInv(Late), Enveloped, UNCHANGED serverVars, op' # "sendMail",
         lost' \in {lost, lost + 1}, NEW c, ~c.whole, c2s' \in {c2s, Append(c2s, c)},
         c2s' # c2s => lost' = lost + 1
  PROVE  Enveloped'
<1>1. c2s \in Seq(Commands) /\ lost \in Nat
  BY Numbers DEF CInv, Types
<1>2. \A i \in DOMAIN c2s' : (i \in DOMAIN c2s /\ c2s'[i] = c2s[i]) \/ c2s'[i] = c
  BY <1>1
<1>3. Blank' /\ srv' = srv /\ store' = store
  BY KeptServer
<1>4. AllWhole'
  BY <1>1 DEF Enveloped, AllWhole
<1>5. Carried'
  BY <1>2, <1>3 DEF Enveloped, Carried, OwnBody, Addressed
<1>. QED
  BY <1>3, <1>4, <1>5, OtherEnveloped

LEMMA QuietEnveloped ==
  ASSUME CInv(Late), Enveloped, UNCHANGED serverVars, op' # "sendMail", UNCHANGED <<lost, c2s>>
  PROVE  Enveloped'
<1>. DEFINE c == [whole |-> FALSE]
<1>1. ~c.whole
  OBVIOUS
<1>. HIDE DEF c
<1>. QED
  BY <1>1, EndsEnveloped

LEMMA GiveUpEnveloped ==
  ASSUME CInv(Late), Enveloped, UNCHANGED serverVars, c2s' = c2s, NEW kind, GiveUp(kind)
  PROVE  Enveloped'
<1>. DEFINE c == [whole |-> FALSE]
<1>1. ~c.whole /\ op' = "none" /\ lost' = lost + 1
  BY DEF GiveUp, Return
<1>. HIDE DEF c
<1>. QED
  BY <1>1, EndsEnveloped

\* A step that sends nothing and leaves the call and the connection alone.
LEMMA SameEnveloped ==
  ASSUME Enveloped, UNCHANGED <<serverVars, op, arg, step, turn, reading, calls, lost, c2s>>,
         Unread' = Unread
  PROVE  Enveloped'
<1>1. UNCHANGED <<srv, store>>
  BY DEF serverVars
<1>2. Looping' /\ AllWhole' /\ Blank' /\ EnvelopeOfOneCall'
  BY <1>1 DEF Enveloped, Looping, AllWhole, Blank, EnvelopeOfOneCall
<1>3. Building'
  BY <1>1 DEF Enveloped, Building, Asks, Settled, Addressed
<1>4. Carried'
  BY <1>1 DEF Enveloped, Carried, OwnBody, Addressed
<1>. QED
  BY <1>2, <1>3, <1>4 DEF Enveloped

LEMMA SendsEnveloped ==
  ASSUME CInv(Late), Wired, Lagging, Honest, Enveloped, UNCHANGED serverVars,
         SendCommand(Verb, Turn)
  PROVE  Enveloped'
<1>. DEFINE c == Command(Verb, Turn, TRUE)
<1>1. /\ UNCHANGED <<op, arg, step, calls, lost>> /\ reading' /\ ~reading /\ turn' = Turn
      /\ c2s' = Append(c2s, c) /\ Unread' = Unread
  BY DEF SendCommand, Sends, Unread
<1>2. c.verb = Verb /\ c.call = calls /\ c.by = op /\ c.arg = arg /\ c.turn = Turn
      /\ c.lost = lost /\ c.whole
  BY DEF Command
<1>3. c2s \in Seq(Commands) /\ turn \in Nat /\ arg \in Nat
  BY DEF CInv, Types, Counts
<1>. HIDE DEF c
<1>4. \A i \in DOMAIN c2s' : \/ i \in DOMAIN c2s /\ c2s'[i] = c2s[i]
                             \/ i = Len(c2s) + 1 /\ c2s'[i] = c
  BY <1>1, <1>3
<1>5. Blank' /\ EnvelopeOfOneCall' /\ srv' = srv /\ store' = store
  BY KeptServer
<1>6. AllWhole'
  BY <1>1, <1>2, <1>4 DEF Enveloped, AllWhole
<1>7. ASSUME op = "sendMail"
      PROVE  /\ step \in {"mailFrom", "rcptTo", "data", "dataBody"} /\ Verb = step
             /\ Turn = (IF step = "rcptTo" THEN turn + 1 ELSE turn)
  BY <1>1, <1>7 DEF Honest, Composing, Verb, Turn
<1>8. Looping'
  BY <1>1, <1>3, <1>7 DEF Enveloped, Looping
<1>9. ASSUME lost = 0, srv.open PROVE c2s = <<>>
  BY <1>1, <1>9, AskedAlone DEF Enveloped
<1>10. ASSUME op = "sendMail", lost = 0, srv.open, step # "mailFrom" PROVE Addressed(calls, turn)
  BY <1>1, <1>10 DEF Enveloped, Building
<1>11. Building'
  <2>1. SUFFICES ASSUME op = "sendMail", lost = 0, srv.open PROVE Asks'
    BY <1>1, <1>5 DEF Building
  <2>2. c2s' # <<>> /\ \A i \in DOMAIN c2s' : c2s'[i] = c
    BY <1>1, <1>4, <1>9, <2>1
  <2>3. ASSUME step # "mailFrom"
        PROVE  Addressed(calls, IF step = "rcptTo" THEN Turn - 1 ELSE Turn)
    BY <1>3, <1>7, <1>10, <2>1, <2>3
  <2>. QED
    BY <1>1, <1>2, <1>5, <1>7, <2>1, <2>2, <2>3 DEF Asks, Addressed
<1>12. Carried'
  <2>1. SUFFICES ASSUME srv.open, NEW i \in DOMAIN c2s', OwnBody(c2s'[i])
                 PROVE  i = 1 /\ Addressed(c2s'[i].call, c2s'[i].arg)
    BY <1>5 DEF Carried, Addressed
  <2>2. CASE i \in DOMAIN c2s /\ c2s'[i] = c2s[i]
    BY <2>1, <2>2 DEF Enveloped, Carried
  <2>3. CASE i = Len(c2s) + 1 /\ c2s'[i] = c
    <3>1. op = "sendMail" /\ lost = 0 /\ Verb = "dataBody"
      BY <1>2, <2>1, <2>3 DEF OwnBody
    <3>2. Addressed(calls, turn) /\ turn = arg
      BY <1>7, <1>10, <2>1, <3>1 DEF Enveloped, Looping
    <3>3. i = 1
      BY <1>9, <2>1, <2>3, <3>1
    <3>. QED
      BY <1>2, <2>3, <3>2, <3>3
  <2>. QED
    BY <1>4, <2>2, <2>3
<1>. QED
  BY <1>5, <1>6, <1>8, <1>11, <1>12 DEF Enveloped

\* The reply to a step of sendMail is there, and the loop goes on.
LEMMA TakesEnveloped ==
  ASSUME CInv(Late), Wired, Lagging, Honest, Enveloped, UNCHANGED serverVars, reading,
         NEW chunk \in Chunks, Complete(buffer \o chunk), Takes(chunk, ReplyIn(buffer \o chunk)),
         NEW code, code = Head(reply').code,
         IF GoesOn(step, code) THEN Proceed(NextStep(step), code)
         ELSE Return(IF op \in {"connect", "startTls"} THEN "ServerError" ELSE "reply", code)
  PROVE  Enveloped'
<1>1. UNCHANGED <<calls, lost, c2s>>
  BY DEF Takes
<1>2. Blank' /\ EnvelopeOfOneCall' /\ srv' = srv /\ store' = store
  BY KeptServer
<1>3. AllWhole' /\ Carried'
  BY <1>1, <1>2 DEF Enveloped, AllWhole, Carried, OwnBody, Addressed
<1>4. op' = "none" \/ (op' = op /\ GoesOn(step, code) /\ Proceed(NextStep(step), code)
                        /\ NextStep(step) # "done")
  BY DEF Proceed, Return
<1>5. CASE op' # "sendMail"
  BY <1>2, <1>3, <1>5, OtherEnveloped
<1>6. CASE op' = "sendMail"
  <2>1. op = "sendMail" /\ GoesOn(step, code) /\ Proceed(NextStep(step), code)
        /\ NextStep(step) # "done"
    BY <1>4, <1>6
  <2>2. /\ step' = NextStep(step) /\ arg' = arg /\ turn' = turn
        /\ reading' = (NextStep(step) = "greeting")
    BY <2>1 DEF Proceed
  <2>3. step \in {"mailFrom", "rcptTo", "data"}
    BY <2>1 DEF Honest, Composing, NextStep
  <2>4. turn \in 0..arg /\ arg \in Nat /\ (step = "data" => turn = arg)
    BY <2>1, <2>3 DEF Enveloped, Looping, CInv, Types, Counts
  <2>5. NextStep(step) = IF step = "data" THEN "dataBody"
                         ELSE IF turn < arg THEN "rcptTo" ELSE "data"
    BY <2>1, <2>3 DEF NextStep, RcptsLeft
  <2>6. ~reading' /\ step' \in {"rcptTo", "data", "dataBody"}
    BY <2>2, <2>5
  <2>7. Looping'
    BY <2>2, <2>4, <2>5, <2>6 DEF Looping
  <2>8. ASSUME lost = 0, srv.open PROVE Addressed(calls, turn)
    <3>1. 2 \in 1..Len(Unread) /\ code = Unread[2].line.code /\ code \in Nat \ {0}
      BY CodeRead DEF Takes
    <3>2. code < 400
      BY <2>1, <2>3, <3>1 DEF GoesOn, EnvelopeOk, DataOk, negative
    <3>3. Asks \/ Settled
      BY <2>1, <2>8 DEF Enveloped, Building
    <3>4. ~Asks
      BY <2>8, <3>1, AskedAlone DEF Enveloped, Asks
    <3>5. Len(Unread) >= 2
      BY <3>1, UnreadType
    <3>6. Unread[2].line.code \in 1..399
      <4>1. \A x \in Nat \ {0} : x < 400 => x \in 1..399
        OBVIOUS
      <4>2. code \in Nat \ {0} /\ code < 400
        BY <3>1, <3>2
      <4>3. code \in 1..399
        BY <4>1, <4>2
      <4>. QED
        BY <3>1, <4>3
    <3>. QED
      BY <2>3, <3>3, <3>4, <3>5, <3>6 DEF Settled
  <2>9. Building'
    BY <1>1, <1>2, <2>2, <2>6, <2>8 DEF Building, Addressed
  <2>. QED
    BY <1>2, <1>3, <2>7, <2>9 DEF Enveloped
<1>. QED
  BY <1>5, <1>6

LEMMA RecvChunkEnveloped ==
  ASSUME CInv(Late), Wired, Lagging, Honest, Enveloped, UNCHANGED serverVars, RecvChunk
  PROVE  Enveloped'
<1>1. PICK chunk \in Chunks : LET data == buffer \o chunk IN
        \/ Incomplete(data) /\ Keeps(chunk)
        \/ /\ Complete(data) /\ Takes(chunk, ReplyIn(data))
           /\ LET code == Head(reply').code IN
              IF GoesOn(step, code) THEN Proceed(NextStep(step), code)
              ELSE Return(IF op \in {"connect", "startTls"} THEN "ServerError" ELSE "reply", code)
        \/ ~Incomplete(data) /\ ~Complete(data) /\ Rejects(chunk)
  BY DEF RecvChunk
<1>2. CASE Keeps(chunk)
  <2>1. UNCHANGED <<op, arg, step, turn, reading, calls, lost, c2s>>
    BY <1>2 DEF Keeps, histVars
  <2>. QED
    BY <1>2, <2>1, KeptUnread, SameEnveloped
<1>3. CASE Rejects(chunk)
  BY <1>3, GiveUpEnveloped DEF Rejects
<1>4. CASE Complete(buffer \o chunk) /\ ~Keeps(chunk) /\ ~Rejects(chunk)
  <2>. DEFINE code == Head(reply').code
  <2>1. /\ reading /\ Takes(chunk, ReplyIn(buffer \o chunk))
        /\ IF GoesOn(step, code) THEN Proceed(NextStep(step), code)
           ELSE Return(IF op \in {"connect", "startTls"} THEN "ServerError" ELSE "reply", code)
    BY <1>1, <1>4 DEF RecvChunk
  <2>2. code = Head(reply').code
    OBVIOUS
  <2>. HIDE DEF code
  <2>. QED
    BY <1>4, <2>1, <2>2, TakesEnveloped
<1>. QED
  BY <1>1, <1>2, <1>3, <1>4

LEMMA ContinuesEnveloped ==
  ASSUME CInv(Late), Wired, Lagging, Honest, Enveloped, UNCHANGED serverVars, Continues
  PROVE  Enveloped'
<1>1. CASE Unresolved \/ SendRefused
  <2>1. op' = "none" /\ UNCHANGED <<lost, c2s>>
    BY <1>1 DEF Unresolved, SendRefused, Return, histVars, wire
  <2>. QED
    BY <2>1, QuietEnveloped
<1>2. CASE UpgradeFails \/ RecvTimeout \/ ClosedAtOtherEnd
  <2>1. c2s' = c2s /\ \E kind : GiveUp(kind)
    BY <1>2 DEF UpgradeFails, RecvTimeout, ClosedAtOtherEnd, RecvClosed, wire
  <2>. QED
    BY <2>1, GiveUpEnveloped
<1>3. CASE SendFails(Verb, Turn)
  <2>. DEFINE c == Command(Verb, Turn, FALSE)
  <2>1. ~c.whole /\ c2s' \in {c2s, Append(c2s, c)} /\ lost' = lost + 1 /\ op' = "none"
    BY <1>3 DEF SendFails, Command, GiveUp, Return
  <2>. HIDE DEF c
  <2>. QED
    BY <2>1, EndsEnveloped
<1>. QED
  BY <1>1, <1>2, <1>3, SendsEnveloped, RecvChunkEnveloped DEF Continues

LEMMA CallsEnveloped ==
  ASSUME CInv(Late), Enveloped, UNCHANGED serverVars,
         \/ \E m \in Methods : Call(m)
         \/ \E e \in Endpoints : Connect(e) \/ ConnectWrongScheme(e)
         \/ Close
  PROVE  Enveloped'
<1>1. op = "none" /\ UNCHANGED <<lost, c2s, reading>> /\ ~reading
  BY DEF Call, Close, Connect, ConnectTo, Begin, ConnectWrongScheme, RefuseScheme, Answers, callVars,
     wire, CInv, Placed
<1>2. CASE op' # "sendMail"
  BY <1>1, <1>2, QuietEnveloped
<1>3. CASE op' = "sendMail"
  <2>1. PICK m \in Methods : Call(m)
    BY <1>1, <1>3 DEF Close, Connect, ConnectTo, Begin, ConnectWrongScheme, RefuseScheme, Answers, callVars
  <2>2. step' = "mailFrom" /\ turn' = 0 /\ arg' \in 0..MaxRcpt
    BY <1>3, <2>1 DEF Call, Begin, FirstStep
  <2>3. Looping' /\ Building'
    BY <1>1, <2>2, SmtpAssumption DEF SmtpAssumption, Looping, Building
  <2>4. Blank' /\ EnvelopeOfOneCall' /\ srv' = srv
    BY KeptServer
  <2>5. AllWhole' /\ Carried'
    BY <1>1, <2>4 DEF Enveloped, AllWhole, Carried, OwnBody, Addressed
  <2>. QED
    BY <2>3, <2>4, <2>5 DEF Enveloped
<1>. QED
  BY <1>2, <1>3
-----------------------------------------------------------------------------
(* The server's steps                                                      *)

\* What a command that is read does to the envelope.
Kept(w)        == srv'.work.from = w.from /\ srv'.work.to = w.to
Dropped        == srv'.work.from = 0 /\ srv'.work.to = <<>>
Opened(w, c)   == w.from = 0 /\ srv'.work.from = c.call /\ srv'.work.to = w.to
Extended(w, c) ==
  w.from # 0 /\ srv'.work.from = w.from
  /\ srv'.work.to = Append(w.to, [mail |-> c.call, rcpt |-> c.turn])

LEMMA RefusesKeeps ==
  ASSUME Wired, Bodied, srv.open, NEW c, Refuses(c, srv.work)
  PROVE  Kept(srv.work) /\ store' = store /\ Replies(c, 550) /\ srv'.greeted = srv.greeted
<1>1. srv'.work = [srv.work EXCEPT !.mode = "command"] /\ srv'.greeted = srv.greeted
  BY WorkingWork DEF Refuses, Accepts
<1>2. srv'.work.from = srv.work.from /\ srv'.work.to = srv.work.to
  BY <1>1 DEF Bodied
<1>. QED
  BY <1>1, <1>2 DEF Kept, Refuses, Accepts

LEMMA AcceptsEnvelope ==
  ASSUME Wired, Bodied, srv.open, NEW c, AcceptsCommand(c, srv.work), srv'.open
  PROVE  /\ store' = store /\ srv'.greeted = srv.greeted
         /\ \/ c.verb \notin {"mailFrom", "rcptTo", "data"} /\ (Kept(srv.work) \/ Dropped)
            \/ c.verb = "mailFrom" /\ Opened(srv.work, c)
            \/ c.verb = "rcptTo" /\ Extended(srv.work, c)
            \/ c.verb = "data" /\ Kept(srv.work)
<1>. DEFINE w == srv.work
<1>0. DOMAIN w = {"mode", "hello", "auth", "from", "to"}
  BY DEF Bodied
<1>1. CASE c.verb \in {"ehlo", "helo"} /\ Accepts(c, 250, [NoMail(w) EXCEPT !.hello = TRUE])
  <2>1. srv'.work = [NoMail(w) EXCEPT !.hello = TRUE] /\ srv'.greeted = srv.greeted /\ store' = store
    BY <1>1, WorkingWork DEF Accepts
  <2>2. Dropped
    BY <1>0, <2>1 DEF NoMail, Dropped
  <2>. QED
    BY <1>1, <2>1, <2>2
<1>2. CASE c.verb = "startTls" /\ srv' = [srv EXCEPT !.tls = "await"] /\ store' = store
  <2>1. srv'.work = srv.work /\ srv'.greeted = srv.greeted
    BY <1>2 DEF Wired
  <2>. QED
    BY <1>2, <2>1 DEF Kept
<1>3. CASE \/ c.verb = "authPlain" /\ Accepts(c, 235, [w EXCEPT !.auth = TRUE])
           \/ c.verb = "authLogin" /\ Accepts(c, 334, [w EXCEPT !.mode = "username"])
           \/ c.verb = "data" /\ Accepts(c, 354, [w EXCEPT !.mode = "data"])
  <2>1. /\ srv'.greeted = srv.greeted /\ store' = store
        /\ \/ srv'.work = [w EXCEPT !.auth = TRUE]
           \/ \E m : srv'.work = [w EXCEPT !.mode = m]
    BY <1>3, WorkingWork DEF Accepts
  <2>2. Kept(w)
    BY <1>0, <2>1 DEF Kept
  <2>. QED
    BY <1>3, <2>1, <2>2
<1>4. CASE c.verb = "mailFrom" /\ w.from = 0 /\ Accepts(c, 250, [w EXCEPT !.from = c.call])
  <2>1. srv'.work = [w EXCEPT !.from = c.call] /\ srv'.greeted = srv.greeted /\ store' = store
    BY <1>4, WorkingWork DEF Accepts
  <2>2. Opened(w, c)
    BY <1>0, <1>4, <2>1 DEF Opened
  <2>. QED
    BY <1>4, <2>1, <2>2
<1>5. CASE /\ c.verb = "rcptTo" /\ w.from # 0
           /\ Accepts(c, 250, [w EXCEPT !.to = Append(@, [mail |-> c.call, rcpt |-> c.turn])])
  <2>1. /\ srv'.work = [w EXCEPT !.to = Append(@, [mail |-> c.call, rcpt |-> c.turn])]
        /\ srv'.greeted = srv.greeted /\ store' = store
    BY <1>5, WorkingWork DEF Accepts
  <2>2. Extended(w, c)
    BY <1>0, <1>5, <2>1 DEF Extended
  <2>. QED
    BY <1>5, <2>1, <2>2
<1>6. CASE srv' = Gone(srv)
  BY <1>6 DEF Gone, Wired
<1>. QED
  BY <1>1, <1>2, <1>3, <1>4, <1>5, <1>6 DEF AcceptsCommand

LEMMA CredentialKeeps ==
  ASSUME Wired, Bodied, srv.open, NEW c, AcceptsCredential(c, srv.work)
  PROVE  /\ Kept(srv.work) /\ store' = store
         /\ c.verb \in {"authLoginUsername", "authLoginPassword"}
<1>1. /\ store' = store /\ c.verb \in {"authLoginUsername", "authLoginPassword"}
      /\ \/ srv'.work = [srv.work EXCEPT !.mode = "password"]
         \/ srv'.work = [srv.work EXCEPT !.mode = "command", !.auth = TRUE]
  BY WorkingWork DEF AcceptsCredential, Accepts
<1>2. Kept(srv.work)
  BY <1>1 DEF Bodied, Kept
<1>. QED
  BY <1>1, <1>2

LEMMA BodyDrops ==
  ASSUME Wired, Bodied, srv.open, NEW c, TakesBody(c, srv.work) PROVE Dropped
<1>1. srv'.work = NoMail(srv.work)
  BY WorkingWork DEF TakesBody
<1>. QED
  BY <1>1 DEF NoMail, Bodied, Dropped

\* Nobody is left over on the envelope that follows.
LEMMA StaysBlank ==
  ASSUME Blank, srv.open, NEW c,
         Kept(srv.work) \/ Dropped \/ Opened(srv.work, c) \/ Extended(srv.work, c)
  PROVE  Blank'
BY DEF Blank, Kept, Dropped, Opened, Extended

\* A command that is read is gone, and no text of ours was behind it.
LEMMA ReadCarried ==
  ASSUME CInv(Late), Carried, srv.open, c2s # <<>>,
         c2s' = Tail(c2s) \/ (Len(c2s) > 1 /\ c2s' = Tail(Tail(c2s)))
  PROVE  Carried'
<1>1. c2s \in Seq(Commands)
  BY DEF CInv, Types
<1>2. ASSUME NEW i \in DOMAIN c2s' PROVE \E j \in DOMAIN c2s : j # 1 /\ c2s'[i] = c2s[j]
  <2>1. CASE c2s' = Tail(c2s)
    <3>1. i \in Nat /\ i # 0 /\ i + 1 \in DOMAIN c2s /\ c2s'[i] = c2s[i + 1]
      BY <1>1, <1>2, <2>1, TailKeeps
    <3>2. i + 1 # 1
      BY <3>1
    <3>. QED
      BY <3>1, <3>2
  <2>2. CASE Len(c2s) > 1 /\ c2s' = Tail(Tail(c2s))
    <3>1. i \in Nat /\ i # 0 /\ i + 2 \in DOMAIN c2s /\ c2s'[i] = c2s[i + 2]
      BY <1>1, <1>2, <2>2, TailTailKeeps
    <3>2. i + 2 # 1
      BY <3>1
    <3>. QED
      BY <3>1, <3>2
  <2>. QED
    BY <2>1, <2>2
<1>3. \A i \in DOMAIN c2s' : ~OwnBody(c2s'[i])
  BY <1>2 DEF Carried
<1>. QED
  BY <1>3 DEF Carried, OwnBody

\* The text of the message meets its envelope.
LEMMA BodyStored ==
  ASSUME CInv(Late), Enveloped, srv.open, c2s # <<>>, Head(c2s).whole,
         Head(c2s).verb = "dataBody", TakesBody(Head(c2s), srv.work)
  PROVE  EnvelopeOfOneCall'
<1>1. 1 \in DOMAIN c2s /\ Head(c2s) = c2s[1]
  BY DEF CInv, Types
<1>2. SUFFICES ASSUME NEW d \in store', d.by = "sendMail", d.lost = 0
               PROVE  /\ d.from = d.body
                      /\ d.to = [i \in 1..d.rcpts |-> [mail |-> d.body, rcpt |-> i]]
  BY DEF EnvelopeOfOneCall
<1>3. CASE d \in store
  BY <1>2, <1>3 DEF Enveloped, EnvelopeOfOneCall
<1>4. CASE d \notin store
  <2>. DEFINE c == Head(c2s)
  <2>1. d = [from |-> srv.work.from, to |-> srv.work.to, body |-> c.call,
             by |-> c.by, rcpts |-> c.arg, lost |-> c.lost]
    BY <1>2, <1>4 DEF TakesBody, Mail
  <2>2. OwnBody(c2s[1])
    BY <1>1, <1>2, <2>1 DEF OwnBody
  <2>3. Addressed(c.call, c.arg)
    BY <1>1, <2>2 DEF Enveloped, Carried
  <2>. QED
    BY <2>1, <2>3 DEF Addressed
<1>. QED
  BY <1>3, <1>4

\* The command sendMail waits for is read.
LEMMA HandlesBuilding ==
  ASSUME CInv(Late), Wired, Wired', Bodied, Lagging, Honest, Enveloped, UNCHANGED clientVars,
         op = "sendMail", lost = 0, reading, Asks, Handles, srv'.open
  PROVE  Settled'
<1>. DEFINE c == Head(c2s)
<1>1. /\ srv.open /\ srv.greeted /\ Unread = <<>> /\ c = c2s[1] /\ c2s[1] \in Commands
      /\ c2s[1].whole /\ Len(c2s) = 1 /\ c2s \in Seq(Commands) /\ c2s' = Tail(c2s)
  BY AskedAlone DEF Handles, Reads, Enveloped, CInv, Types
<1>2. c.verb = step /\ c.call = calls /\ c.turn = turn /\ c.no \in Nat
  BY <1>1 DEF Asks, Commands
<1>3. c2s' = <<>>
  BY <1>1
<1>4. UNCHANGED <<step, turn, calls, buffer>> /\ turn \in Nat
  BY DEF clientVars, callVars, histVars, CInv, Types, Counts
<1>5. step \in {"mailFrom", "rcptTo", "data", "dataBody"}
  BY DEF Honest, Composing
<1>6. ASSUME srv'.greeted, step # "dataBody" => Addressed(calls, turn)' PROVE Settled'
  BY <1>3, <1>4, <1>6 DEF Settled
<1>7. ASSUME srv'.greeted, Len(Unread') >= 2 => Unread'[2].line.code \notin 1..399 PROVE Settled'
  BY <1>3, <1>7 DEF Settled
<1>8. \/ Refuses(c, srv.work) \/ AcceptsCommand(c, srv.work)
      \/ TakesBody(c, srv.work) /\ c.verb = "dataBody"
      \/ UNCHANGED <<s2c, serverVars>>
  BY <1>2, <1>5 DEF Handles, AcceptsCredential
<1>. HIDE DEF c
<1>9. CASE Refuses(c, srv.work)
  <2>1. srv'.greeted /\ Replies(c, 550)
    BY <1>1, <1>9, RefusesKeeps
  <2>2. \A i \in 1..Len(Unread') :
          \/ i \in 1..Len(Unread) /\ Unread'[i] = Unread[i]
          \/ Unread'[i].line.code \in {0, 550}
    BY <1>2, <1>4, <2>1, CodesReplied
  <2>3. Len(Unread) = 0 /\ Len(Unread') \in Nat
    BY <1>1 DEF Wired, Unread
  <2>4. Len(Unread') >= 2 => Unread'[2].line.code \in {0, 550}
    BY <2>2, <2>3
  <2>5. 0 \notin 1..399 /\ 550 \notin 1..399
    OBVIOUS
  <2>6. Len(Unread') >= 2 => Unread'[2].line.code \notin 1..399
    BY <2>4, <2>5
  <2>. QED
    BY <1>7, <2>1, <2>6
<1>10. CASE AcceptsCommand(c, srv.work)
  <2>1. srv'.greeted
    BY <1>1, <1>10, AcceptsEnvelope
  <2>2. CASE step = "mailFrom"
    <3>1. Opened(srv.work, c)
      BY <1>1, <1>2, <1>10, <2>2, AcceptsEnvelope
    <3>2. srv.work.to = <<>> /\ turn = 0
      BY <1>1, <2>2, <3>1 DEF Enveloped, Blank, Looping, Opened
    <3>3. Addressed(calls, turn)'
      BY <1>2, <1>4, <3>1, <3>2 DEF Opened, Addressed
    <3>. QED
      BY <1>6, <2>1, <3>3
  <2>3. CASE step = "rcptTo"
    <3>1. Extended(srv.work, c)
      BY <1>1, <1>2, <1>10, <2>3, AcceptsEnvelope
    <3>2. Addressed(calls, turn - 1) /\ turn - 1 \in Nat /\ (turn - 1) + 1 = turn
      BY <1>4, <2>3 DEF Asks, Enveloped, Looping
    <3>3. srv'.work.to = [i \in 1..turn |-> [mail |-> calls, rcpt |-> i]]
      <4>. DEFINE k == turn - 1
      <4>1. k \in Nat /\ k + 1 = turn
        BY <3>2
      <4>2. srv'.work.to = Append([i \in 1..k |-> [mail |-> calls, rcpt |-> i]],
                                  [mail |-> calls, rcpt |-> k + 1])
        BY <1>2, <3>1, <3>2, <4>1 DEF Extended, Addressed
      <4>. HIDE DEF k
      <4>. QED
        BY <4>1, <4>2, OneMore
    <3>4. Addressed(calls, turn)'
      BY <1>4, <3>1, <3>2, <3>3 DEF Extended, Addressed
    <3>. QED
      BY <1>6, <2>1, <3>4
  <2>4. CASE step = "data"
    <3>1. Kept(srv.work) /\ Addressed(calls, turn)
      BY <1>1, <1>2, <1>10, <2>4, AcceptsEnvelope DEF Asks
    <3>2. Addressed(calls, turn)'
      BY <1>4, <3>1 DEF Kept, Addressed
    <3>. QED
      BY <1>6, <2>1, <3>2
  <2>5. CASE step = "dataBody"
    BY <1>6, <2>1, <2>5
  <2>. QED
    BY <1>5, <2>2, <2>3, <2>4, <2>5
<1>11. CASE TakesBody(c, srv.work) /\ c.verb = "dataBody"
  <2>1. srv'.greeted
    BY <1>1, <1>11, WorkingWork DEF TakesBody
  <2>. QED
    BY <1>2, <1>6, <1>11, <2>1
<1>12. CASE UNCHANGED <<s2c, serverVars>>
  <2>1. Unread' = <<>> /\ srv'.greeted
    BY <1>1, <1>4, <1>12 DEF serverVars, Unread
  <2>2. Len(Unread') = 0
    BY <2>1
  <2>. QED
    BY <1>7, <2>1, <2>2
<1>. QED
  BY <1>8, <1>9, <1>10, <1>11, <1>12

\* What any step of the server does to the account.
LEMMA HandlesEnveloped ==
  ASSUME CInv(Late), Wired, Bodied, Enveloped, Handles, srv'.open
  PROVE  Blank' /\ EnvelopeOfOneCall'
<1>. DEFINE c == Head(c2s)
<1>1. srv.open /\ c2s # <<>> /\ c.whole
  BY DEF Handles, Reads
<1>2. Blank /\ EnvelopeOfOneCall
  BY DEF Enveloped
<1>3. ASSUME store' = store PROVE EnvelopeOfOneCall'
  BY <1>2, <1>3 DEF EnvelopeOfOneCall
<1>4. CASE Refuses(c, srv.work)
  <2>1. Kept(srv.work) /\ store' = store
    BY <1>1, <1>4, RefusesKeeps
  <2>. QED
    BY <1>1, <1>2, <1>3, <2>1, StaysBlank
<1>5. CASE AcceptsCommand(c, srv.work)
  <2>1. store' = store /\ (Kept(srv.work) \/ Dropped \/ Opened(srv.work, c) \/ Extended(srv.work, c))
    BY <1>1, <1>5, AcceptsEnvelope
  <2>. QED
    BY <1>1, <1>2, <1>3, <2>1, StaysBlank
<1>6. CASE AcceptsCredential(c, srv.work)
  <2>1. Kept(srv.work) /\ store' = store
    BY <1>1, <1>6, CredentialKeeps
  <2>. QED
    BY <1>1, <1>2, <1>3, <2>1, StaysBlank
<1>7. CASE c.verb = "dataBody" /\ TakesBody(c, srv.work)
  <2>1. Dropped
    BY <1>1, <1>7, BodyDrops
  <2>. QED
    BY <1>1, <1>2, <1>7, <2>1, StaysBlank, BodyStored
<1>8. CASE UNCHANGED serverVars
  <2>1. store' = store /\ Kept(srv.work)
    BY <1>8 DEF serverVars, Kept
  <2>. QED
    BY <1>1, <1>2, <1>3, <2>1, StaysBlank
<1>. QED
  BY <1>4, <1>5, <1>6, <1>7, <1>8 DEF Handles

\* A server that went away ends the account of its session.
LEMMA GoneEnveloped ==
  ASSUME CInv(Late), Enveloped, UNCHANGED clientVars, ~srv'.open, store' = store,
         Serves \/ Leaves
  PROVE  Enveloped'
<1>1. UNCHANGED <<op, arg, step, turn, reading, calls, lost>>
  BY DEF clientVars, callVars, histVars
<1>2. Looping' /\ Building' /\ Blank' /\ Carried' /\ EnvelopeOfOneCall'
  BY <1>1 DEF Enveloped, Looping, Building, Blank, Carried, EnvelopeOfOneCall
<1>3. AllWhole'
  BY <1>1, ServerTakesFrom DEF Enveloped, AllWhole
<1>. QED
  BY <1>2, <1>3 DEF Enveloped

LEMMA ServerEnveloped ==
  ASSUME CInv(Late), Wired, Wired', Bodied, Lagging, Honest, Enveloped, UNCHANGED clientVars,
         Serves \/ Leaves
  PROVE  Enveloped'
<1>1. /\ UNCHANGED <<op, arg, step, turn, reading, calls, lost, buffer>>
      /\ srv.open /\ c2s \in Seq(Commands)
  BY ServerStores DEF clientVars, callVars, histVars, CInv, Types
<1>2. AllWhole' /\ Looping'
  BY <1>1, ServerTakesFrom DEF Enveloped, AllWhole, Looping
<1>3. CASE Shutdown \/ Crash \/ AbortsHandshake
  <2>1. ~srv'.open /\ store' = store
    BY <1>3 DEF Shutdown, Crash, AbortsHandshake, Gone, Wired
  <2>. QED
    BY <2>1, GoneEnveloped
<1>4. CASE Greets
  <2>1. /\ ~srv.greeted /\ UNCHANGED <<c2s, store>> /\ srv'.work = srv.work
    BY <1>4 DEF Greets, Wired
  <2>2. Blank' /\ Carried' /\ EnvelopeOfOneCall'
    BY <1>1, <2>1 DEF Enveloped, Blank, Carried, OwnBody, Addressed, EnvelopeOfOneCall
  <2>3. ASSUME op = "sendMail", lost = 0 PROVE reading /\ Asks
    BY <1>1, <2>1, <2>3, NothingLate DEF Enveloped, Building, Settled
  <2>4. ASSUME op = "sendMail", lost = 0 PROVE FALSE
    BY <1>1, <2>1, <2>3, <2>4, AskedAlone DEF Enveloped, Asks
  <2>5. Building'
    BY <1>1, <2>4 DEF Building
  <2>. QED
    BY <1>2, <2>2, <2>5 DEF Enveloped
<1>5. CASE (Handles \/ HandlesPartial \/ JoinsPartials) /\ srv'.open
  <2>1. c2s # <<>> /\ (c2s' = Tail(c2s) \/ (Len(c2s) > 1 /\ c2s' = Tail(Tail(c2s))))
    BY <1>5 DEF Handles, HandlesPartial, JoinsPartials, Reads
  <2>2. Carried'
    BY <1>1, <2>1, ReadCarried DEF Enveloped
  <2>3. Blank' /\ EnvelopeOfOneCall'
    <3>1. CASE Handles
      BY <1>5, <3>1, HandlesEnveloped
    <3>2. CASE UNCHANGED serverVars
      BY <3>2, KeptServer
    <3>3. CASE Len(c2s) > 1 /\ Refuses(c2s[2], srv.work)
      <4>1. Kept(srv.work) /\ store' = store
        BY <1>1, <3>3, RefusesKeeps
      <4>. QED
        BY <1>1, <4>1, StaysBlank DEF Enveloped, EnvelopeOfOneCall
    <3>. QED
      BY <1>5, <3>1, <3>2, <3>3 DEF HandlesPartial, JoinsPartials
  <2>4. ASSUME op = "sendMail", lost = 0 PROVE reading /\ Asks /\ Handles
    <3>1. reading /\ Head(c2s).whole
      BY <1>1, <2>1, <2>4, AskedAlone DEF Enveloped
    <3>2. Asks
      BY <1>1, <2>1, <2>4, <3>1 DEF Enveloped, Building, Settled
    <3>3. Handles
      BY <1>5, <3>1 DEF HandlesPartial, JoinsPartials
    <3>. QED
      BY <3>1, <3>2, <3>3
  <2>5. Building'
    BY <1>1, <1>5, <2>4, HandlesBuilding DEF Building
  <2>. QED
    BY <1>2, <2>2, <2>3, <2>5 DEF Enveloped
<1>6. CASE (Handles \/ HandlesPartial \/ JoinsPartials) /\ ~srv'.open
  <2>1. store' = store
    <3>1. CASE TakesBody(Head(c2s), srv.work)
      BY <1>1, <1>6, <3>1 DEF TakesBody, Working, Wired
    <3>. QED
      BY <1>6, <3>1 DEF Handles, HandlesPartial, JoinsPartials, Refuses, AcceptsCommand,
         AcceptsCredential, Accepts, serverVars
  <2>. QED
    BY <1>6, <2>1, GoneEnveloped
<1>. QED
  BY <1>3, <1>4, <1>5, <1>6 DEF Serves, Leaves

LEMMA NextEnveloped ==
  ASSUME CInv(Late), Wired, Wired', Bodied, Lagging, Honest, Enveloped, Stamped, [Next]_vars
  PROVE  Enveloped'
<1>1. CASE Dials
  <2>1. /\ store' = store /\ c2s' = <<>> /\ op' # "sendMail"
        /\ srv'.work = NewWork
    BY <1>1 DEF Dials, DialsTo, DialSucceeds, NextStep, AfterDial, Proceed, Fresh, CInv, Placed
  <2>2. AllWhole' /\ Blank' /\ Carried'
    BY <2>1 DEF AllWhole, Blank, Carried, NewWork
  <2>. QED
    BY <2>1, <2>2, OtherEnveloped
<1>2. CASE DialFailed \/ Closes
  <2>1. store' = store /\ c2s' = <<>> /\ ~srv'.open /\ op' # "sendMail"
    BY <1>2 DEF DialFailed, DialFails, Return, Closes, CloseEnds, Gone, Wired
  <2>2. AllWhole' /\ Blank' /\ Carried'
    BY <2>1 DEF AllWhole, Blank, Carried
  <2>. QED
    BY <2>1, <2>2, OtherEnveloped
<1>3. CASE Upgrades
  <2>1. /\ UNCHANGED <<store, c2s, lost>> /\ step = "upgrade" /\ srv.open /\ srv.tls = "await"
        /\ srv' = Secured(srv, NewWork) /\ Proceed(NextStep("upgrade"), LastCode)
    BY <1>3 DEF Upgrades, UpgradesTo, UpgradeSucceeds, histVars, wire
  <2>2. op # "sendMail" /\ (op' = op \/ op' = "none")
    BY <2>1 DEF Honest, Composing, Proceed, Return
  <2>3. srv'.work = NewWork
    BY <2>1 DEF Secured, Wired
  <2>4. NoBody
    BY <2>1 DEF Bodied, InData, Commanded
  <2>5. AllWhole' /\ Blank' /\ Carried'
    BY <2>1, <2>3, <2>4 DEF Enveloped, AllWhole, Blank, Carried, OwnBody, NoBody, NewWork
  <2>. QED
    BY <2>1, <2>2, <2>5, OtherEnveloped
<1>4. CASE ClientStep
  <2>1. UNCHANGED serverVars
    BY <1>4 DEF ClientStep, Continues
  <2>2. CASE RecvFails
    BY <2>1, <2>2, GiveUpEnveloped DEF RecvFails, wire
  <2>. QED
    BY <1>4, <2>1, <2>2, ContinuesEnveloped, CallsEnveloped DEF ClientStep
<1>5. CASE ServerStep
  BY <1>5, ServerEnveloped DEF ServerStep
<1>6. CASE UNCHANGED vars
  <2>1. UNCHANGED <<serverVars, op, arg, step, turn, reading, calls, lost, c2s>> /\ Unread' = Unread
    BY <1>6 DEF vars, mailVars, clientVars, callVars, histVars, wire, Unread
  <2>. QED
    BY <2>1, SameEnveloped
<1>7. CASE TakesLate
  <2>1. UNCHANGED <<srv, op, arg, step, turn, reading, calls, lost, c2s>> /\ Unread' = Unread
    BY <1>7 DEF TakesLate, clientVars, callVars, histVars, wire, Unread
  <2>2. EnvelopeOfOneCall'
    BY <1>7 DEF TakesLate, Enveloped, EnvelopeOfOneCall, Stamped
  <2>3. Looping' /\ AllWhole' /\ Blank' /\ Carried'
    BY <2>1 DEF Enveloped, Looping, AllWhole, Blank, Carried, OwnBody, Addressed
  <2>4. Building'
    BY <2>1 DEF Enveloped, Building, Asks, Settled, Addressed
  <2>. QED
    BY <2>2, <2>3, <2>4 DEF Enveloped
<1>. QED
  BY <1>1, <1>2, <1>3, <1>4, <1>5, <1>6, <1>7 DEF Next, Departs

LEMMA NextStamped ==
  ASSUME CInv(Late), Enveloped, Stamped, [Next]_vars PROVE Stamped'
<1>1. CASE Departs
  <2>1. SUFFICES ASSUME NEW m \in LeftBehind, m.by = "sendMail", m.lost = 0
                 PROVE  /\ m.from = m.body
                        /\ m.to = [i \in 1..m.rcpts |-> [mail |-> m.body, rcpt |-> i]]
    BY <1>1 DEF Departs, Stamped
  <2>2. PICK j \in DOMAIN c2s : /\ m = Mail(c2s[j], srv.work) /\ srv.open
                                /\ c2s[j].whole /\ c2s[j].verb = "dataBody"
    BY DEF LeftBehind, InFlight
  <2>3. OwnBody(c2s[j]) /\ m.body = c2s[j].call /\ m.rcpts = c2s[j].arg
    BY <2>1, <2>2 DEF Mail, OwnBody
  <2>4. Addressed(c2s[j].call, c2s[j].arg)
    BY <2>2, <2>3 DEF Enveloped, Carried
  <2>. QED
    BY <2>2, <2>3, <2>4 DEF Mail, Addressed
<1>2. CASE adrift' \subseteq adrift
  BY <1>2 DEF Stamped
<1>. QED
  BY <1>1, <1>2
     DEF Next, Upgrades, ClientStep, Continues, ServerStep, TakesLate, vars, mailVars

LEMMA InitEnveloped == ASSUME Init PROVE Enveloped /\ Stamped
<1>1. op = "none" /\ c2s = <<>> /\ store = {} /\ ~srv.open /\ adrift = {}
  BY DEF Init, SessionInit, ClientInit, ServerInit, Gone, Fresh
<1>. QED
  BY <1>1 DEF Stamped, Enveloped, Looping, AllWhole, Blank, Building, Carried, EnvelopeOfOneCall

\* A message that sendMail delivers with nothing given up before it has the
\* sender of that call and each of its recipients once and in order, for any
\* number of calls and recipients and whatever earlier calls left behind.
THEOREM SmtpEnvelopeOfOneCall == Spec => []EnvelopeOfOneCall
<1>1. CInv(Late) /\ Wired /\ Bodied /\ Lagging /\ Honest /\ Strays /\ Enveloped /\ Stamped /\ [Next]_vars =>
        CInv(Late)' /\ Wired' /\ Bodied' /\ Lagging' /\ Honest' /\ Strays' /\ Enveloped' /\ Stamped'
  BY NextSmtp, NextWired, NextBodied, NextLag, NextHonest, NextStrays, NextEnveloped, NextStamped
<1>2. Init => CInv(Late) /\ Wired /\ Bodied /\ Lagging /\ Honest /\ Strays /\ Enveloped /\ Stamped
  BY InitSmtp, InitWired, InitBodied, InitLag, InitHonest, InitEnveloped
<1>3. Enveloped => EnvelopeOfOneCall
  BY DEF Enveloped
<1>. QED
  BY <1>1, <1>2, <1>3, PTL DEF Spec
-----------------------------------------------------------------------------
(* Types.                                                                  *)

Serving   == srv.tls \in {"clear", "await", "on"} /\ srv.work.mode \in Modes

Typed == Running(MaxRcpt) /\ Sequenced /\ Serving
-----------------------------------------------------------------------------
LEMMA NextSocketed == ASSUME Socketed, [Next]_vars PROVE Socketed'
<1>1. CASE Dials
  BY <1>1, DialsSocketed DEF Dials, DialsTo
<1>2. CASE DialFailed
  BY <1>2, DialFailedSocketed DEF DialFailed
<1>3. CASE Closes
  BY <1>3 DEF Closes, CloseEnds, Socketed
<1>4. CASE Upgrades
  BY <1>4 DEF Upgrades, UpgradesTo, UpgradeSucceeds, Socketed
<1>5. CASE Continues
  <2>1. CASE Unresolved \/ SendRefused \/ RecvTimeout \/ ClosedAtOtherEnd
    BY <2>1 DEF Unresolved, SendRefused, RecvTimeout, ClosedAtOtherEnd, RecvClosed, Socketed
  <2>2. CASE UpgradeFails
    BY <2>2 DEF UpgradeFails, Socketed
  <2>3. CASE SendCommand(Verb, Turn) \/ SendFails(Verb, Turn)
    BY <2>3 DEF SendCommand, SendFails, Socketed
  <2>4. CASE RecvChunk
    BY <2>4 DEF RecvChunk, Keeps, Takes, Rejects, Socketed
  <2>. QED
    BY <1>5, <2>1, <2>2, <2>3, <2>4 DEF Continues
<1>6. CASE \/ \E m \in Methods : Call(m)
           \/ \E e \in Endpoints : Connect(e) \/ ConnectWrongScheme(e)
           \/ Close
  BY <1>6 DEF Call, Connect, ConnectTo, ConnectWrongScheme, RefuseScheme, Answers, Begin, Close,
     Socketed
<1>7. CASE RecvFails
  BY <1>7 DEF RecvFails, Socketed
<1>8. CASE ServerStep \/ TakesLate \/ UNCHANGED vars
  BY <1>8 DEF ServerStep, TakesLate, vars, mailVars, clientVars, Socketed
<1>. QED
  BY <1>1, <1>2, <1>3, <1>4, <1>5, <1>6, <1>7, <1>8 DEF Next, Departs, ClientStep

LEMMA TypedIsEnough == ASSUME CInv(Late), Wired, Socketed, Typed PROVE TypeOK
<1>1. c2s \in Seq(Commands) /\ reading \in BOOLEAN /\ {cmds, lost} \subseteq Nat
  BY DEF CInv, Types, Counts
<1>2. \A c \in InFlight : c.no \in 1..(cmds + 1) /\ c.whole \in BOOLEAN
  <2>1. SUFFICES ASSUME NEW i \in DOMAIN c2s
                 PROVE  c2s[i].no \in 1..(cmds + 1) /\ c2s[i].whole \in BOOLEAN
    BY DEF InFlight
  <2>2. c2s[i] \in Commands
    BY <1>1
  <2>. QED
    BY <2>2 DEF Typed, Sequenced, Commands
<1>. QED
  BY <1>1, <1>2 DEF TypeOK, MailTypeOK, Typed, Running, Serving, Wired, Socketed

LEMMA ClientTyped ==
  ASSUME CInv(Late), Wired, Looping, Looping', Typed, ClientStep PROVE Typed'
<1>1. UNCHANGED serverVars
  BY DEF ClientStep, Continues
<1>2. Serving'
  BY <1>1 DEF Typed, Serving, serverVars
<1>3. CASE Unresolved \/ SendRefused \/ UpgradeFails \/ RecvTimeout \/ ClosedAtOtherEnd \/ RecvFails
  <2>1. /\ UNCHANGED <<c2s, cmds, chan, endpoint, calls, peer>>
        /\ \E kind, code : Return(kind, code)
    BY <1>3 DEF Unresolved, SendRefused, UpgradeFails, RecvTimeout, ClosedAtOtherEnd, RecvClosed,
       RecvFails, GiveUp, histVars, wire
  <2>2. Running(MaxRcpt)'
    BY <2>1, GoesOnRuns DEF Typed, Running
  <2>. QED
    BY <1>2, <2>1, <2>2, StillSequenced DEF Typed
<1>4. CASE SendFails(Verb, Turn)
  <2>. DEFINE c == Command(Verb, Turn, FALSE)
  <2>1. /\ c.no = cmds + 1 /\ c2s' \in {c2s, Append(c2s, c)}
        /\ UNCHANGED <<cmds, chan, endpoint, calls, peer>> /\ \E kind, code : Return(kind, code)
    BY <1>4 DEF SendFails, Command, GiveUp
  <2>. HIDE DEF c
  <2>2. Running(MaxRcpt)'
    BY <2>1, GoesOnRuns DEF Typed, Running
  <2>. QED
    BY <1>2, <2>1, <2>2, SentSequenced DEF Typed
<1>5. CASE SendCommand(Verb, Turn)
  <2>. DEFINE c == Command(Verb, Turn, TRUE)
  <2>1. /\ c.no = cmds + 1 /\ c2s' = Append(c2s, c) /\ cmds' = cmds + 1 /\ turn' = Turn
        /\ UNCHANGED <<chan, op, arg, endpoint, calls, peer, result>>
    BY <1>5 DEF SendCommand, Command
  <2>. HIDE DEF c
  <2>2. turn' \in 0..arg
    BY <2>1 DEF Turn, Looping, Typed, Running
  <2>3. Running(MaxRcpt)'
    BY <2>1, <2>2 DEF Typed, Running
  <2>. QED
    BY <1>2, <2>1, <2>3, SentSequenced DEF Typed
<1>6. CASE RecvChunk
  <2>1. PICK chunk \in Chunks : LET data == buffer \o chunk IN
          \/ Incomplete(data) /\ Keeps(chunk)
          \/ /\ Complete(data) /\ Takes(chunk, ReplyIn(data))
             /\ LET code == Head(reply').code IN
                IF GoesOn(step, code) THEN Proceed(NextStep(step), code)
                ELSE Return(IF op \in {"connect", "startTls"} THEN "ServerError" ELSE "reply", code)
          \/ ~Incomplete(data) /\ ~Complete(data) /\ Rejects(chunk)
    BY <1>6 DEF RecvChunk
  <2>2. CASE Keeps(chunk)
    BY <1>2, <2>2, StillSequenced DEF Keeps, histVars, Typed, Running
  <2>3. CASE ~Keeps(chunk)
    <3>1. /\ UNCHANGED <<c2s, cmds, chan, endpoint, calls, peer>>
          /\ \E next, kind, code : Proceed(next, code) \/ Return(kind, code)
      BY <2>1, <2>3 DEF Takes, Rejects, GiveUp
    <3>2. Running(MaxRcpt)'
      BY <3>1, GoesOnRuns DEF Typed, Running
    <3>. QED
      BY <1>2, <3>1, <3>2, StillSequenced DEF Typed
  <2>. QED
    BY <2>2, <2>3
<1>7. CASE \/ \E m \in Methods : Call(m)
           \/ \E e \in Endpoints : Connect(e) \/ ConnectWrongScheme(e)
           \/ Close
  <2>1. /\ UNCHANGED <<c2s, cmds, chan, peer>> /\ calls < MaxCalls /\ calls' = calls + 1
        /\ endpoint' \in Endpoints \cup {endpoint}
        /\ op' \in Methods \cup {op, "connect", "close"}
        /\ result' = result \/ result'.call = calls + 1
        /\ (turn' = turn /\ arg' = arg) \/ (turn' = 0 /\ arg' \in 0..MaxRcpt)
    BY <1>7, SmtpAssumption DEF SmtpAssumption, Call, Close, Connect, ConnectTo, Begin,
       ConnectWrongScheme, RefuseScheme, Answers, callVars, wire
  <2>2. calls \in Nat /\ MaxCalls \in Nat
    BY ClientAssumption DEF ClientAssumption, CInv, Types, Counts
  <2>3. turn' \in 0..arg' /\ arg' \in 0..MaxRcpt
    BY <2>1 DEF Typed, Running
  <2>4. calls' \in 0..MaxCalls /\ result'.call \in Nat /\ result'.call <= calls'
    BY <2>1, <2>2 DEF Typed, Running
  <2>5. Running(MaxRcpt)'
    BY <2>1, <2>3, <2>4 DEF Typed, Running
  <2>. QED
    BY <1>2, <2>1, <2>5, StillSequenced DEF Typed
<1>. QED
  BY <1>3, <1>4, <1>5, <1>6, <1>7 DEF ClientStep, Continues

LEMMA ServerTyped ==
  ASSUME CInv(Late), Wired, Bodied, Typed, UNCHANGED clientVars, Serves \/ Leaves PROVE Typed'
<1>. DEFINE w == srv.work
<1>1. srv.open /\ DOMAIN srv = {"open", "greeted", "tls", "work"}
      /\ DOMAIN w = {"mode", "hello", "auth", "from", "to"} /\ w.mode \in Modes
  BY ServerStores DEF Wired, Bodied, Typed, Serving
<1>2. Running(MaxRcpt)'
  BY DEF clientVars, callVars, histVars, Typed, Running
<1>3. Sequenced'
  BY ServerTakesFrom DEF clientVars, histVars, Typed, Sequenced
<1>. SUFFICES Serving'
  BY <1>2, <1>3 DEF Typed
<1>4. ASSUME NEW m \in Modes, NEW v, DOMAIN v = DOMAIN w, v.mode = m, srv' = Working(v)
      PROVE  Serving'
  BY <1>1, <1>4 DEF Working, Typed, Serving
<1>5. "command" \in Modes /\ "username" \in Modes /\ "password" \in Modes /\ "data" \in Modes
  BY DEF Modes
<1>6. CASE srv' = srv \/ srv' = Gone(srv) \/ srv' = [srv EXCEPT !.greeted = TRUE]
           \/ srv' = [srv EXCEPT !.tls = "await"]
  BY <1>1, <1>6 DEF Gone, Typed, Serving
<1>7. CASE \E c : Refuses(c, w)
  <2>1. srv' = Working([w EXCEPT !.mode = "command"])
    BY <1>7 DEF Refuses, Accepts
  <2>. QED
    BY <1>1, <1>4, <1>5, <2>1
<1>8. CASE \E c : AcceptsCommand(c, w)
  <2>1. \/ \E v : /\ DOMAIN v = DOMAIN w /\ v.mode \in Modes
                  /\ srv' = Working(v)
        \/ srv' = Gone(srv) \/ srv' = [srv EXCEPT !.tls = "await"]
    BY <1>1, <1>5, <1>8 DEF AcceptsCommand, Accepts, NoMail
  <2>. QED
    BY <1>4, <1>6, <2>1
<1>9. CASE \E c : AcceptsCredential(c, w)
  <2>1. \E v : DOMAIN v = DOMAIN w /\ v.mode \in Modes /\ srv' = Working(v)
    BY <1>1, <1>5, <1>9 DEF AcceptsCredential, Accepts
  <2>. QED
    BY <1>4, <2>1
<1>10. CASE \E c : TakesBody(c, w)
  <2>1. srv' = Working(NoMail(w)) /\ DOMAIN NoMail(w) = DOMAIN w /\ NoMail(w).mode = "command"
    BY <1>1, <1>10 DEF TakesBody, NoMail
  <2>. QED
    BY <1>4, <1>5, <2>1
<1>. QED
  BY <1>6, <1>7, <1>8, <1>9, <1>10 DEF Serves, Leaves, Greets, Handles, HandlesPartial,
     JoinsPartials, AbortsHandshake, Shutdown, Crash, serverVars

LEMMA NextTyped ==
  ASSUME CInv(Late), Wired, Bodied, Looping, Looping', Typed, [Next]_vars PROVE Typed'
<1>1. calls \in Nat /\ MaxCalls \in Nat /\ "clear" \in {"clear", "await", "on"}
  BY ClientAssumption DEF ClientAssumption, CInv, Types, Counts
<1>2. CASE Dials
  <2>1. /\ Proceed(NextStep("dial"), 0) /\ chan' \in {"Plain", "Tls"} /\ peer' = endpoint
        /\ UNCHANGED <<endpoint, calls>> /\ c2s' = <<>>
        /\ srv' = Fresh(IF endpoint.security = "Tls" THEN "on" ELSE "clear", NewWork)
    BY <1>2 DEF Dials, DialsTo, DialSucceeds
  <2>2. Running(MaxRcpt)'
    BY <2>1, GoesOnRuns DEF Typed
  <2>3. Sequenced' /\ Serving'
    BY <2>1 DEF Sequenced, Serving, Fresh, NewWork, Modes
  <2>. QED
    BY <2>2, <2>3 DEF Typed
<1>3. CASE DialFailed
  <2>1. /\ Return("ConnectionError", 0) /\ chan' = "Closed" /\ peer' = peer
        /\ UNCHANGED <<endpoint, calls>> /\ c2s' = <<>> /\ srv' = Gone(srv)
    BY <1>3 DEF DialFailed, DialFails, histVars
  <2>2. Running(MaxRcpt)'
    BY <2>1, GoesOnRuns DEF Typed
  <2>3. Sequenced' /\ Serving'
    BY <2>1 DEF Sequenced, Typed, Serving, Gone, Wired
  <2>. QED
    BY <2>2, <2>3 DEF Typed
<1>4. CASE Closes
  <2>1. /\ Return("ok", 0) /\ chan' = "Closed" /\ peer' = peer
        /\ UNCHANGED <<endpoint, calls>> /\ c2s' = <<>> /\ srv' = Gone(srv)
    BY <1>4 DEF Closes, CloseEnds, histVars
  <2>2. Running(MaxRcpt)'
    BY <2>1, GoesOnRuns DEF Typed
  <2>3. Sequenced' /\ Serving'
    BY <2>1 DEF Sequenced, Typed, Serving, Gone, Wired
  <2>. QED
    BY <2>2, <2>3 DEF Typed
<1>5. CASE Upgrades
  <2>1. /\ Proceed(NextStep("upgrade"), LastCode) /\ chan' = "Tls"
        /\ UNCHANGED <<endpoint, calls, peer, c2s, cmds>> /\ srv' = Secured(srv, NewWork)
    BY <1>5 DEF Upgrades, UpgradesTo, UpgradeSucceeds, histVars, wire
  <2>2. Running(MaxRcpt)'
    BY <2>1, GoesOnRuns DEF Typed
  <2>3. Serving'
    BY <2>1 DEF Serving, Secured, NewWork, Modes, Wired
  <2>. QED
    BY <2>1, <2>2, <2>3, StillSequenced DEF Typed
<1>6. CASE ClientStep
  BY <1>6, ClientTyped
<1>7. CASE ServerStep
  BY <1>7, ServerTyped DEF ServerStep
<1>8. CASE UNCHANGED vars \/ TakesLate
  BY <1>8 DEF vars, mailVars, clientVars, callVars, histVars, wire, serverVars, TakesLate, Typed,
     Running, Sequenced, Serving
<1>. QED
  BY <1>2, <1>3, <1>4, <1>5, <1>6, <1>7, <1>8 DEF Next, Departs

LEMMA InitTyped == ASSUME Init PROVE Typed /\ Socketed
<1>1. Socketed
  BY DEF Init, SessionInit, ClientInit, Socketed
<1>2. Typed
  BY ClientAssumption, SmtpAssumption DEF ClientAssumption, SmtpAssumption, Init, SessionInit,
     ClientInit, ServerInit, Gone, Fresh, NewWork, Modes, Typed, Running, Sequenced, Serving
<1>. QED
  BY <1>1, <1>2

\* SmtpSession keeps its types: the loop of sendMail never runs past its
\* recipients, and commands are numbered as they are sent.
THEOREM SmtpTypeCorrect == Spec => []TypeOK
<1>1. /\ CInv(Late) /\ Wired /\ Bodied /\ Lagging /\ Honest /\ Strays /\ Enveloped /\ Stamped
      /\ Typed /\ Socketed /\ [Next]_vars
      => /\ CInv(Late)' /\ Wired' /\ Bodied' /\ Lagging' /\ Honest' /\ Strays' /\ Enveloped'
         /\ Stamped' /\ Typed' /\ Socketed'
  BY NextSmtp, NextWired, NextBodied, NextLag, NextHonest, NextStrays, NextEnveloped, NextStamped,
     NextTyped, NextSocketed DEF Enveloped
<1>2. Init => /\ CInv(Late) /\ Wired /\ Bodied /\ Lagging /\ Honest /\ Strays /\ Enveloped
              /\ Stamped /\ Typed /\ Socketed
  BY InitSmtp, InitWired, InitBodied, InitLag, InitHonest, InitEnveloped, InitTyped
<1>3. CInv(Late) /\ Wired /\ Typed /\ Socketed => TypeOK
  BY TypedIsEnough
<1>. QED
  BY <1>1, <1>2, <1>3, PTL DEF Spec

-----------------------------------------------------------------------------
(* AUTH LOGIN and connect: what the server has done when it is answered.   *)

\* The code of the first line that is unread, once that line is there.
First(codes) == Len(Unread) >= 2 /\ Unread[2].line.code \in codes

\* While nothing was given up, what is on its way is the command of the step.
Heard ==
  lost = 0 /\ srv.open =>
    /\ \A i \in DOMAIN c2s : c2s[i].verb = Verb
    /\ reading /\ step # "greeting" => srv.greeted

\* The server asks for the user name or the password when the line is about to
\* be sent and until it is read, and from the moment it writes the prompt.
Prompted ==
  lost = 0 /\ srv.open =>
    /\ ~reading \/ c2s # <<>> =>
         /\ step = "authLoginUsername" => srv.work.mode = "username"
         /\ step = "authLoginPassword" => srv.work.mode = "password"
    /\ reading /\ c2s = <<>> /\ First({334}) =>
         /\ step = "authLogin" => srv.work.mode = "username"
         /\ step = "authLoginUsername" => srv.work.mode = "password"

\* The channel in the steps of connect: between STARTTLS and the handshake the
\* server may be ahead of the client.
Encrypted == chan = "Tls" /\ srv.tls = "on"
Clear     == chan = "Plain" /\ srv.tls = "clear"
AsWanted ==
  CASE endpoint.security = "Plain" -> Clear
    [] endpoint.security = "Tls" -> Encrypted
    [] endpoint.security = "StartTls" ->
         IF step \in {"greeting", "pre_tls_ehlo"} THEN Clear
         ELSE IF step \in {"startTls", "upgrade"} THEN chan = "Plain" ELSE Encrypted

SecureSteps  == {"pre_tls_ehlo", "startTls", "upgrade", "post_tls_ehlo"}
ConnectSteps == SecureSteps \cup {"greeting", "hello", "authPlain"}

Underway ==
  op = "connect" /\ step # "dial" =>
    /\ lost = 0 /\ chan # "Closed" /\ AsWanted /\ step \in ConnectSteps
    /\ step \in SecureSteps => endpoint.security = "StartTls"
    /\ step = "hello" => endpoint.security # "StartTls"
    /\ step \in {"hello", "authPlain"} => endpoint.user

\* The server knows the client once it has granted the EHLO that counts.
Introduced ==
  op = "connect" =>
    /\ step = "authPlain" => srv.work.hello
    /\ step \in {"hello", "post_tls_ehlo"} /\ reading /\ First(1..399) => srv.work.hello

Connected ==
  op = "none" /\ result.of = "connect" /\ result.kind = "ok" =>
    /\ lost = 0
    /\ IF endpoint.security = "Plain" THEN Clear ELSE Encrypted
    /\ endpoint.security = "StartTls" \/ endpoint.user => srv.work.hello

InConnect == Underway /\ Introduced /\ Connected
-----------------------------------------------------------------------------
LEMMA ConnectSecurity ==
  ASSUME CInv(Late), op = "connect" PROVE endpoint.security \in {"Plain", "Tls", "StartTls"}
BY ClientAssumption DEF ClientAssumption, CInv, Placed

\* Before a command is sent nothing is unread but a goodbye.
LEMMA OnlyGoodbyes ==
  ASSUME CInv(Late), Wired, Lagging, lost = 0, ~reading
  PROVE  \A i \in 1..Len(Unread) : Unread[i].line.code = 421
<1>1. cmds \in Nat /\ Unread \in Seq(Parts) /\ Awaited = cmds + 1
  BY Numbers, UnreadType DEF Awaited
<1>2. ASSUME NEW i \in 1..Len(Unread), Asked(Unread[i]) PROVE FALSE
  <2>1. Unread[i].line.re <= cmds /\ Unread[i].line.re + 0 >= cmds + 1
    BY <1>1, <1>2 DEF Lagging, Bounded, Near
  <2>2. Unread[i].line.re \in Nat
    BY <1>1, NumberOfPart
  <2>. QED
    BY <1>1, <2>1, <2>2
<1>. QED
  BY <1>2 DEF Asked

\* Between two commands the wire to an open server is empty.
LEMMA NothingSent ==
  ASSUME CInv(Late), Wired, Lagging, AllWhole, lost = 0, srv.open, ~reading PROVE c2s = <<>>
BY AskedAlone

LEMMA TakesAnswered ==
  ASSUME CInv(Late), Wired, Lagging, AllWhole, lost = 0, srv.open,
         NEW chunk \in Chunks, Complete(buffer \o chunk)
  PROVE  c2s = <<>>
<1>1. Unread # <<>>
  BY CodeRead
<1>. QED
  BY <1>1, AskedAlone

\* The first line written to a client that has nothing unread.
LEMMA FirstReply ==
  ASSUME Wired, Wired', Unread = <<>>, NEW c, c.no \in Nat, NEW code \in Nat, Replies(c, code),
         buffer' = buffer
  PROVE  Len(Unread') >= 2 => Unread'[2].line.code \in {0, code}
<1>1. \A i \in 1..Len(Unread') :
        \/ i \in 1..Len(Unread) /\ Unread'[i] = Unread[i]
        \/ Unread'[i].line.code \in {0, code}
  BY CodesReplied
<1>2. Len(Unread) = 0 /\ Len(Unread') \in Nat
  BY UnreadType DEF Wired, Unread
<1>. QED
  BY <1>1, <1>2

\* What one command does to the session, apart from the mail.
LEMMA AcceptsMeans ==
  ASSUME Wired, Bodied, srv.open, NEW c, AcceptsCommand(c, srv.work)
  PROVE  /\ srv'.greeted = srv.greeted /\ (srv.work.hello => srv'.work.hello)
         /\ c.verb # "startTls" => srv'.tls = srv.tls
         /\ c.verb \notin {"ehlo", "authLogin"} =>
              \/ Replies(c, 250) \/ Replies(c, 220) \/ Replies(c, 235)
              \/ Replies(c, 354) \/ Replies(c, 221)
         /\ c.verb = "ehlo" => srv'.work.hello /\ Replies(c, 250)
         /\ c.verb = "authLogin" => srv'.work.mode = "username"
<1>. DEFINE w == srv.work
<1>0. DOMAIN w = {"mode", "hello", "auth", "from", "to"}
  BY DEF Bodied
<1>1. CASE c.verb \in {"ehlo", "helo"} /\ Accepts(c, 250, [NoMail(w) EXCEPT !.hello = TRUE])
  <2>1. /\ srv'.work = [NoMail(w) EXCEPT !.hello = TRUE] /\ srv'.greeted = srv.greeted
        /\ srv'.tls = srv.tls /\ Replies(c, 250)
    BY <1>1, WorkingWork DEF Accepts
  <2>2. srv'.work.hello
    BY <1>0, <2>1 DEF NoMail
  <2>. QED
    BY <1>1, <2>1, <2>2
<1>2. CASE c.verb = "startTls" /\ Replies(c, 220) /\ srv' = [srv EXCEPT !.tls = "await"]
  <2>1. srv'.work = srv.work /\ srv'.greeted = srv.greeted
    BY <1>2 DEF Wired
  <2>. QED
    BY <1>2, <2>1
<1>3. CASE c.verb = "authLogin" /\ Accepts(c, 334, [w EXCEPT !.mode = "username"])
  <2>1. /\ srv'.work = [w EXCEPT !.mode = "username"] /\ srv'.greeted = srv.greeted
        /\ srv'.tls = srv.tls
    BY <1>3, WorkingWork DEF Accepts
  <2>2. srv'.work.hello = w.hello /\ srv'.work.mode = "username"
    BY <1>0, <2>1
  <2>. QED
    BY <1>3, <2>1, <2>2
<1>4. CASE \/ c.verb = "authPlain" /\ Accepts(c, 235, [w EXCEPT !.auth = TRUE])
           \/ c.verb = "mailFrom" /\ Accepts(c, 250, [w EXCEPT !.from = c.call])
           \/ /\ c.verb = "rcptTo"
              /\ Accepts(c, 250, [w EXCEPT !.to = Append(@, [mail |-> c.call, rcpt |-> c.turn])])
           \/ c.verb = "data" /\ Accepts(c, 354, [w EXCEPT !.mode = "data"])
  <2>1. Replies(c, 235) \/ Replies(c, 250) \/ Replies(c, 354)
    BY <1>4 DEF Accepts
  <2>3. PICK v : srv' = Working(v) /\ v.hello = w.hello
    BY <1>0, <1>4 DEF Accepts
  <2>2. /\ srv'.work.hello = w.hello /\ srv'.greeted = srv.greeted /\ srv'.tls = srv.tls
    BY <2>3, WorkingWork
  <2>. QED
    BY <1>4, <2>1, <2>2
<1>5. CASE c.verb = "quit" /\ Replies(c, 221) /\ srv' = Gone(srv)
  <2>1. srv'.work = srv.work /\ srv'.greeted = srv.greeted /\ srv'.tls = srv.tls
    BY <1>5 DEF Gone, Wired
  <2>. QED
    BY <1>5, <2>1
<1>. QED
  BY <1>1, <1>2, <1>3, <1>4, <1>5 DEF AcceptsCommand

LEMMA RefusesMeans ==
  ASSUME Wired, Bodied, srv.open, NEW c, Refuses(c, srv.work)
  PROVE  /\ srv'.greeted = srv.greeted /\ srv'.work.hello = srv.work.hello
         /\ srv'.tls = srv.tls /\ Replies(c, 550)
<1>1. srv'.work = [srv.work EXCEPT !.mode = "command"] /\ srv'.greeted = srv.greeted
      /\ srv'.tls = srv.tls /\ Replies(c, 550)
  BY WorkingWork DEF Refuses, Accepts
<1>. QED
  BY <1>1 DEF Bodied

LEMMA CredentialMeans ==
  ASSUME Wired, Bodied, srv.open, NEW c, AcceptsCredential(c, srv.work)
  PROVE  /\ srv'.greeted = srv.greeted /\ srv'.work.hello = srv.work.hello
         /\ srv'.tls = srv.tls
         /\ \/ c.verb = "authLoginUsername" /\ srv'.work.mode = "password"
            \/ c.verb = "authLoginPassword" /\ Replies(c, 235)
<1>1. CASE c.verb = "authLoginUsername" /\ Accepts(c, 334, [srv.work EXCEPT !.mode = "password"])
  <2>1. /\ srv'.work = [srv.work EXCEPT !.mode = "password"] /\ srv'.greeted = srv.greeted
        /\ srv'.tls = srv.tls
    BY <1>1, WorkingWork DEF Accepts
  <2>. QED
    BY <1>1, <2>1 DEF Bodied
<1>2. CASE /\ c.verb = "authLoginPassword"
           /\ Accepts(c, 235, [srv.work EXCEPT !.mode = "command", !.auth = TRUE])
  <2>1. /\ srv'.work = [srv.work EXCEPT !.mode = "command", !.auth = TRUE]
        /\ srv'.greeted = srv.greeted /\ srv'.tls = srv.tls /\ Replies(c, 235)
    BY <1>2, WorkingWork DEF Accepts
  <2>. QED
    BY <1>2, <2>1 DEF Bodied
<1>. QED
  BY <1>1, <1>2 DEF AcceptsCredential

LEMMA BodyMeans ==
  ASSUME Wired, Bodied, srv.open, NEW c, TakesBody(c, srv.work)
  PROVE  /\ srv'.greeted = srv.greeted /\ srv'.work.hello = srv.work.hello
         /\ srv'.tls = srv.tls /\ (Replies(c, 250) \/ Replies(c, 554))
<1>1. srv'.work = NoMail(srv.work) /\ srv'.greeted = srv.greeted /\ srv'.tls = srv.tls
  BY WorkingWork DEF TakesBody
<1>. QED
  BY <1>1 DEF NoMail, Bodied, TakesBody

\* A server never forgets a client that has introduced itself, and waits for a
\* handshake only after it has read STARTTLS.
LEMMA ServerMeans ==
  ASSUME CInv(Late), Wired, Bodied, Serves \/ Leaves
  PROVE  /\ srv.open
         /\ srv.greeted => srv'.greeted
         /\ srv.work.hello => srv'.work.hello
         /\ srv'.tls # srv.tls => c2s # <<>> /\ \E i \in DOMAIN c2s : c2s[i].verb = "startTls"
<1>1. srv.open
  BY ServerStores
<1>2. CASE srv' = srv \/ srv' = Gone(srv) \/ srv' = [srv EXCEPT !.greeted = TRUE]
  BY <1>1, <1>2 DEF Gone, Wired
<1>3. CASE \/ \E c : Refuses(c, srv.work) \/ AcceptsCredential(c, srv.work) \/ TakesBody(c, srv.work)
  BY <1>1, <1>3, RefusesMeans, CredentialMeans, BodyMeans
<1>4. CASE Handles /\ AcceptsCommand(Head(c2s), srv.work)
  <2>1. c2s # <<>> /\ 1 \in DOMAIN c2s /\ Head(c2s) = c2s[1]
    BY <1>4 DEF Handles, Reads, CInv, Types
  <2>. QED
    BY <1>1, <1>4, <2>1, AcceptsMeans
<1>. QED
  BY <1>1, <1>2, <1>3, <1>4 DEF Serves, Leaves, Greets, Handles, HandlesPartial, JoinsPartials,
     AbortsHandshake, Shutdown, Crash, serverVars

LEMMA Emptied == ASSUME NEW S, NEW s \in Seq(S), Len(s) = 0 PROVE s = <<>>
OBVIOUS

\* What the client finds first once the server has read its command.
LEMMA AnswerMeans ==
  ASSUME CInv(Late), Wired, Wired', Bodied, Lagging, AllWhole, UNCHANGED clientVars,
         Serves \/ Leaves, lost = 0, c2s # <<>>
  PROVE  /\ srv'.open => c2s' = <<>>
         /\ First(1..399)' /\ c2s[1].verb = "ehlo" => srv'.work.hello
         /\ First({334})' => \/ c2s[1].verb = "authLogin" /\ srv'.work.mode = "username"
                             \/ c2s[1].verb = "authLoginUsername" /\ srv'.work.mode = "password"
<1>. DEFINE c == Head(c2s)
<1>1. /\ srv.open /\ reading /\ srv.greeted /\ Unread = <<>> /\ Len(c2s) = 1 /\ c = c2s[1] /\ c.whole
      /\ c2s \in Seq(Commands) /\ buffer' = buffer
  BY ServerMeans, AskedAlone DEF clientVars, callVars, CInv, Types
<1>. HIDE DEF c
<1>2. c.no \in Nat /\ Tail(c2s) = <<>>
  <2>1. c2s[1] \in Commands
    BY <1>1
  <2>2. c2s[1].no \in Nat
    BY <2>1 DEF Commands
  <2>3. Tail(c2s) \in Seq(Commands) /\ Len(Tail(c2s)) = 0
    BY <1>1
  <2>5. c.no \in Nat
    BY <1>1, <2>2
  <2>6. Tail(c2s) = <<>>
    BY <2>3, Emptied
  <2>. QED
    BY <2>5, <2>6
<1>3. Len(Unread') \in Nat /\ Len(Unread) = 0
  BY <1>1, UnreadType DEF Wired, Unread
<1>4. ASSUME Len(Unread') >= 2 => Unread'[2].line.code \notin 1..399
      PROVE  ~First(1..399)' /\ ~First({334})'
  BY <1>4 DEF First
<1>5. CASE AbortsHandshake
  <2>1. Unread' = <<>> /\ ~srv'.open
    BY <1>1, <1>5 DEF AbortsHandshake, wire, Unread, Gone, Wired
  <2>2. Len(Unread') = 0
    BY <2>1
  <2>. QED
    BY <1>4, <2>1, <2>2
<1>6. CASE Crash
  <2>1. \A i \in 1..Len(Unread') : i \in 1..Len(Unread)
    BY <1>1, <1>6, CrashUnread
  <2>2. ~(Len(Unread') >= 2)
    BY <1>3, <2>1
  <2>3. ~srv'.open
    BY <1>6 DEF Crash, Gone, Wired
  <2>. QED
    BY <1>4, <2>2, <2>3
<1>7. CASE Shutdown
  <2>. DEFINE lines == <<Line(0, 421, TRUE)>>
  <2>1. lines \in Seq(Lines) /\ Writes(lines) /\ \A k \in DOMAIN lines : lines[k].code = 421
    BY <1>7 DEF Shutdown, Line, Lines
  <2>. HIDE DEF lines
  <2>2. \A i \in 1..Len(Unread') : Unread'[i].line.code = 421
    BY <1>1, <1>3, <2>1, CodesWritten
  <2>3. Len(Unread') >= 2 => Unread'[2].line.code = 421
    BY <1>3, <2>2
  <2>4. 421 \notin 1..399
    OBVIOUS
  <2>5. ~srv'.open
    BY <1>7 DEF Shutdown, Gone, Wired
  <2>. QED
    BY <1>4, <2>3, <2>4, <2>5
<1>8. CASE Handles
  <2>0. c2s' = <<>>
    BY <1>2, <1>8 DEF Handles
  <2>1. ASSUME NEW code \in Nat \ 1..399, Replies(c, code)
        PROVE  ~First(1..399)' /\ ~First({334})'
    <3>1. Len(Unread') >= 2 => Unread'[2].line.code \in {0, code}
      BY <1>1, <1>2, <2>1, FirstReply
    <3>2. 0 \notin 1..399
      OBVIOUS
    <3>. QED
      BY <1>4, <2>1, <3>1, <3>2
  <2>2. ASSUME NEW code \in Nat, code # 334, Replies(c, code) PROVE ~First({334})'
    <3>1. Len(Unread') >= 2 => Unread'[2].line.code \in {0, code}
      BY <1>1, <1>2, <2>2, FirstReply
    <3>2. 0 # 334
      OBVIOUS
    <3>. QED
      BY <2>2, <3>1, <3>2 DEF First
  <2>3. CASE Refuses(c, srv.work)
    <3>1. Replies(c, 550)
      BY <1>1, <2>3, RefusesMeans
    <3>2. 550 \in Nat \ 1..399
      OBVIOUS
    <3>. QED
      BY <2>0, <2>1, <3>1, <3>2
  <2>4. CASE AcceptsCommand(c, srv.work)
    <3>1. /\ c.verb \notin {"ehlo", "authLogin"} =>
               \/ Replies(c, 250) \/ Replies(c, 220) \/ Replies(c, 235)
               \/ Replies(c, 354) \/ Replies(c, 221)
          /\ c.verb = "ehlo" => srv'.work.hello /\ Replies(c, 250)
          /\ c.verb = "authLogin" => srv'.work.mode = "username"
      <4>1. srv.open /\ AcceptsCommand(c, srv.work)
        BY <1>1, <2>4
      <4>. QED
        BY <4>1, AcceptsMeans
    <3>2. \A code \in {250, 220, 235, 354, 221} : code \in Nat /\ code # 334
      OBVIOUS
    <3>3. ASSUME c.verb # "authLogin" PROVE ~First({334})'
      <4>1. \/ Replies(c, 250) \/ Replies(c, 220) \/ Replies(c, 235)
            \/ Replies(c, 354) \/ Replies(c, 221)
        BY <3>1, <3>3
      <4>. QED
        BY <2>2, <3>2, <4>1
    <3>. QED
      BY <1>1, <2>0, <3>1, <3>3
  <2>5. CASE AcceptsCredential(c, srv.work)
    <3>1. \/ c.verb = "authLoginUsername" /\ srv'.work.mode = "password"
          \/ c.verb = "authLoginPassword" /\ Replies(c, 235)
      BY <1>1, <2>5, CredentialMeans
    <3>2. 235 \in Nat /\ 235 # 334
      OBVIOUS
    <3>. QED
      BY <1>1, <2>0, <2>2, <3>1, <3>2
  <2>6. CASE c.verb = "dataBody" /\ TakesBody(c, srv.work)
    <3>1. Replies(c, 250) \/ Replies(c, 554)
      BY <1>1, <2>6, BodyMeans
    <3>2. \A code \in {250, 554} : code \in Nat /\ code # 334
      OBVIOUS
    <3>. QED
      BY <1>1, <2>0, <2>2, <2>6, <3>1, <3>2
  <2>7. CASE UNCHANGED <<s2c, serverVars>>
    <3>1. Unread' = <<>>
      BY <1>1, <2>7 DEF Unread
    <3>2. Len(Unread') = 0
      BY <3>1
    <3>. QED
      BY <1>4, <2>0, <3>2
  <2>. QED
    BY <1>8, <2>3, <2>4, <2>5, <2>6, <2>7 DEF Handles, c
<1>9. ~Greets /\ ~HandlesPartial /\ ~JoinsPartials
  BY <1>1 DEF Greets, HandlesPartial, JoinsPartials, c
<1>. QED
  BY <1>5, <1>6, <1>7, <1>8, <1>9 DEF Serves, Leaves

\* A server that has read everything writes nothing but a goodbye.
LEMMA IdleMeans ==
  ASSUME CInv(Late), Wired, Wired', UNCHANGED clientVars, Serves \/ Leaves, c2s = <<>>
  PROVE  /\ c2s' = <<>> /\ srv'.work = srv.work /\ srv'.tls = srv.tls
         /\ srv.greeted /\ Len(Unread') >= 2 =>
              \/ Len(Unread) >= 2 /\ Unread'[2] = Unread[2]
              \/ Unread'[2].line.code = 421
<1>1. buffer' = buffer
  BY DEF clientVars, callVars
<1>2. Len(Unread') \in Nat /\ Len(Unread) \in Nat
  BY UnreadType DEF Wired, Unread
<1>3. CASE Greets
  <2>1. srv' = [srv EXCEPT !.greeted = TRUE] /\ ~srv.greeted /\ c2s' = c2s
    BY <1>3 DEF Greets
  <2>. QED
    BY <2>1 DEF Wired
<1>4. CASE Crash
  <2>1. \A i \in 1..Len(Unread') : i \in 1..Len(Unread) /\ Unread'[i] = Unread[i]
    BY <1>1, <1>4, CrashUnread
  <2>2. srv' = Gone(srv) /\ c2s' = c2s
    BY <1>4 DEF Crash
  <2>3. Len(Unread') >= 2 => Len(Unread) >= 2 /\ Unread'[2] = Unread[2]
    BY <1>2, <2>1
  <2>. QED
    BY <2>2, <2>3 DEF Gone, Wired
<1>5. CASE Shutdown
  <2>. DEFINE lines == <<Line(0, 421, TRUE)>>
  <2>1. lines \in Seq(Lines) /\ Writes(lines) /\ \A k \in DOMAIN lines : lines[k].code = 421
    BY <1>5 DEF Shutdown, Line, Lines
  <2>2. srv' = Gone(srv) /\ c2s' = c2s
    BY <1>5 DEF Shutdown
  <2>. HIDE DEF lines
  <2>3. \A i \in 1..Len(Unread') : \/ i \in 1..Len(Unread) /\ Unread'[i] = Unread[i]
                                   \/ Unread'[i].line.code = 421
    BY <1>1, <2>1, CodesWritten
  <2>4. Len(Unread') >= 2 => \/ Len(Unread) >= 2 /\ Unread'[2] = Unread[2]
                             \/ Unread'[2].line.code = 421
    BY <1>2, <2>3
  <2>. QED
    BY <2>2, <2>4 DEF Gone, Wired
<1>. QED
  BY <1>3, <1>4, <1>5 DEF Serves, Leaves, Handles, HandlesPartial, JoinsPartials, Reads, AbortsHandshake

-----------------------------------------------------------------------------
(* AUTH LOGIN                                                              *)

\* No line of AUTH LOGIN is next, and none is on its way.
LEMMA QuietPrompted ==
  ASSUME CInv(Late), Wired, Lagging, AllWhole, ~reading, ~reading',
         UNCHANGED <<lost, c2s>>, srv'.open => srv.open,
         step' \notin {"authLoginUsername", "authLoginPassword"}
  PROVE  Heard' /\ Prompted'
<1>1. lost' = 0 /\ srv'.open => c2s' = <<>>
  BY NothingSent
<1>. QED
  BY <1>1 DEF Heard, Prompted

LEMMA GiveUpPrompted ==
  ASSUME CInv(Late), lost' = lost + 1 PROVE Heard' /\ Prompted'
<1>1. lost' # 0
  BY Numbers
<1>. QED
  BY <1>1 DEF Heard, Prompted

\* The connection ends, or a new one begins.
LEMMA EndsPrompted ==
  ASSUME ~srv'.open \/ (c2s' = <<>> /\ step' = "greeting") PROVE Heard' /\ Prompted'
BY DEF Heard, Prompted

LEMMA SamePrompted ==
  ASSUME Heard, Prompted, UNCHANGED <<srv, step, reading, lost, c2s>>, Unread' = Unread
  PROVE  Heard' /\ Prompted'
BY DEF Heard, Prompted, First, Verb

LEMMA SendsPrompted ==
  ASSUME CInv(Late), Wired, Lagging, AllWhole, Heard, Prompted, UNCHANGED serverVars,
         SendCommand(Verb, Turn)
  PROVE  Heard' /\ Prompted'
<1>. DEFINE c == Command(Verb, Turn, TRUE)
<1>1. /\ UNCHANGED <<step, lost, srv>> /\ reading' /\ ~reading /\ c2s' = Append(c2s, c)
      /\ c.verb = Verb
  BY DEF SendCommand, Sends, Command, serverVars
<1>. HIDE DEF c
<1>2. ASSUME lost = 0, srv.open PROVE c2s = <<>> /\ srv.greeted
  BY <1>1, <1>2, NothingSent, NothingLate
<1>3. ASSUME lost = 0, srv.open PROVE c2s' # <<>> /\ \A i \in DOMAIN c2s' : c2s'[i].verb = Verb
  BY <1>1, <1>2, <1>3
<1>4. Verb' = Verb
  BY <1>1 DEF Verb
<1>. QED
  BY <1>1, <1>2, <1>3, <1>4 DEF Heard, Prompted

\* The client goes on with a reply: to the user name or the password only with
\* the prompt for it.
LEMMA TakesPrompted ==
  ASSUME CInv(Late), Wired, Lagging, AllWhole, Heard, Prompted, UNCHANGED serverVars, reading,
         NEW chunk \in Chunks, Complete(buffer \o chunk), Takes(chunk, ReplyIn(buffer \o chunk)),
         NEW code, code = Head(reply').code,
         IF GoesOn(step, code) THEN Proceed(NextStep(step), code)
         ELSE Return(IF op \in {"connect", "startTls"} THEN "ServerError" ELSE "reply", code)
  PROVE  Heard' /\ Prompted'
<1>1. UNCHANGED <<lost, c2s, srv>> /\ step # "dial"
  BY DEF Takes, serverVars, CInv, Placed
<1>2. ~reading' /\ (step' = "done" \/ (step' = NextStep(step) /\ GoesOn(step, code)))
  BY <1>1, NotTheGreeting DEF Proceed, Return
<1>3. ASSUME lost = 0, srv.open PROVE c2s = <<>>
  BY <1>3, TakesAnswered
<1>4. Heard'
  BY <1>1, <1>2, <1>3 DEF Heard
<1>5. ASSUME lost = 0, srv.open, step' \in {"authLoginUsername", "authLoginPassword"}
      PROVE  srv.work.mode = IF step' = "authLoginUsername" THEN "username" ELSE "password"
  <2>1. step' = NextStep(step) /\ GoesOn(step, code)
    BY <1>2, <1>5
  <2>2. \/ step = "authLogin" /\ step' = "authLoginUsername"
        \/ step = "authLoginUsername" /\ step' = "authLoginPassword"
    BY <1>5, <2>1 DEF NextStep, AfterDial, AfterGreeting, RcptsLeft
  <2>3. code = 334
    BY <2>1, <2>2 DEF GoesOn, LoginOk
  <2>4. First({334})
    <3>1. 2 \in 1..Len(Unread) /\ code = Unread[2].line.code
      BY CodeRead DEF Takes
    <3>2. Len(Unread) >= 2
      BY <3>1, UnreadType
    <3>. QED
      BY <2>3, <3>1, <3>2 DEF First
  <2>5. c2s = <<>>
    BY <1>3, <1>5
  <2>. QED
    BY <1>5, <2>2, <2>4, <2>5 DEF Prompted
<1>6. Prompted'
  BY <1>1, <1>2, <1>5 DEF Prompted
<1>. QED
  BY <1>4, <1>6

LEMMA ContinuesPrompted ==
  ASSUME CInv(Late), Wired, Lagging, AllWhole, Heard, Prompted, Continues
  PROVE  Heard' /\ Prompted'
<1>1. UNCHANGED serverVars /\ srv' = srv
  BY DEF Continues, serverVars
<1>2. CASE Unresolved \/ SendRefused
  <2>1. ~reading /\ ~reading' /\ UNCHANGED <<lost, c2s>> /\ step' = "done"
    BY <1>2 DEF Unresolved, SendRefused, Sends, Return, histVars, wire, CInv, Placed
  <2>. QED
    BY <1>1, <2>1, QuietPrompted
<1>3. CASE UpgradeFails \/ RecvTimeout \/ ClosedAtOtherEnd \/ SendFails(Verb, Turn)
  BY <1>3, GiveUpPrompted DEF UpgradeFails, RecvTimeout, ClosedAtOtherEnd, RecvClosed, SendFails, GiveUp
<1>4. CASE RecvChunk
  <2>1. PICK chunk \in Chunks : LET data == buffer \o chunk IN
          \/ Incomplete(data) /\ Keeps(chunk)
          \/ /\ Complete(data) /\ Takes(chunk, ReplyIn(data))
             /\ LET code == Head(reply').code IN
                IF GoesOn(step, code) THEN Proceed(NextStep(step), code)
                ELSE Return(IF op \in {"connect", "startTls"} THEN "ServerError" ELSE "reply", code)
          \/ ~Incomplete(data) /\ ~Complete(data) /\ Rejects(chunk)
    BY <1>4 DEF RecvChunk
  <2>2. CASE Keeps(chunk)
    <3>1. UNCHANGED <<step, reading, lost, c2s>>
      BY <2>2 DEF Keeps, histVars
    <3>. QED
      BY <1>1, <2>2, <3>1, KeptUnread, SamePrompted
  <2>3. CASE Rejects(chunk)
    BY <2>3, GiveUpPrompted DEF Rejects, GiveUp
  <2>4. CASE Complete(buffer \o chunk) /\ ~Keeps(chunk) /\ ~Rejects(chunk)
    <3>. DEFINE code == Head(reply').code
    <3>1. /\ reading /\ Takes(chunk, ReplyIn(buffer \o chunk))
          /\ IF GoesOn(step, code) THEN Proceed(NextStep(step), code)
             ELSE Return(IF op \in {"connect", "startTls"} THEN "ServerError" ELSE "reply", code)
      BY <1>4, <2>1, <2>4 DEF RecvChunk
    <3>2. code = Head(reply').code
      OBVIOUS
    <3>. HIDE DEF code
    <3>. QED
      BY <1>1, <2>4, <3>1, <3>2, TakesPrompted
  <2>. QED
    BY <2>1, <2>2, <2>3, <2>4
<1>. QED
  BY <1>1, <1>2, <1>3, <1>4, SendsPrompted DEF Continues

LEMMA ServerPrompted ==
  ASSUME CInv(Late), Wired, Wired', Bodied, Lagging, AllWhole, Heard, Prompted,
         UNCHANGED clientVars, Serves \/ Leaves
  PROVE  Heard' /\ Prompted'
<1>1. UNCHANGED <<step, reading, lost>> /\ srv.open /\ (srv.greeted => srv'.greeted)
  BY ServerMeans DEF clientVars, callVars, histVars
<1>. SUFFICES ASSUME lost = 0, srv'.open PROVE Heard' /\ Prompted'
  BY <1>1 DEF Heard, Prompted
<1>2. CASE c2s = <<>>
  <2>1. c2s' = <<>> /\ srv'.work = srv.work
    BY <1>2, IdleMeans
  <2>2. ASSUME reading, step # "greeting", First({334})' PROVE First({334})
    <3>1. srv.greeted
      BY <1>1, <2>2 DEF Heard
    <3>2. Len(Unread') >= 2 /\ Unread'[2].line.code = 334
      BY <2>2 DEF First
    <3>3. \/ Len(Unread) >= 2 /\ Unread'[2] = Unread[2]
          \/ Unread'[2].line.code = 421
      BY <1>2, <3>1, <3>2, IdleMeans
    <3>. QED
      BY <3>2, <3>3 DEF First
  <2>3. Heard'
    BY <1>1, <2>1 DEF Heard
  <2>4. Prompted'
    BY <1>1, <1>2, <2>1, <2>2 DEF Prompted
  <2>. QED
    BY <2>3, <2>4
<1>3. CASE c2s # <<>>
  <2>1. c2s' = <<>> /\ reading /\ 1 \in DOMAIN c2s /\ c2s[1].verb = Verb
    BY <1>1, <1>3, AnswerMeans, AskedAlone DEF Heard
  <2>2. First({334})' => \/ Verb = "authLogin" /\ srv'.work.mode = "username"
                         \/ Verb = "authLoginUsername" /\ srv'.work.mode = "password"
    BY <1>3, <2>1, AnswerMeans
  <2>3. Heard'
    BY <1>1, <2>1 DEF Heard
  <2>4. Prompted'
    BY <1>1, <2>1, <2>2 DEF Prompted, Verb
  <2>. QED
    BY <2>3, <2>4
<1>. QED
  BY <1>2, <1>3

LEMMA NextPrompted ==
  ASSUME CInv(Late), Wired, Wired', Bodied, Lagging, AllWhole, Heard, Prompted, [Next]_vars
  PROVE  Heard' /\ Prompted'
<1>1. CASE Dials
  <2>1. c2s' = <<>> /\ step' = "greeting"
    BY <1>1 DEF Dials, DialsTo, DialSucceeds, NextStep, AfterDial, Proceed
  <2>. QED
    BY <2>1, EndsPrompted
<1>2. CASE DialFailed \/ Closes
  <2>1. ~srv'.open
    BY <1>2 DEF DialFailed, Closes, Gone, Wired
  <2>. QED
    BY <2>1, EndsPrompted
<1>3. CASE Upgrades
  <2>1. /\ step = "upgrade" /\ UNCHANGED <<lost, c2s>> /\ srv.open
        /\ Proceed(NextStep("upgrade"), LastCode)
    BY <1>3 DEF Upgrades, UpgradesTo, UpgradeSucceeds, histVars, wire
  <2>2. ~reading /\ NextStep("upgrade") \in {"post_tls_ehlo", "done"}
    BY <2>1 DEF CInv, Placed, NextStep
  <2>3. ~reading' /\ step' \in {"post_tls_ehlo", "done"}
    BY <2>1, <2>2 DEF Proceed, Return
  <2>. QED
    BY <2>1, <2>2, <2>3, QuietPrompted
<1>4. CASE ClientStep
  <2>1. srv' = srv
    BY <1>4 DEF ClientStep, Continues, serverVars
  <2>2. CASE RecvFails
    BY <2>2, GiveUpPrompted DEF RecvFails, GiveUp
  <2>3. CASE \/ \E m \in Methods : Call(m)
             \/ \E e \in Endpoints : Connect(e) \/ ConnectWrongScheme(e)
             \/ Close
    <3>1. /\ ~reading /\ ~reading' /\ UNCHANGED <<lost, c2s>>
          /\ step' \in {step, "dial", "close"} \cup {FirstStep(m) : m \in Methods}
          /\ step = "done"
      BY <2>3 DEF Call, Close, Connect, ConnectTo, Begin, ConnectWrongScheme, RefuseScheme, Answers,
         callVars, wire, CInv, Placed
    <3>2. step' \notin {"authLoginUsername", "authLoginPassword"}
      BY <3>1, SmtpAssumption DEF SmtpAssumption, AllMethods, FirstStep
    <3>. QED
      BY <2>1, <3>1, <3>2, QuietPrompted
  <2>. QED
    BY <1>4, <2>2, <2>3, ContinuesPrompted DEF ClientStep
<1>5. CASE ServerStep
  BY <1>5, ServerPrompted DEF ServerStep
<1>6. CASE UNCHANGED vars \/ TakesLate
  <2>1. UNCHANGED <<srv, step, reading, lost, c2s>> /\ Unread' = Unread
    BY <1>6 DEF vars, mailVars, clientVars, callVars, histVars, wire, serverVars, TakesLate, Unread
  <2>. QED
    BY <2>1, SamePrompted
<1>. QED
  BY <1>1, <1>2, <1>3, <1>4, <1>5, <1>6 DEF Next, Departs

LEMMA InitPrompted == ASSUME Init PROVE Heard /\ Prompted
<1>1. ~srv.open
  BY DEF Init, SessionInit, ServerInit, Gone, Fresh
<1>. QED
  BY <1>1 DEF Heard, Prompted

LEMMA PromptedIsEnough ==
  ASSUME CInv(Late), Wired, Lagging, AllWhole, Heard, Prompted PROVE LoginLinesWhereAsked
<1>1. SUFFICES ASSUME srv.open, c2s # <<>>, lost = 0
               PROVE  /\ Head(c2s).verb = "authLoginUsername" => srv.work.mode = "username"
                      /\ Head(c2s).verb = "authLoginPassword" => srv.work.mode = "password"
  BY DEF LoginLinesWhereAsked
<1>2. Head(c2s).verb = Verb
  BY <1>1, AskedAlone DEF Heard
<1>3. Verb \in {"authLoginUsername", "authLoginPassword"} => step = Verb
  BY DEF Verb
<1>. QED
  BY <1>1, <1>2, <1>3 DEF Prompted

-----------------------------------------------------------------------------
(* connect                                                                 *)

\* A call that is not a connect that succeeded.
LEMMA NotConnected ==
  ASSUME (op' = "none" /\ (result'.of # "connect" \/ result'.kind # "ok"))
         \/ op' \notin {"none", "connect"} \/ (op' = "connect" /\ step' = "dial")
  PROVE  InConnect'
BY DEF InConnect, Underway, Introduced, Connected

LEMMA GiveUpInConnect ==
  ASSUME NEW kind, kind # "ok", GiveUp(kind) PROVE InConnect'
BY NotConnected DEF GiveUp, Return

LEMMA SameInConnect ==
  ASSUME InConnect, UNCHANGED <<op, step, reading, lost, chan, endpoint, result, srv>>,
         Unread' = Unread
  PROVE  InConnect'
BY DEF InConnect, Underway, Introduced, Connected, AsWanted, Clear, Encrypted, First

LEMMA SendsInConnect ==
  ASSUME CInv(Late), Wired, Lagging, InConnect, UNCHANGED serverVars, SendCommand(Verb, Turn)
  PROVE  InConnect'
<1>1. /\ UNCHANGED <<op, step, lost, chan, endpoint, result, srv>> /\ ~reading /\ Unread' = Unread
      /\ step # "dial" /\ op # "none"
  BY DEF SendCommand, Sends, serverVars, Unread, CInv, Placed
<1>2. Underway' /\ Connected'
  BY <1>1 DEF InConnect, Underway, Connected, AsWanted, Clear, Encrypted
<1>3. ASSUME op = "connect" PROVE ~First(1..399)'
  <2>1. lost = 0
    BY <1>1, <1>3 DEF InConnect, Underway
  <2>2. \A i \in 1..Len(Unread) : Unread[i].line.code = 421
    BY <1>1, <2>1, OnlyGoodbyes
  <2>3. Len(Unread) \in Nat /\ 421 \notin 1..399
    BY UnreadType
  <2>4. Len(Unread) >= 2 => Unread[2].line.code = 421
    BY <2>2, <2>3
  <2>. QED
    BY <1>1, <2>3, <2>4 DEF First
<1>4. Introduced'
  BY <1>1, <1>3 DEF InConnect, Introduced
<1>. QED
  BY <1>2, <1>4 DEF InConnect

\* A reply takes connect to its next step, or to its end.
LEMMA TakesInConnect ==
  ASSUME CInv(Late), Wired, Lagging, InConnect, UNCHANGED serverVars, reading,
         NEW chunk \in Chunks, Complete(buffer \o chunk), Takes(chunk, ReplyIn(buffer \o chunk)),
         NEW code, code = Head(reply').code,
         IF GoesOn(step, code) THEN Proceed(NextStep(step), code)
         ELSE Return(IF op \in {"connect", "startTls"} THEN "ServerError" ELSE "reply", code)
  PROVE  InConnect'
<1>1. op # "none" /\ step \notin {"dial", "upgrade"}
  BY DEF CInv, Placed
<1>2. CASE op # "connect"
  BY <1>1, <1>2, NotConnected DEF Proceed, Return
<1>3. CASE op = "connect" /\ ~GoesOn(step, code)
  BY <1>3, NotConnected DEF Return
<1>4. CASE op = "connect" /\ GoesOn(step, code)
  <2>1. Proceed(NextStep(step), code) /\ UNCHANGED <<chan, lost, srv, endpoint>>
    BY <1>4 DEF Takes, serverVars
  <2>2. /\ lost = 0 /\ chan # "Closed" /\ AsWanted
        /\ step \in {"greeting", "pre_tls_ehlo", "startTls", "post_tls_ehlo", "hello", "authPlain"}
        /\ step \in SecureSteps => endpoint.security = "StartTls"
        /\ step = "hello" => endpoint.security # "StartTls"
        /\ step \in {"hello", "authPlain"} => endpoint.user
    BY <1>1, <1>4 DEF InConnect, Underway, ConnectSteps, SecureSteps
  <2>3. endpoint.security \in {"Plain", "Tls", "StartTls"}
    BY <1>4, ConnectSecurity
  <2>4. ASSUME step \in {"hello", "post_tls_ehlo"} PROVE srv.work.hello
    <3>1. 2 \in 1..Len(Unread) /\ code = Unread[2].line.code /\ code \in Nat \ {0}
      BY CodeRead DEF Takes
    <3>2. code < 400
      BY <1>4, <2>4, <3>1 DEF GoesOn, HelloOk, negative
    <3>3. code \in 1..399
      <4>1. \A x \in Nat \ {0} : x < 400 => x \in 1..399
        OBVIOUS
      <4>. QED
        BY <3>1, <3>2, <4>1
    <3>4. Len(Unread) >= 2
      BY <3>1, UnreadType
    <3>5. First(1..399)
      BY <3>1, <3>3, <3>4 DEF First
    <3>. QED
      BY <1>4, <2>4, <3>5 DEF InConnect, Introduced
  <2>5. step = "authPlain" => srv.work.hello
    BY <1>4 DEF InConnect, Introduced
  <2>6. NextStep(step) =
          CASE step = "greeting" /\ endpoint.security = "StartTls" -> "pre_tls_ehlo"
            [] step = "greeting" /\ endpoint.security # "StartTls" /\ endpoint.user -> "hello"
            [] step = "pre_tls_ehlo" -> "startTls"
            [] step = "startTls" -> "upgrade"
            [] step \in {"post_tls_ehlo", "hello"} /\ endpoint.user -> "authPlain"
            [] OTHER -> "done"
    BY <1>4, <2>2 DEF NextStep, AfterGreeting
  <2>7. CASE NextStep(step) = "done"
    <3>1. op' = "none"
      BY <2>1, <2>7 DEF Proceed, Return
    <3>2. \/ step = "greeting" /\ endpoint.security # "StartTls" /\ ~endpoint.user
          \/ step \in {"post_tls_ehlo", "hello", "authPlain"} /\ srv.work.hello
      BY <2>2, <2>4, <2>5, <2>6, <2>7
    <3>3. IF endpoint.security = "Plain" THEN Clear ELSE Encrypted
      BY <2>2, <2>3, <3>2 DEF AsWanted
    <3>. QED
      BY <2>1, <2>2, <3>1, <3>2, <3>3
         DEF InConnect, Underway, Introduced, Connected, Clear, Encrypted
  <2>8. CASE NextStep(step) # "done"
    <3>1. step' = NextStep(step) /\ op' = op /\ reading' = (NextStep(step) = "greeting")
      BY <2>1, <2>8 DEF Proceed
    <3>2. CASE step = "greeting"
      <4>1. \/ step' = "pre_tls_ehlo" /\ endpoint.security = "StartTls"
            \/ step' = "hello" /\ endpoint.security # "StartTls" /\ endpoint.user
        BY <2>6, <2>8, <3>1, <3>2
      <4>2. ~reading'
        BY <3>1, <4>1
      <4>3. AsWanted'
        BY <2>1, <2>2, <2>3, <3>2, <4>1 DEF AsWanted, Clear, Encrypted
      <4>. QED
        BY <1>4, <2>1, <2>2, <3>1, <4>1, <4>2, <4>3
           DEF InConnect, Underway, Introduced, Connected, ConnectSteps, SecureSteps
    <3>3. CASE step \in {"pre_tls_ehlo", "startTls"}
      <4>1. step' = (IF step = "startTls" THEN "upgrade" ELSE "startTls")
            /\ endpoint.security = "StartTls"
        BY <2>2, <2>6, <3>1, <3>3 DEF SecureSteps
      <4>2. AsWanted'
        BY <2>1, <2>2, <3>3, <4>1 DEF AsWanted, Clear
      <4>. QED
        BY <1>4, <2>1, <2>2, <3>1, <4>1, <4>2
           DEF InConnect, Underway, Introduced, Connected, ConnectSteps, SecureSteps
    <3>4. CASE step \in {"post_tls_ehlo", "hello", "authPlain"}
      <4>1. step' = "authPlain" /\ endpoint.user /\ srv.work.hello
        BY <2>2, <2>4, <2>5, <2>6, <2>8, <3>1, <3>4
      <4>2. AsWanted'
        BY <2>1, <2>2, <2>3, <3>4, <4>1 DEF AsWanted, Clear, Encrypted
      <4>. QED
        BY <1>4, <2>1, <2>2, <3>1, <4>1, <4>2
           DEF InConnect, Underway, Introduced, Connected, ConnectSteps, SecureSteps
    <3>. QED
      BY <2>2, <3>2, <3>3, <3>4
  <2>. QED
    BY <2>7, <2>8
<1>. QED
  BY <1>2, <1>3, <1>4

LEMMA ContinuesInConnect ==
  ASSUME CInv(Late), Wired, Lagging, InConnect, Continues PROVE InConnect'
<1>1. UNCHANGED serverVars /\ srv' = srv
  BY DEF Continues, serverVars
<1>2. CASE Unresolved \/ SendRefused
  BY <1>2, NotConnected DEF Unresolved, SendRefused, Return
<1>3. CASE UpgradeFails \/ RecvTimeout \/ ClosedAtOtherEnd \/ SendFails(Verb, Turn)
  BY <1>3, GiveUpInConnect DEF UpgradeFails, RecvTimeout, ClosedAtOtherEnd, RecvClosed, SendFails
<1>4. CASE RecvChunk
  <2>1. PICK chunk \in Chunks : LET data == buffer \o chunk IN
          \/ Incomplete(data) /\ Keeps(chunk)
          \/ /\ Complete(data) /\ Takes(chunk, ReplyIn(data))
             /\ LET code == Head(reply').code IN
                IF GoesOn(step, code) THEN Proceed(NextStep(step), code)
                ELSE Return(IF op \in {"connect", "startTls"} THEN "ServerError" ELSE "reply", code)
          \/ ~Incomplete(data) /\ ~Complete(data) /\ Rejects(chunk)
    BY <1>4 DEF RecvChunk
  <2>2. CASE Keeps(chunk)
    <3>1. UNCHANGED <<op, step, reading, lost, chan, endpoint, result>>
      BY <2>2 DEF Keeps, histVars
    <3>. QED
      BY <1>1, <2>2, <3>1, KeptUnread, SameInConnect
  <2>3. CASE Rejects(chunk)
    BY <2>3, GiveUpInConnect DEF Rejects
  <2>4. CASE Complete(buffer \o chunk) /\ ~Keeps(chunk) /\ ~Rejects(chunk)
    <3>. DEFINE code == Head(reply').code
    <3>1. /\ reading /\ Takes(chunk, ReplyIn(buffer \o chunk))
          /\ IF GoesOn(step, code) THEN Proceed(NextStep(step), code)
             ELSE Return(IF op \in {"connect", "startTls"} THEN "ServerError" ELSE "reply", code)
      BY <1>4, <2>1, <2>4 DEF RecvChunk
    <3>2. code = Head(reply').code
      OBVIOUS
    <3>. HIDE DEF code
    <3>. QED
      BY <1>1, <2>4, <3>1, <3>2, TakesInConnect
  <2>. QED
    BY <2>1, <2>2, <2>3, <2>4
<1>. QED
  BY <1>1, <1>2, <1>3, <1>4, SendsInConnect DEF Continues

\* The server says it waits for the handshake only when it was asked to, and
\* grants the EHLO of connect only by knowing the client.
LEMMA ServerInConnect ==
  ASSUME CInv(Late), Wired, Wired', Bodied, Lagging, AllWhole, Heard, InConnect,
         UNCHANGED clientVars, Serves \/ Leaves
  PROVE  InConnect'
<1>1. /\ UNCHANGED <<op, step, reading, lost, chan, endpoint, result>> /\ srv.open
      /\ srv.work.hello => srv'.work.hello
      /\ srv'.tls # srv.tls => c2s # <<>> /\ \E i \in DOMAIN c2s : c2s[i].verb = "startTls"
  BY ServerMeans DEF clientVars, callVars, histVars
<1>2. ASSUME lost = 0, srv'.tls # srv.tls PROVE reading /\ step = "startTls"
  <2>1. reading
    BY <1>1, <1>2, AskedAlone
  <2>2. Verb = "startTls"
    BY <1>1, <1>2 DEF Heard
  <2>. QED
    BY <2>1, <2>2 DEF Verb
<1>3. Connected'
  <2>1. SUFFICES ASSUME op = "none", result.of = "connect", result.kind = "ok" PROVE Connected'
    BY <1>1 DEF Connected
  <2>2. lost = 0 /\ ~reading
    BY <2>1 DEF InConnect, Connected, CInv, Placed
  <2>3. srv'.tls = srv.tls
    BY <1>2, <2>2
  <2>. QED
    BY <1>1, <2>3 DEF InConnect, Connected, Clear, Encrypted
<1>4. Underway'
  <2>1. SUFFICES ASSUME op = "connect", step # "dial" PROVE AsWanted'
    BY <1>1 DEF InConnect, Underway
  <2>2. /\ lost = 0 /\ AsWanted /\ endpoint.security \in {"Plain", "Tls", "StartTls"}
        /\ step = "startTls" => endpoint.security = "StartTls"
    BY <2>1, ConnectSecurity DEF InConnect, Underway, SecureSteps
  <2>3. CASE step = "startTls"
    BY <1>1, <2>2, <2>3 DEF AsWanted
  <2>4. CASE step # "startTls"
    <3>1. srv'.tls = srv.tls
      BY <1>2, <2>2, <2>4
    <3>. QED
      BY <1>1, <2>2, <3>1 DEF AsWanted, Clear, Encrypted
  <2>. QED
    BY <2>3, <2>4
<1>5. Introduced'
  <2>1. SUFFICES ASSUME op = "connect", step \in {"hello", "post_tls_ehlo"}, reading, First(1..399)'
                 PROVE  srv'.work.hello
    BY <1>1 DEF InConnect, Introduced
  <2>2. lost = 0
    BY <2>1 DEF InConnect, Underway
  <2>3. CASE c2s = <<>>
    <3>1. srv.greeted
      BY <1>1, <2>1, <2>2 DEF Heard
    <3>2. Len(Unread') >= 2 /\ Unread'[2].line.code \in 1..399
      BY <2>1 DEF First
    <3>3. \/ Len(Unread) >= 2 /\ Unread'[2] = Unread[2]
          \/ Unread'[2].line.code = 421
      BY <2>3, <3>1, <3>2, IdleMeans
    <3>4. 421 \notin 1..399
      OBVIOUS
    <3>5. First(1..399)
      BY <3>2, <3>3, <3>4 DEF First
    <3>. QED
      BY <1>1, <2>1, <3>5 DEF InConnect, Introduced
  <2>4. CASE c2s # <<>>
    <3>1. c2s[1].verb = "ehlo"
      BY <1>1, <2>1, <2>2, <2>4, AskedAlone DEF Heard, Verb
    <3>. QED
      BY <2>1, <2>2, <2>4, <3>1, AnswerMeans
  <2>. QED
    BY <2>3, <2>4
<1>. QED
  BY <1>3, <1>4, <1>5 DEF InConnect

LEMMA NextInConnect ==
  ASSUME CInv(Late), Wired, Wired', Bodied, Lagging, AllWhole, Heard, InConnect, [Next]_vars
  PROVE  InConnect'
<1>1. CASE Dials
  <2>1. /\ Proceed("greeting", 0) /\ op = "connect" /\ lost' = 0 /\ endpoint' = endpoint
        /\ chan' = (IF endpoint.security = "Tls" THEN "Tls" ELSE "Plain")
        /\ srv' = Fresh(IF endpoint.security = "Tls" THEN "on" ELSE "clear", NewWork)
    BY <1>1 DEF Dials, DialsTo, DialSucceeds, NextStep, AfterDial, CInv, Placed
  <2>2. op' = "connect" /\ step' = "greeting"
        /\ srv'.tls = (IF endpoint.security = "Tls" THEN "on" ELSE "clear")
    BY <2>1 DEF Proceed, Fresh
  <2>3. endpoint.security \in {"Plain", "Tls", "StartTls"}
    BY <2>1, ConnectSecurity
  <2>4. AsWanted'
    BY <2>1, <2>2, <2>3 DEF AsWanted, Clear, Encrypted
  <2>. QED
    BY <2>1, <2>2, <2>4
       DEF InConnect, Underway, Introduced, Connected, ConnectSteps, SecureSteps
<1>2. CASE Upgrades
  <2>1. /\ Proceed(NextStep("upgrade"), LastCode) /\ step = "upgrade" /\ chan' = "Tls"
        /\ UNCHANGED <<endpoint, lost>> /\ srv' = Secured(srv, NewWork)
    BY <1>2 DEF Upgrades, UpgradesTo, UpgradeSucceeds, histVars
  <2>2. srv'.tls = "on" /\ op # "none"
    BY <2>1 DEF Secured, Wired, CInv, Placed
  <2>3. CASE op # "connect"
    BY <2>1, <2>2, <2>3, NotConnected DEF Proceed, Return
  <2>4. CASE op = "connect"
    <3>1. lost = 0 /\ endpoint.security = "StartTls" /\ NextStep("upgrade") = "post_tls_ehlo"
      BY <2>1, <2>4 DEF InConnect, Underway, SecureSteps, NextStep
    <3>2. op' = "connect" /\ step' = "post_tls_ehlo" /\ ~reading'
      BY <2>1, <2>4, <3>1 DEF Proceed
    <3>3. AsWanted'
      BY <2>1, <2>2, <3>1, <3>2 DEF AsWanted, Encrypted
    <3>. QED
      BY <2>1, <3>1, <3>2, <3>3
         DEF InConnect, Underway, Introduced, Connected, ConnectSteps, SecureSteps
  <2>. QED
    BY <2>3, <2>4
<1>3. CASE DialFailed \/ RecvFails
  <2>1. Return("ConnectionError", 0) \/ Return("RecvError", 0)
    BY <1>3 DEF DialFailed, DialFails, RecvFails, GiveUp
  <2>2. op' = "none" /\ result'.kind \in {"ConnectionError", "RecvError"}
    BY <2>1 DEF Return
  <2>. QED
    BY <2>2, NotConnected
<1>4. CASE Closes
  <2>1. op' = "none" /\ result'.of = "close"
    BY <1>4 DEF Closes, CloseEnds, Return, CInv, Placed
  <2>. QED
    BY <2>1, NotConnected
<1>5. CASE Continues
  BY <1>5, ContinuesInConnect
<1>6. CASE \E m \in Methods : Call(m)
  <2>1. op' \notin {"none", "connect"}
    BY <1>6, SmtpAssumption DEF SmtpAssumption, AllMethods, Call, Begin
  <2>. QED
    BY <2>1, NotConnected
<1>7. CASE Close \/ \E e \in Endpoints : Connect(e) \/ ConnectWrongScheme(e)
  <2>1. \/ op' = "connect" /\ step' = "dial"
        \/ op' = "close"
        \/ op' = "none" /\ result'.kind = "InvalidScheme"
    BY <1>7 DEF Close, Connect, ConnectTo, Begin, ConnectWrongScheme, RefuseScheme, Answers, callVars
  <2>. QED
    BY <2>1, NotConnected
<1>8. CASE ServerStep
  BY <1>8, ServerInConnect DEF ServerStep
<1>9. CASE UNCHANGED vars \/ TakesLate
  <2>1. UNCHANGED <<op, step, reading, lost, chan, endpoint, result, srv>> /\ Unread' = Unread
    BY <1>9 DEF vars, mailVars, clientVars, callVars, histVars, wire, serverVars, TakesLate, Unread
  <2>. QED
    BY <2>1, SameInConnect
<1>. QED
  BY <1>1, <1>2, <1>3, <1>4, <1>5, <1>6, <1>7, <1>8, <1>9 DEF Next, Departs, ClientStep

LEMMA ConnectedIsEnough == ASSUME InConnect PROVE ConnectOkMeansSecured
BY DEF InConnect, Connected, Clear, Encrypted, ConnectOkMeansSecured, ChannelAsAsked

LEMMA InitInConnect == ASSUME Init PROVE InConnect
BY DEF Init, SessionInit, ClientInit, InConnect, Underway, Introduced, Connected
-----------------------------------------------------------------------------
\* The user name and the password of SmtpClient::authLogin are read by a server
\* that has just asked for them, while nothing was given up: authLogin goes on
\* only with the 334 that answers its own last line.
THEOREM SmtpLoginLinesWhereAsked == Spec => []LoginLinesWhereAsked
<1>1. /\ CInv(Late) /\ Wired /\ Bodied /\ Lagging /\ Honest /\ Strays /\ Enveloped /\ Stamped
      /\ Heard /\ Prompted /\ [Next]_vars
      => /\ CInv(Late)' /\ Wired' /\ Bodied' /\ Lagging' /\ Honest' /\ Strays' /\ Enveloped'
         /\ Stamped' /\ Heard' /\ Prompted'
  BY NextSmtp, NextWired, NextBodied, NextLag, NextHonest, NextStrays, NextEnveloped, NextStamped,
     NextPrompted DEF Enveloped
<1>2. Init => /\ CInv(Late) /\ Wired /\ Bodied /\ Lagging /\ Honest /\ Strays /\ Enveloped
              /\ Stamped /\ Heard /\ Prompted
  BY InitSmtp, InitWired, InitBodied, InitLag, InitHonest, InitEnveloped, InitPrompted
<1>3. CInv(Late) /\ Wired /\ Lagging /\ Enveloped /\ Heard /\ Prompted => LoginLinesWhereAsked
  BY PromptedIsEnough DEF Enveloped
<1>. QED
  BY <1>1, <1>2, <1>3, PTL DEF Spec

\* SmtpClient::connect succeeds only on the channel its endpoint asked for, on
\* which the server agrees, and where it has said EHLO for STARTTLS or to log
\* in, to a server that knows the client on that very channel.
THEOREM SmtpConnectOkMeansSecured == Spec => []ConnectOkMeansSecured
<1>1. /\ CInv(Late) /\ Wired /\ Bodied /\ Lagging /\ Honest /\ Strays /\ Enveloped /\ Stamped
      /\ Heard /\ Prompted /\ InConnect /\ [Next]_vars
      => /\ CInv(Late)' /\ Wired' /\ Bodied' /\ Lagging' /\ Honest' /\ Strays' /\ Enveloped'
         /\ Stamped' /\ Heard' /\ Prompted' /\ InConnect'
  BY NextSmtp, NextWired, NextBodied, NextLag, NextHonest, NextStrays, NextEnveloped, NextStamped,
     NextPrompted, NextInConnect DEF Enveloped
<1>2. Init => /\ CInv(Late) /\ Wired /\ Bodied /\ Lagging /\ Honest /\ Strays /\ Enveloped
              /\ Stamped /\ Heard /\ Prompted /\ InConnect
  BY InitSmtp, InitWired, InitBodied, InitLag, InitHonest, InitEnveloped, InitPrompted,
     InitInConnect
<1>3. InConnect => ConnectOkMeansSecured
  BY ConnectedIsEnough
<1>. QED
  BY <1>1, <1>2, <1>3, PTL DEF Spec

=============================================================================
