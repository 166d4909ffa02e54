----------------------------- MODULE SmtpServer -----------------------------
(***************************************************************************)
(* An SMTP server: one that keeps to the order of commands of the          *)
(* protocol, answers each whole command it reads outside a message once,   *)
(* with one or more lines, may refuse anything it is asked, and may        *)
(* announce that it goes away (421).                                       *)
(***************************************************************************)
EXTENDS MailServer

CONSTANT MaxLines    \* most lines of one reply (bound)

ASSUME SmtpServerAssumption == MaxLines \in Nat \ {0}

Modes == {"command", "username", "password", "data"}

NewWork == [mode |-> "command", hello |-> FALSE, auth |-> FALSE, from |-> 0, to |-> <<>>]

\* The mail being composed starts over; so does the login after a handshake.
NoMail(w) == [w EXCEPT !.from = 0, !.to = <<>>, !.mode = "command"]

\* The reply to c: up to MaxLines lines, or one line that has no code.
Replies(c, code) ==
  \/ \E n \in 1..MaxLines : Writes([i \in 1..n |-> Line(c.no, code, i = n)])
  \/ WritesBadLine(c.no)

Greets ==
  /\ srv.open /\ ~srv.greeted
  /\ \E code \in {220, 554} : Replies([no |-> 0], code)
  /\ srv' = [srv EXCEPT !.greeted = TRUE]
  /\ UNCHANGED <<c2s, store>>

-----------------------------------------------------------------------------
\* A command that is in order, and what it does to the session.
Accepts(c, code, work) == Replies(c, code) /\ srv' = Working(work) /\ UNCHANGED store
AcceptsCommand(c, w) ==
  \/ c.verb \in {"ehlo", "helo"} /\ Accepts(c, 250, [NoMail(w) EXCEPT !.hello = TRUE])
  \/ /\ c.verb = "startTls" /\ w.hello /\ srv.tls = "clear"
     /\ Replies(c, 220) /\ srv' = [srv EXCEPT !.tls = "await"] /\ UNCHANGED store
  \/ c.verb = "authPlain" /\ w.hello /\ ~w.auth /\ Accepts(c, 235, [w EXCEPT !.auth = TRUE])
  \/ c.verb = "authLogin" /\ w.hello /\ ~w.auth /\ Accepts(c, 334, [w EXCEPT !.mode = "username"])
  \/ c.verb = "mailFrom" /\ w.hello /\ w.from = 0 /\ Accepts(c, 250, [w EXCEPT !.from = c.call])
  \/ /\ c.verb = "rcptTo" /\ w.from # 0
     /\ Accepts(c, 250, [w EXCEPT !.to = Append(@, [mail |-> c.call, rcpt |-> c.turn])])
  \/ c.verb = "data" /\ w.to # <<>> /\ Accepts(c, 354, [w EXCEPT !.mode = "data"])
  \/ c.verb = "quit" /\ Replies(c, 221) /\ srv' = Gone(srv) /\ UNCHANGED store

AcceptsCredential(c, w) ==
  \/ /\ w.mode = "username" /\ c.verb = "authLoginUsername"
     /\ Accepts(c, 334, [w EXCEPT !.mode = "password"])
  \/ /\ w.mode = "password" /\ c.verb = "authLoginPassword"
     /\ Accepts(c, 235, [w EXCEPT !.mode = "command", !.auth = TRUE])

\* Out of order, unknown, or simply not granted.
Refuses(c, w) == Accepts(c, 550, [w EXCEPT !.mode = "command"])

Mail(c, w) == [from |-> w.from, to |-> w.to, body |-> c.call, by |-> c.by, rcpts |-> c.arg,
               lost |-> c.lost]

\* The body in data mode ends the mail, accepted or not.
TakesBody(c, w) ==
  /\ srv' = Working(NoMail(w))
  /\ \/ Replies(c, 250) /\ store' = store \cup {Mail(c, w)}
     \/ Replies(c, 554) /\ UNCHANGED store

\* The mail whose text was sent and has not been read: a server the client
\* leaves now may still take it.  (Commands read before it are text.)
LeftBehind ==
  {Mail(c, srv.work) : c \in {d \in InFlight : srv.open /\ srv.work.mode = "data"
                                               /\ d.whole /\ d.verb = "dataBody"}}

-----------------------------------------------------------------------------
\* The next command is whole; outside a message it is answered.
Handles ==
  /\ Reads /\ Head(c2s).whole /\ c2s' = Tail(c2s)
  /\ LET c == Head(c2s)  w == srv.work IN
       \/ w.mode # "data" /\ Refuses(c, w)
       \/ w.mode = "command" /\ AcceptsCommand(c, w)
       \/ AcceptsCredential(c, w)
       \/ w.mode = "data" /\ c.verb = "dataBody" /\ TakesBody(c, w)
       \/ w.mode = "data" /\ c.verb # "dataBody" /\ UNCHANGED <<s2c, serverVars>>

\* A command cut short is joined with what comes next: in a message it is
\* text, otherwise the line makes no sense and is refused with the next one.
HandlesPartial ==
  /\ Reads /\ ~Head(c2s).whole
  /\ \/ srv.work.mode = "data" /\ c2s' = Tail(c2s) /\ UNCHANGED <<s2c, serverVars>>
     \/ /\ srv.work.mode # "data" /\ Len(c2s) > 1 /\ c2s[2].whole
        /\ c2s' = Tail(Tail(c2s)) /\ Refuses(c2s[2], srv.work)

Shutdown ==
  /\ srv.open /\ srv.tls # "await"
  /\ Writes(<<Line(0, 421, TRUE)>>) /\ srv' = Gone(srv) /\ UNCHANGED <<c2s, store>>

Serves == Greets \/ Handles \/ HandlesPartial \/ JoinsPartials \/ AbortsHandshake
Leaves == Shutdown \/ Crash
=============================================================================
