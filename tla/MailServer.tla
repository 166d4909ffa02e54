----------------------------- MODULE MailServer -----------------------------
(***************************************************************************)
(* The server at the other end, which is not part of the repository, as    *)
(* far as SMTP and POP3 servers are alike: a connection that is greeted    *)
(* and may be encrypted, on which every whole command that is read is      *)
(* answered, and which may end at any time.                                *)
(***************************************************************************)
EXTENDS MailWire

CONSTANT BadLines    \* whether it may write a line that is no reply (restriction)

ASSUME ServerAssumption == BadLines \in BOOLEAN

VARIABLES srv,       \* the server's side of the connection; "work" is what
                     \* the protocol keeps there
          store      \* what outlives the connection: the messages an SMTP
                     \* server accepted, or those in a maildrop

serverVars == <<srv, store>>

Fresh(tls, work) == [open |-> TRUE, greeted |-> FALSE, tls |-> tls, work |-> work]
Gone(s)          == [s EXCEPT !.open = FALSE]
Secured(s, work) == [s EXCEPT !.tls = "on", !.work = work]
Working(work)    == [srv EXCEPT !.work = work]

ServerInit(work) == srv = Gone(Fresh("clear", work))

\* It can read a command now.
Reads == srv.open /\ srv.greeted /\ srv.tls # "await" /\ c2s # <<>>

\* A line of the reply to command number re (0: unasked).
Line(re, code, last) == [re |-> re, code |-> code, last |-> last, enc |-> srv.tls = "on"]

Writes(lines) == s2c' = s2c \o Pieces(lines)

\* A line that is no reply: it has no code where one is expected.
WritesBadLine(re) == BadLines /\ Writes(<<Line(re, 0, TRUE)>>)

\* It waits for a TLS handshake and reads something else.
AbortsHandshake ==
  /\ srv.open /\ srv.tls = "await" /\ c2s # <<>>
  /\ srv' = Gone(srv) /\ UNCHANGED <<wire, store>>

\* A command cut short, followed by another one cut short.
JoinsPartials ==
  /\ Reads /\ ~Head(c2s).whole /\ Len(c2s) > 1 /\ ~c2s[2].whole
  /\ c2s' = Tail(c2s) /\ UNCHANGED <<s2c, serverVars>>

\* The server or its host dies, and the client finds the connection closed;
\* what was on its way may be lost.  (Where the network fails, the client gets an
\* error or a timeout, and the server goes on with what it has.)
Crash ==
  /\ srv.open /\ srv' = Gone(srv)
  /\ s2c' \in {SubSeq(s2c, 1, n) : n \in 0..Len(s2c)}
  /\ UNCHANGED <<c2s, store>>
=============================================================================
