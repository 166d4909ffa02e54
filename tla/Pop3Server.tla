----------------------------- MODULE Pop3Server -----------------------------
(***************************************************************************)
(* A POP3 server: it answers each whole command it reads once, may refuse  *)
(* anything it is asked, and takes marked messages out of the maildrop     *)
(* when it is told to quit.  The numbers of the messages are their places  *)
(* in the maildrop when the client logs in.                                *)
(***************************************************************************)
EXTENDS MailServer, Pop3Lines

CONSTANT Maildrop    \* the messages at first: sequences of lines, each as in Pop3Lines

\* A line that is a dot has another dot in front of it on the wire, which makes
\* it Text (the client takes it off again, Pop3Parser).
Messages == Seq({Ok, Err, Text})

ASSUME MaildropAssumption == Maildrop \in Seq(Messages)

NewWork == [user |-> FALSE, login |-> FALSE, marked |-> {}]

Listed(w) == DOMAIN store \ w.marked

\* +OK or -ERR, and a text that ends in a dot.
Status(c, code) == Writes(<<Line(c.no, code, TRUE)>>) \/ WritesBadLine(c.no)
WithText(c, body) ==
  \/ LET codes == <<Ok>> \o body \o <<Dot>>
     IN  Writes([i \in DOMAIN codes |-> Line(c.no, codes[i], i = Len(codes))])
  \/ WritesBadLine(c.no)

Greets ==
  /\ srv.open /\ ~srv.greeted
  /\ \E code \in {Ok, Err} : Status([no |-> 0], code)
  /\ srv' = [srv EXCEPT !.greeted = TRUE]
  /\ UNCHANGED <<c2s, store>>

-----------------------------------------------------------------------------
\* Before the login, and after it.
Authorizes(c, w) ==
  \/ /\ c.verb = "user" /\ Status(c, Ok) /\ srv' = Working([w EXCEPT !.user = TRUE])
  \/ /\ \/ c.verb = "pass" /\ w.user
        \/ c.verb = "authPlain"
     /\ Status(c, Ok) /\ srv' = Working([w EXCEPT !.login = TRUE])
  \/ c.verb = "stls" /\ srv.tls = "clear" /\ Status(c, Ok) /\ srv' = [srv EXCEPT !.tls = "await"]

Transacts(c, w) ==
  \/ c.verb \in {"stat", "noop"} /\ Status(c, Ok) /\ UNCHANGED srv
  \/ c.verb = "list" /\ c.arg = 0 /\ WithText(c, [n \in 1..Cardinality(Listed(w)) |-> Text])
       /\ UNCHANGED srv
  \/ c.verb = "list" /\ c.arg \in Listed(w) /\ Status(c, Ok) /\ UNCHANGED srv
  \/ c.verb = "retr" /\ c.arg \in Listed(w) /\ WithText(c, store[c.arg]) /\ UNCHANGED srv
  \/ c.verb = "dele" /\ c.arg \in Listed(w) /\ Status(c, Ok)
       /\ srv' = Working([w EXCEPT !.marked = @ \cup {c.arg}])
  \/ c.verb = "rset" /\ Status(c, Ok) /\ srv' = Working([w EXCEPT !.marked = {}])

Refuses(c, w) == Status(c, Err) /\ srv' = Working([w EXCEPT !.user = FALSE])

Quits(c, w) ==
  /\ c.verb = "quit" /\ Status(c, Ok) /\ srv' = Gone(srv)
  /\ store' = Without(store, w.marked)

\* The next command is whole, or it is joined with what comes next to a line
\* that makes no sense.
Handles ==
  /\ Reads /\ Head(c2s).whole /\ c2s' = Tail(c2s)
  /\ LET c == Head(c2s)  w == srv.work IN
       \/ /\ \/ ~w.login /\ Authorizes(c, w)
             \/ w.login /\ Transacts(c, w)
             \/ c.verb = "capa" /\ WithText(c, <<Text>>) /\ UNCHANGED srv
             \/ Refuses(c, w)
          /\ UNCHANGED store
       \/ Quits(c, w)

HandlesPartial ==
  /\ Reads /\ ~Head(c2s).whole /\ Len(c2s) > 1 /\ c2s[2].whole
  /\ c2s' = Tail(Tail(c2s)) /\ Refuses(c2s[2], srv.work) /\ UNCHANGED store

\* What a server the client leaves now may still remove: a QUIT was sent and has
\* not been read, and the user was let in or may be by the commands before it.
LeftBehind ==
  LET verbs == {c.verb : c \in {d \in InFlight : d.whole}}
      quits == /\ srv.open /\ srv.tls # "await" /\ "quit" \in verbs
               /\ srv.work.login \/ verbs \cap {"pass", "authPlain"} # {}
      drops == srv.work.marked \cup {c.arg : c \in {d \in InFlight : d.verb = "dele"}}
  IN IF quits THEN {[since |-> Head(c2s).call, login |-> srv.work.login, marked |-> drops]}
     ELSE {}

Serves == Greets \/ Handles \/ HandlesPartial \/ JoinsPartials \/ AbortsHandshake
=============================================================================
