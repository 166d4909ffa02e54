----------------------------- MODULE ReplyReader -----------------------------
(***************************************************************************)
(* readReply of both clients with the real parsers: a server writes a      *)
(* reply and perhaps something more; the text arrives in chunks cut        *)
(* anywhere; the whole buffer is parsed after every chunk.                 *)
(***************************************************************************)
EXTENDS SmtpParser, Pop3Parser

CONSTANTS MaxLines,  \* lines of a reply (bound)
          MaxText    \* symbols in a line besides the code (bound)

ASSUME ReaderAssumption == MaxLines \in Nat \ {0} /\ MaxText \in Nat

VARIABLES written,   \* what the server wrote: [parse, multiline, lines, end, means]:
                     \* how it is read, the lines of text, the line the reply
                     \* ends with, and what a reader should make of it
          text,      \* the same as text, with what follows it
          got,       \* how much of it has arrived (the size of the buffer)
          parsed     \* what parse made of that

vars == <<written, text, got, parsed>>

\* What a line can hold: no CRLF, but CR and LF alone.
Contents(symbols) ==
  {s \in UNION {[1..n -> symbols] : n \in 0..MaxText} :
     ~\E i \in 1 .. Len(s) - 1 : s[i] = CR /\ s[i + 1] = LF}

Reply(status, message, lines) ==
  [kind |-> "reply", status |-> status, message |-> message, lines |-> lines]
Error(kind) == [kind |-> kind]

\* An SMTP reply: the same code in every line, a hyphen behind it in all but
\* the last.
SmtpLine(i, n, t) == <<"2", "5", "0", IF i = n THEN SP ELSE "-">> \o t
SmtpReplies ==
  {[parse |-> "Smtp", multiline |-> FALSE, lines |-> [i \in DOMAIN ts |-> SmtpLine(i, Len(ts), ts[i])],
    end |-> Len(ts), means |-> Reply(<<"2", "5", "0">>, <<>>, ts)] :
     ts \in UNION {[1..n -> Contents({"x", "-", CR, LF})] : n \in 1..MaxLines}}

\* ... and one in which a line is not as it should be.
Malformed(k) ==
  {[line |-> <<>>, means |-> "InvalidFormat"], [line |-> <<"2", "5", "0">>, means |-> "InvalidFormat"],
   [line |-> <<"2", "x", "0", SP>>, means |-> "InvalidFormat"],
   [line |-> <<"2", "5", "0", "0", SP>>, means |-> "InvalidFormat"]} \cup
  IF k = 1 THEN {} ELSE {[line |-> <<"5", "5", "0", SP>>, means |-> "InvalidCode"]}
BadSmtpReplies ==
  UNION {{[parse |-> "Smtp", multiline |-> FALSE,
           lines |-> [i \in 1..n |-> IF i = k THEN bad.line ELSE SmtpLine(i, n, <<"x">>)],
           end |-> k, means |-> Error(bad.means)] :
            n \in k..MaxLines, bad \in Malformed(k)} : k \in 1..MaxLines}

\* A POP3 reply with its message; behind +OK perhaps text, with the dots at
\* the start of lines doubled.
Stuffed(line) == IF IsPrefix(<<".">>, line) THEN <<".">> \o line ELSE line
StatusLine(status, m) == <<status, SP>> \o m
Pop3Replies ==
  {[parse |-> "Pop3", multiline |-> r.multi, lines |-> <<StatusLine(r.status, <<"x">>)>>,
    end |-> 1, means |-> Reply(r.status, <<"x">>, <<>>)] :
     r \in [status : {"+OK", "-ERR"}, multi : BOOLEAN] \ {[status |-> "+OK", multi |-> TRUE]}} \cup
  {[parse |-> "Pop3", multiline |-> TRUE,
    lines |-> <<StatusLine("+OK", <<>>)>> \o [i \in DOMAIN ts |-> Stuffed(ts[i])] \o <<<<".">>>>,
    end |-> Len(ts) + 2, means |-> Reply("+OK", <<>>, ts)] :
     ts \in UNION {[1..n -> Contents({"x", ".", CR, LF})] : n \in 0..MaxLines}} \cup
  {[parse |-> "Pop3", multiline |-> multi, lines |-> <<bad>>, end |-> 1,
    means |-> Error("InvalidFormat")] :
     bad \in {<<>>, <<"x">>, <<SP, "+OK">>}, multi \in BOOLEAN}

\* What may come behind a reply in the same chunk.
Surplus == {<<>>, <<"2">>, <<"5", "5", "0", SP, CR, LF>>, <<".", CR, LF>>, <<LF>>}

Init ==
  /\ written \in SmtpReplies \cup BadSmtpReplies \cup Pop3Replies
  /\ \E more \in Surplus : text = Joined(written.lines) \o more
  /\ got = 0 /\ parsed = [kind |-> "Incomplete"]

Parse(data) ==
  IF written.parse = "Smtp" THEN SmtpParse(data) ELSE Pop3Parse(data, written.multiline)

RecvChunk ==
  /\ parsed.kind = "Incomplete"
  /\ \E n \in (got + 1)..Len(text) : got' = n /\ parsed' = Parse(SubSeq(text, 1, n))
  /\ UNCHANGED <<written, text>>

Spec == Init /\ [][RecvChunk]_vars
-----------------------------------------------------------------------------
\* Where the reply ends, or the line that is none.
End == Len(Joined(SubSeq(written.lines, 1, written.end)))

\* readReply goes on exactly until the last line end of the reply has arrived:
\* no cut, no text in the lines and nothing behind the reply makes it stop
\* early or wait for more.
StopsAtTheEnd == parsed.kind = "Incomplete" <=> got < End

\* What it returns is what the server wrote: the code, the lines (without the
\* dots the server put before them), or that a line is malformed; and all of
\* it is consumed and nothing else.
ReadsWhatWasWritten ==
  got >= End =>
    /\ parsed.kind = written.means.kind
    /\ parsed.kind = "reply" =>
         /\ parsed.status = written.means.status /\ parsed.message = written.means.message
         /\ parsed.lines = written.means.lines
         /\ parsed.used = End
=============================================================================
