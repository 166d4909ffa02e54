----------------------------- MODULE Pop3Parser -----------------------------
(***************************************************************************)
(* Pop3Parser::parse (protocol/pop3_protocol.cc) on text.  "+OK" and       *)
(* "-ERR" are one symbol each.                                             *)
(***************************************************************************)
EXTENDS MailText

HasStatus(first) == first # <<>> /\ Head(first) \in {"+OK", "-ERR"}

\* The message follows a space; without one it is empty.
Message(first) == IF Len(first) > 1 /\ first[2] = SP THEN Rest(first, 3) ELSE <<>>

UnstuffNone(line) == line   \* faulty: the dots are left in
Unstuff(line) == IF IsPrefix(<<".", ".">>, line) THEN Tail(line) ELSE line

FinalPrefix(line) == IsPrefix(<<".">>, line)   \* faulty: any line with a dot in front
Final(line) == line = <<".">>

Pop3Parse(data, multiline) ==
  LET ls    == Lines(data)
      text  == multiline /\ Head(ls[1]) = "+OK"
      final == {k \in 2..Len(ls) : Final(ls[k])}
      reply(last, k) ==
        [kind |-> "reply", status |-> Head(ls[1]), message |-> Message(ls[1]),
         lines |-> [i \in 1..(last - 1) |-> Unstuff(ls[i + 1])], used |-> Behind(data, k)]
  IN  CASE ls = <<>> -> [kind |-> "Incomplete"]
        [] ls # <<>> /\ ~HasStatus(ls[1]) -> [kind |-> "InvalidFormat"]
        [] ls # <<>> /\ HasStatus(ls[1]) /\ ~text -> reply(1, 1)
        [] OTHER -> IF final = {} THEN [kind |-> "Incomplete"]
                    ELSE reply(Min(final) - 1, Min(final))
=============================================================================
