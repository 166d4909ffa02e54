--------------------------- MODULE SmtpDataProofs ---------------------------
(***************************************************************************)
(* Theorems about SmtpData for messages of any length and both kinds of    *)
(* server, and their proofs.  IInv ties the encoder's only state, the flag *)
(* at_line_start and the last two characters written, to the place in the  *)
(* text where the server is.                                               *)
(***************************************************************************)
EXTENDS SmtpData, SequenceTheorems, TLAPS

Reader == [at : Places, got : Seq(Chars)]
InText == {"start", "cr", "text"}

\* The last characters written are the last ones read from the message.
Tail2 ==
  /\ i = 0 => out = <<>>
  /\ i > 0 => Len(out) > 0 /\ out[Len(out)] = message[i]
  /\ EndsInCrlf <=> i > 1 /\ message[i - 1] = "\r" /\ message[i] = "\n"

\* Between two turns of the loop the server is in the text, never after a dot
\* that could turn out to be the end; it is at the start of a line only if the
\* encoder thinks so too, and surely after a CRLF.
InStep ==
  /\ reader.at \in InText
  /\ reader.at = "start" => at_line_start
  /\ i = 0 => reader.at = "start"
  /\ i > 0 /\ message[i] = "\r" => reader.at = "cr"
  /\ i > 0 /\ message[i] = "\n" /\ (lenient \/ EndsInCrlf) => reader.at = "start"
  /\ at_line_start <=> i = 0 \/ message[i] = "\n"

IInv ==
  /\ TypeOK
  /\ ~finished => Tail2 /\ InStep
  /\ finished => i = Len(message) /\ reader.at = "end"
  /\ ArrivesUnchanged
-----------------------------------------------------------------------------
(* What one character does to the server, in the text and after a dot.     *)

LEMMA ReceiveType ==
  ASSUME NEW r \in Reader, NEW ch \in Chars, lenient \in BOOLEAN
  PROVE  Receive(r, ch) \in Reader
BY DEF Receive, Reader, Places, Got, Ends, Chars

LEMMA ReceiveInText ==
  ASSUME NEW r \in Reader, NEW ch \in Chars, r.at \in InText, ~(r.at = "start" /\ ch = ".")
  PROVE  /\ Receive(r, ch).got = r.got \o <<ch>>
         /\ Receive(r, ch).at = IF ch = "\n" /\ (lenient \/ r.at = "cr") THEN "start"
                                ELSE IF ch = "\r" THEN "cr" ELSE "text"
BY DEF Receive, Reader, InText, Got, Ends, Chars

\* A stuffed dot is taken off again.
LEMMA ReceiveStuffed ==
  ASSUME NEW r \in Reader, r.at = "start"
  PROVE  /\ Receive(Receive(r, "."), ".").got = r.got \o <<".">>
         /\ Receive(Receive(r, "."), ".").at = "text"
BY DEF Receive, Reader, Places, Got, Ends

LEMMA ReceiveCrlfInText ==
  ASSUME NEW r \in Reader, r.at \in InText, lenient \in BOOLEAN
  PROVE  /\ ReceiveCrlf(r) \in Reader
         /\ ReceiveCrlf(r).at = "start" /\ ReceiveCrlf(r).got = r.got \o CRLF
<1>. DEFINE c == Receive(r, "\r")
<1>1. c \in Reader /\ c.got = r.got \o <<"\r">> /\ c.at = "cr"
  BY ReceiveType, ReceiveInText DEF Chars
<1>2. ReceiveCrlf(r) \in Reader /\ ReceiveCrlf(r).got = c.got \o <<"\n">>
      /\ ReceiveCrlf(r).at = "start"
  BY <1>1, ReceiveType, ReceiveInText DEF ReceiveCrlf, InText, Chars
<1>3. (r.got \o <<"\r">>) \o <<"\n">> = r.got \o CRLF
  BY DEF Reader, CRLF, Chars
<1>. QED
  BY <1>1, <1>2, <1>3

\* The final line.
LEMMA ReceiveFinalLine ==
  ASSUME NEW r \in Reader, r.at = "start"
  PROVE  /\ ReceiveCrlf(Receive(r, ".")).at = "end"
         /\ ReceiveCrlf(Receive(r, ".")).got = r.got
<1>. DEFINE d == Receive(r, ".")
            c == Receive(d, "\r")
<1>1. d = [r EXCEPT !.at = "dot"]
  BY DEF Receive, Ends
<1>2. d.at = "dot" /\ d.got = r.got /\ d \in [at : Places, got : Seq(Chars)]
  BY <1>1 DEF Reader, Places
<1>3. c = [d EXCEPT !.at = "dotCr"]
  BY <1>2 DEF Receive, Ends
<1>4. c.at = "dotCr" /\ c.got = d.got
  BY <1>2, <1>3 DEF Places
<1>5. Receive(c, "\n") = [c EXCEPT !.at = "end"]
  BY <1>4 DEF Receive, Ends
<1>6. Receive(c, "\n").at = "end" /\ Receive(c, "\n").got = c.got
  BY <1>2, <1>3, <1>5 DEF Places
<1>. QED
  BY <1>2, <1>4, <1>6 DEF ReceiveCrlf
-----------------------------------------------------------------------------
LEMMA InitIInv == Init => IInv
<1>. SUFFICES ASSUME Init PROVE IInv
  OBVIOUS
<1>1. message \in Seq(Chars)
  <2>1. PICK n \in 0..MaxLen : message \in [1..n -> Chars]
    BY DEF Init, Messages
  <2>. QED
    BY <2>1, DataAssumption DEF DataAssumption
<1>2. out = <<>> /\ reader = [at |-> "start", got |-> <<>>] /\ i = 0 /\ at_line_start /\ ~finished
  BY DEF Init
<1>3. TypeOK
  <2>1. reader \in [at : Places, got : Seq(Chars)] /\ out \in Seq(Chars) /\ i \in 0..Len(message)
    BY <1>1, <1>2 DEF Places
  <2>2. at_line_start \in BOOLEAN /\ finished \in BOOLEAN /\ lenient \in BOOLEAN
    BY DEF Init
  <2>. QED
    BY <1>1, <2>1, <2>2 DEF TypeOK
<1>4. Tail2
  BY <1>2 DEF Tail2, EndsInCrlf
<1>5. InStep
  BY <1>2 DEF InStep, InText
<1>6. ArrivesUnchanged
  BY <1>1, <1>2, SubSeqEmpty DEF ArrivesUnchanged
<1>. QED
  BY <1>2, <1>3, <1>4, <1>5, <1>6 DEF IInv

LEMMA AppendLast ==
  ASSUME NEW S, NEW s \in Seq(S), NEW c \in S
  PROVE  /\ s \o <<c>> \in Seq(S) /\ Len(s \o <<c>>) = Len(s) + 1
         /\ (s \o <<c>>)[Len(s) + 1] = c
         /\ Len(s) > 0 => (s \o <<c>>)[Len(s)] = s[Len(s)]
OBVIOUS

LEMMA PrefixGrows ==
  ASSUME NEW S, NEW s \in Seq(S), NEW n \in Nat, n < Len(s)
  PROVE  SubSeq(s, 1, n) \o <<s[n + 1]>> = SubSeq(s, 1, n + 1)
OBVIOUS

\* Where the encoder stuffs a dot in a tidy message, the server is at the start
\* of a line.
LEMMA StuffsAtLineStart ==
  ASSUME TypeOK, InStep, Tail2, Tidy, at_line_start, i < Len(message), message[i + 1] = "."
  PROVE  reader.at = "start"
<1>1. CASE i = 0
  BY <1>1 DEF InStep
<1>2. CASE i > 0 /\ lenient
  BY <1>2 DEF InStep
<1>3. CASE i > 0 /\ ~lenient
  <2>1. i \in Nat /\ Len(message) \in Nat /\ message[i] = "\n" /\ ~DotAfterBareLf
    BY <1>3 DEF TypeOK, InStep, Tidy
  <2>2. i + 1 \in 2..Len(message) /\ (i + 1) - 1 = i /\ (i + 1) - 2 = i - 1
    BY <1>3, <2>1
  <2>3. i > 1 /\ message[i - 1] = "\r"
    BY <2>1, <2>2 DEF DotAfterBareLf
  <2>. QED
    BY <1>3, <2>1, <2>3 DEF InStep, Tail2
<1>. QED
  BY <1>1, <1>2, <1>3 DEF TypeOK

\* The encoder does not write a dot that could end the message.
LEMMA StuffIInv ==
  ASSUME IInv, Stuff
  PROVE  IInv'
<1>. DEFINE ch == message[i + 1]
<1>0. Stuffs <=> at_line_start /\ ch = "."
  BY DEF Stuffs
<1>1. /\ ~finished /\ Tail2 /\ InStep /\ i < Len(message) /\ i \in Nat /\ Len(message) \in Nat
      /\ message \in Seq(Chars) /\ out \in Seq(Chars) /\ reader \in Reader
      /\ lenient \in BOOLEAN
  BY DEF IInv, TypeOK, Stuff, Reader
<1>2. ch \in Chars /\ "." \in Chars
  BY <1>1 DEF Chars
<1>3. /\ i' = i + 1 /\ message' = message /\ finished' = finished /\ lenient' = lenient
      /\ at_line_start' = (ch = "\n")
      /\ out' = out \o (IF Stuffs THEN <<".", ch>> ELSE <<ch>>)
      /\ reader' = Receive(IF Stuffs THEN Receive(reader, ".") ELSE reader, ch)
  BY DEF Stuff
\* what the server has read
<1>4. reader' \in Reader /\ (Tidy => reader'.got = reader.got \o <<ch>>)
      /\ reader'.at = IF ch = "\n" /\ (lenient \/ reader.at = "cr") THEN "start"
                      ELSE IF ch = "\r" THEN "cr" ELSE "text"
  <2>1. CASE ~Stuffs
    <3>1. reader.at \in InText /\ ~(reader.at = "start" /\ ch = ".")
      BY <1>0, <1>1, <2>1 DEF InStep
    <3>2. reader' = Receive(reader, ch)
      BY <1>3, <2>1
    <3>. QED
      BY <1>1, <1>2, <3>1, <3>2, ReceiveType, ReceiveInText
  <2>2. CASE Stuffs /\ reader.at = "start"
    <3>1. reader' = Receive(Receive(reader, "."), ".") /\ ch = "."
      BY <1>0, <1>3, <2>2
    <3>. QED
      BY <1>1, <1>2, <2>2, <3>1, ReceiveType, ReceiveStuffed
  <2>3. CASE Stuffs /\ reader.at # "start"
    <3>. DEFINE r == Receive(reader, ".")
    <3>1. reader' = Receive(r, ".") /\ ch = "." /\ reader.at \in InText
      BY <1>0, <1>1, <1>3, <2>3 DEF InStep
    <3>2. r \in Reader /\ r.at = "text"
      BY <1>1, <1>2, <2>3, <3>1, ReceiveType, ReceiveInText
    <3>3. reader' \in Reader /\ reader'.at = "text"
      BY <1>1, <1>2, <3>1, <3>2, ReceiveType, ReceiveInText DEF InText
    <3>4. ~Tidy
      BY <1>0, <1>1, <2>3, StuffsAtLineStart DEF IInv
    <3>. QED
      BY <3>1, <3>3, <3>4
  <2>. QED
    BY <2>1, <2>2, <2>3
\* what the encoder has written
<1>5. /\ out' \in Seq(Chars) /\ Len(out') > 0 /\ out'[Len(out')] = ch
      /\ ch # "." => Len(out') = Len(out) + 1
                     /\ (Len(out) > 0 => out'[Len(out)] = out[Len(out)])
  <2>1. CASE ~Stuffs
    BY <1>1, <1>2, <1>3, <2>1, AppendLast
  <2>2. CASE Stuffs
    <3>1. out' = out \o <<".", ch>> /\ ch = "."
      BY <1>0, <1>3, <2>2
    <3>2. out \o <<".", ch>> = (out \o <<".">>) \o <<ch>>
      BY <1>1, <1>2
    <3>. QED
      BY <1>1, <1>2, <3>1, <3>2, AppendLast
  <2>. QED
    BY <2>1, <2>2
<1>6. Tail2'
  <2>1. EndsInCrlf' <=> i' > 1 /\ message'[i' - 1] = "\r" /\ message'[i'] = "\n"
    <3>1. CASE ch # "\n"
      BY <1>1, <1>3, <1>5, <3>1 DEF EndsInCrlf
    <3>2. CASE ch = "\n" /\ i = 0
      BY <1>1, <1>3, <1>5, <3>2 DEF EndsInCrlf, Tail2
    <3>3. CASE ch = "\n" /\ i > 0
      BY <1>1, <1>3, <1>5, <3>3 DEF EndsInCrlf, Tail2
    <3>. QED
      BY <1>1, <3>1, <3>2, <3>3
  <2>. QED
    BY <1>1, <1>3, <1>5, <2>1 DEF Tail2
<1>7. InStep'
  <2>1. reader'.at \in InText /\ (reader'.at = "start" => at_line_start')
    BY <1>3, <1>4 DEF InText
  <2>2. i' > 0 /\ message'[i'] = ch
    BY <1>1, <1>3
  <2>3. at_line_start' <=> ch = "\n"
    BY <1>3
  <2>5. ch = "\r" => reader'.at = "cr"
    BY <1>4
  <2>4. ch = "\n" /\ (lenient \/ EndsInCrlf') => reader'.at = "start"
    <3>1. ch = "\n" /\ EndsInCrlf' => reader.at = "cr"
      BY <1>1, <1>3, <1>6 DEF InStep, Tail2
    <3>. QED
      BY <1>4, <3>1
  <2>. QED
    BY <1>3, <2>1, <2>2, <2>3, <2>4, <2>5 DEF InStep
<1>8. ArrivesUnchanged'
  <2>1. Tidy' <=> Tidy
    BY <1>3 DEF Tidy, DotAfterBareLf
  <2>2. Tidy => reader.got = SubSeq(message, 1, i)
    BY <1>1 DEF IInv, ArrivesUnchanged
  <2>. QED
    BY <1>1, <1>3, <1>4, <2>1, <2>2, PrefixGrows DEF ArrivesUnchanged
<1>9. TypeOK'
  <2>1. at_line_start' \in BOOLEAN /\ finished' \in BOOLEAN /\ lenient' \in BOOLEAN
    BY <1>3 DEF IInv, TypeOK
  <2>. QED
    BY <1>1, <1>3, <1>4, <1>5, <2>1 DEF TypeOK, Reader
<1>. QED
  BY <1>1, <1>3, <1>6, <1>7, <1>8, <1>9 DEF IInv

\* The encoder adds a line end exactly when the message has none, and the
\* final line ends the message.
LEMMA FinishIInv ==
  ASSUME IInv, Finish
  PROVE  IInv'
<1>. DEFINE r == IF EndsInCrlf THEN reader ELSE ReceiveCrlf(reader)
            o == IF EndsInCrlf THEN out ELSE out \o CRLF
<1>1. /\ ~finished /\ Tail2 /\ InStep /\ i = Len(message) /\ i \in Nat
      /\ message \in Seq(Chars) /\ out \in Seq(Chars) /\ reader \in Reader
      /\ lenient \in BOOLEAN
  BY DEF IInv, TypeOK, Finish, Reader
<1>2. /\ i' = i /\ message' = message /\ finished' /\ lenient' = lenient
      /\ at_line_start' = at_line_start
      /\ out' = o \o <<".", "\r", "\n">> /\ reader' = ReceiveCrlf(Receive(r, "."))
  BY DEF Finish
<1>3. r \in Reader /\ r.at = "start"
      /\ r.got = IF EndsInCrlf THEN reader.got ELSE reader.got \o CRLF
  <2>1. CASE EndsInCrlf
    <3>1. i > 0 /\ message[i] = "\n"
      BY <1>1, <2>1 DEF Tail2
    <3>2. reader.at = "start"
      BY <1>1, <2>1, <3>1 DEF InStep
    <3>. QED
      BY <1>1, <2>1, <3>2
  <2>2. CASE ~EndsInCrlf
    <3>1. reader.at \in InText
      BY <1>1 DEF InStep
    <3>. QED
      BY <1>1, <2>2, <3>1, ReceiveCrlfInText
  <2>. QED
    BY <2>1, <2>2
<1>4. reader'.at = "end" /\ reader'.got = r.got
  BY <1>2, <1>3, ReceiveFinalLine
<1>5. reader' \in Reader
  BY <1>1, <1>2, <1>3, ReceiveType DEF ReceiveCrlf, Chars
<1>6. EndsInCrlf <=> HasLineEnd
  BY <1>1 DEF Tail2, HasLineEnd
<1>7. ArrivesUnchanged'
  <2>1. (Tidy' <=> Tidy) /\ (HasLineEnd' <=> HasLineEnd)
    BY <1>2 DEF Tidy, DotAfterBareLf, HasLineEnd
  <2>2. Tidy => reader.got = message
    BY <1>1, SubSeqFull DEF IInv, ArrivesUnchanged
  <2>. QED
    BY <1>2, <1>3, <1>4, <1>6, <2>1, <2>2 DEF ArrivesUnchanged
<1>8. TypeOK'
  <2>1. out' \in Seq(Chars)
    <3>1. o \in Seq(Chars)
      <4>1. CRLF \in Seq(Chars)
        BY DEF CRLF, Chars
      <4>2. out \o CRLF \in Seq(Chars)
        BY <1>1, <4>1
      <4>. QED
        BY <1>1, <4>2
    <3>2. <<".", "\r", "\n">> \in Seq(Chars)
      BY DEF Chars
    <3>3. o \o <<".", "\r", "\n">> \in Seq(Chars)
      BY <3>1, <3>2
    <3>. QED
      BY <1>2, <3>3
  <2>2. at_line_start' \in BOOLEAN /\ finished' \in BOOLEAN /\ lenient' \in BOOLEAN
    BY <1>2 DEF IInv, TypeOK, Finish
  <2>. QED
    BY <1>1, <1>2, <1>5, <2>1, <2>2 DEF TypeOK, Reader
<1>9. finished' /\ i' = Len(message')
  BY <1>1, <1>2
<1>. QED
  BY <1>4, <1>7, <1>8, <1>9 DEF IInv

\* The encoder and the server stay in step, for messages of any length.
THEOREM Inductive == Spec => []IInv
<1>1. IInv /\ [Next]_vars => IInv'
  <2>1. ASSUME IInv, UNCHANGED vars PROVE IInv'
    <3>1. (TypeOK' <=> TypeOK) /\ (Tail2' <=> Tail2) /\ (InStep' <=> InStep)
      BY <2>1 DEF vars, TypeOK, Tail2, EndsInCrlf, InStep
    <3>2. ArrivesUnchanged' <=> ArrivesUnchanged
      BY <2>1 DEF vars, ArrivesUnchanged, Tidy, DotAfterBareLf, HasLineEnd
    <3>. QED
      BY <2>1, <3>1, <3>2 DEF IInv, vars
  <2>. QED
    BY <2>1, StuffIInv, FinishIInv DEF Next
<1>. QED
  BY <1>1, InitIInv, PTL DEF Spec

\* No message, whatever its dots and line ends, ends the DATA phase before the
\* encoder's final line, and that line always ends it (SmtpEncoder::dataBody).
THEOREM NoEarlyEnd == Spec => []EndsWithTheMessage
<1>1. IInv => EndsWithTheMessage
  BY DEF IInv, InStep, InText, EndsWithTheMessage
<1>. QED
  BY <1>1, Inductive, PTL

\* The server gets every tidy message as it was given to the encoder, with a
\* line end added only where the last line has none.
THEOREM RoundTrip == Spec => []ArrivesUnchanged
<1>1. IInv => ArrivesUnchanged
  BY DEF IInv
<1>. QED
  BY <1>1, Inductive, PTL

\* The variables of the encoder and of the server keep their types.
THEOREM DataTypeCorrect == Spec => []TypeOK
<1>1. IInv => TypeOK
  BY DEF IInv
<1>. QED
  BY <1>1, Inductive, PTL
=============================================================================
