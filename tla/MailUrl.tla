------------------------------- MODULE MailUrl -------------------------------
(***************************************************************************)
(* parseMailUrl and percentDecode (base/mail_url.cc), and what the clients *)
(* make of the endpoint in connect.  Text is a sequence of character       *)
(* codes; the words a URL is made of (schemes, query keys, "true") are one *)
(* symbol each, numbered above the characters.                             *)
(***************************************************************************)
EXTENDS Integers, SequencesExt

Space == 32
Percent == 37
Ampersand == 38
Plus == 43
Slash == 47
Colon == 58
Equals == 61
Question == 63
At == 64
Open == 91
Shut == 93

Digit(c) == c \in 48..57

Schemes == 256..261   \* smtp, smtp+starttls, smtps, pop3, pop3+stls, pop3s
VerifyPeer == 262
CaPath == 263
ServerName == 264
Truths == {<<265>>, <<266>>, <<49>>}   \* true, yes, 1

schemeToMode ==
  [s \in Schemes |-> [protocol |-> IF s < 259 THEN "Smtp" ELSE "Pop3",
                      security |-> <<"Plain", "StartTls", "Tls">>[((s - 256) % 3) + 1]]]

defaultPort ==
  [s \in Schemes |-> <<25, 587, 465, 110, 110, 995>>[s - 255]]
-----------------------------------------------------------------------------
\* The place of the first or last c, 0 if there is none.
First(t, c) == SelectInSeq(t, LAMBDA d : d = c)
LastPlace(t, c) == SelectLastInSeq(t, LAMBDA d : d = c)

Upto(t, i) == SubSeq(t, 1, i - 1)
Behind(t, i) == SubSeq(t, i + 1, Len(t))

\* The text before and behind the first c.
Cut(t, c) ==
  LET i == First(t, c)
  IN  IF i = 0 THEN [before |-> t, behind |-> <<>>, found |-> FALSE]
      ELSE [before |-> Upto(t, i), behind |-> Behind(t, i), found |-> TRUE]

HexDigit(c) == Digit(c) \/ c \in 65..70 \/ c \in 97..102
hexValue(c) == IF Digit(c) THEN c - 48 ELSE (c % 32) + 9

\* Escapes do not overlap: a hexadecimal digit is no percent sign.
EscapesFault(t) ==   \* faulty: an escape at the end of the text is left alone
  {i \in 1 .. Len(t) - 3 : t[i] = Percent /\ HexDigit(t[i + 1]) /\ HexDigit(t[i + 2])}
Escapes(t) ==
  {i \in 1 .. Len(t) - 2 : t[i] = Percent /\ HexDigit(t[i + 1]) /\ HexDigit(t[i + 2])}

percentDecode(t) ==
  LET piece(i) ==
        CASE i \in Escapes(t) -> <<16 * hexValue(t[i + 1]) + hexValue(t[i + 2])>>
          [] {i - 1, i - 2} \cap Escapes(t) # {} -> <<>>
          [] OTHER -> <<IF t[i] = Plus THEN Space ELSE t[i]>>
  IN  FlattenSeq([i \in DOMAIN t |-> piece(i)])

PortNumbers == 1..65535

\* Every port above 65535 is as good as 65536, one too large for uint32_t too.
Number(t) ==
  FoldLeft(LAMBDA n, c : IF n > 65535 THEN n ELSE 10 * n + c - 48, 0, t)
PortFault(t) == t # <<>> /\ (\A i \in DOMAIN t : Digit(t[i])) /\ Number(t) <= 65536
Port(t) == t # <<>> /\ (\A i \in DOMAIN t : Digit(t[i])) /\ Number(t) \in PortNumbers
-----------------------------------------------------------------------------
\* The last item with a key wins; an item without "=" has an empty value.
applyQuery(tls, query) ==
  LET ends       == {0, Len(query) + 1} \cup {i \in DOMAIN query : query[i] = Ampersand}
      item(i)    == SubSeq(query, i + 1, Min({e \in ends : e > i}) - 1)
      with(key)  == {i \in ends \ {Len(query) + 1} : Cut(item(i), Equals).before = <<key>>}
      value(key) == percentDecode(Cut(item(Max(with(key))), Equals).behind)
  IN  [ca_path     |-> IF with(CaPath) = {} THEN tls.ca_path ELSE value(CaPath),
       server_name |-> IF with(ServerName) = {} THEN tls.server_name ELSE value(ServerName),
       verify_peer |-> IF with(VerifyPeer) = {} THEN tls.verify_peer
                       ELSE value(VerifyPeer) \in Truths]

Refused(error) == [error |-> error]

\* Name and password: "@" may occur in both, ":" in the password.
Userinfo(authority) ==
  LET at == LastPlace(authority, At)
      ui == Cut(Upto(authority, at), Colon)
  IN  IF at = 0 THEN [username |-> <<>>, password |-> <<>>]
      ELSE [username |-> percentDecode(ui.before), password |-> percentDecode(ui.behind)]

\* Host, and the text of the port if there is one.
HostPortFault(t) ==   \* faulty: an address without brackets is cut at its last colon
  LET c == LastPlace(t, Colon)
  IN  IF c = 0 THEN [host |-> t, explicit |-> FALSE, port |-> <<>>]
      ELSE [host |-> Upto(t, c), explicit |-> TRUE, port |-> Behind(t, c)]
HostPort(t) ==
  LET close == First(t, Shut)
      c     == LastPlace(t, Colon)
  IN  CASE t[1] = Open /\ close = Len(t) ->
             [host |-> SubSeq(t, 2, close - 1), explicit |-> FALSE, port |-> <<>>]
        [] t[1] = Open /\ close \in 1 .. Len(t) - 1 ->
             [host |-> IF t[close + 1] = Colon THEN SubSeq(t, 2, close - 1) ELSE <<>>,
              explicit |-> t[close + 1] = Colon, port |-> Behind(t, close + 1)]
        [] t[1] = Open /\ close = 0 -> [host |-> <<>>, explicit |-> FALSE, port |-> <<>>]
        [] OTHER -> IF c = 0 \/ First(t, Colon) # c
                    THEN [host |-> t, explicit |-> FALSE, port |-> <<>>]
                    ELSE [host |-> Upto(t, c), explicit |-> TRUE, port |-> Behind(t, c)]

parseMailUrl(url) ==
  LET starts == {i \in 1 .. Len(url) - 2 : SubSeq(url, i, i + 2) = <<Colon, Slash, Slash>>}
      scheme == Upto(url, Min(starts))
      rest   == Cut(SubSeq(url, Min(starts) + 3, Len(url)), Question)
      hp     == Behind(rest.before, LastPlace(rest.before, At))
      parts  == HostPort(hp)
  IN  CASE starts = {} \/ 1 \in starts -> Refused("InvalidUrl")
        [] starts # {} /\ 1 \notin starts
             /\ scheme \notin {<<s>> : s \in Schemes} -> Refused("InvalidScheme")
        [] OTHER ->
             IF hp = <<>> THEN Refused("InvalidHost")
             ELSE IF parts.explicit /\ ~Port(parts.port) THEN Refused("InvalidPort")
             ELSE IF parts.host = <<>> THEN Refused("InvalidHost")
             ELSE [error    |-> "None",
                   mode     |-> schemeToMode[scheme[1]],
                   host     |-> parts.host,
                   port     |-> IF parts.explicit THEN Number(parts.port)
                                ELSE defaultPort[scheme[1]],
                   userinfo |-> Userinfo(rest.before),
                   tls      |-> applyQuery([ca_path |-> <<>>, server_name |-> parts.host,
                                            verify_peer |-> FALSE], rest.behind)]
=============================================================================
