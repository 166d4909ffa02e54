-------------------------------- MODULE Login --------------------------------
(***************************************************************************)
(* From a URL to the login: the user writes a URL and configures the       *)
(* client; connect(url) parses it, merges the TLS parameters and connects  *)
(* (async/smtp_client.cc, async/pop3_client.cc), and the credentials of    *)
(* the endpoint go to the server in one of the ways the clients have.      *)
(***************************************************************************)
EXTENDS MailUrl, Auth

CONSTANTS Asked,    \* what users want: [scheme, user, password, host, port,
                    \* options, sparing]; port and options as text
          Texts,    \* texts given as URLs whatever they are
          Builders  \* TLS parameters the client was built with

\* A user name has no NUL (RFC 4616); a host has none of the characters that end
\* it in a URL; the key of an option is one symbol.
IsHost(h) == h # <<>> /\ \A i \in DOMAIN h : h[i] \notin {At, Question, Open, Shut}
LoginAssumption ==
  /\ \A a \in Asked :
       /\ a \in [scheme : Schemes, user : Seq(1..255), password : Seq(0..255), host : Seq(Nat),
                 port : Seq(48..57), sparing : BOOLEAN,
                 options : Seq([key : Nat \ {Equals, Ampersand}, value : Seq(Nat)])]
       /\ IsHost(a.host)
  /\ Texts \subseteq Seq(Nat)
  /\ Builders \subseteq [ca_path : Seq(Nat), server_name : Seq(Nat), verify_peer : BOOLEAN]
ASSUME LoginAssumption

VARIABLES asked,     \* what the user wants, Nothing if the URL is any text
          builder,   \* SmtpClient::m_tls_config
          url, endpoint, tls,
          way,       \* how the client logs in
          sent       \* the lines of the credentials

vars == <<asked, builder, url, endpoint, tls, way, sent>>

Nothing == [scheme |-> 0]
Unset == [ca_path |-> <<>>, server_name |-> <<>>, verify_peer |-> FALSE]

\* How a user writes a URL: the characters that mean something where they
\* stand are escaped, or all of them.
Hex(n) == IF n < 10 THEN 48 + n ELSE 55 + n
Escaped(t, special) ==
  FlattenSeq([i \in DOMAIN t |->
    IF t[i] \in special THEN <<Percent, Hex(t[i] \div 16), Hex(t[i] % 16)>> ELSE <<t[i]>>])

Written(a) ==
  LET chars    == IF a.sparing THEN {Percent, Plus, Question} ELSE 0..255
      host     == IF First(a.host, Colon) = 0 THEN a.host ELSE <<Open>> \o a.host \o <<Shut>>
      userinfo == IF a.user = <<>> THEN <<>>
                  ELSE Escaped(a.user, chars \cup {Colon}) \o <<Colon>>
                         \o Escaped(a.password, chars) \o <<At>>
      option(o) == <<o.key, Equals>> \o Escaped(o.value, (chars \ {Question}) \cup {Ampersand})
  IN  <<a.scheme, Colon, Slash, Slash>> \o userinfo \o host
        \o (IF a.port = <<>> THEN <<>> ELSE <<Colon>> \o a.port)
        \o (IF a.options = <<>> THEN <<>> ELSE <<Question>>)
        \o FlattenSeq([i \in DOMAIN a.options |->
             (IF i = 1 THEN <<>> ELSE <<Ampersand>>) \o option(a.options[i])])

Init ==
  /\ \/ asked \in Asked /\ url = Written(asked)
     \/ asked = Nothing /\ url \in Texts
  /\ builder \in Builders
  /\ endpoint = Refused("Unparsed") /\ tls = Unset /\ way = "None" /\ sent = <<>>

Parse ==
  /\ endpoint.error = "Unparsed" /\ endpoint' = parseMailUrl(url)
  /\ UNCHANGED <<asked, builder, url, tls, way, sent>>

MergedFault(t, host) ==   \* faulty: the URL alone decides about verification
  [ca_path     |-> IF t.ca_path = <<>> THEN builder.ca_path ELSE t.ca_path,
   server_name |-> IF t.server_name # <<>> THEN t.server_name
                   ELSE IF builder.server_name = <<>> THEN host ELSE builder.server_name,
   verify_peer |-> t.verify_peer]
Merged(t, host) ==
  [ca_path     |-> IF t.ca_path = <<>> THEN builder.ca_path ELSE t.ca_path,
   server_name |-> IF t.server_name # <<>> THEN t.server_name
                   ELSE IF builder.server_name = <<>> THEN host ELSE builder.server_name,
   verify_peer |-> t.verify_peer \/ builder.verify_peer]

Connect ==
  /\ endpoint.error = "None" /\ tls = Unset
  /\ tls' = Merged(endpoint.tls, endpoint.host)
  /\ UNCHANGED <<asked, builder, url, endpoint, way, sent>>

\* authPlain of both clients, authLogin of the SMTP client, userPass of the
\* POP3 client.
Authenticate ==
  LET name == endpoint.userinfo.username
      pass == endpoint.userinfo.password
  IN  /\ tls # Unset /\ way = "None" /\ name # <<>>
      /\ \/ way' = "AUTH PLAIN" /\ sent' = <<authPlainPayload(name, pass)>>
         \/ way' = "AUTH LOGIN" /\ endpoint.mode.protocol = "Smtp"
              /\ sent' = <<base64Encode(name), base64Encode(pass)>>
         \/ way' = "USER PASS" /\ endpoint.mode.protocol = "Pop3" /\ sent' = <<name, pass>>
      /\ UNCHANGED <<asked, builder, url, endpoint, tls>>

Next == Parse \/ Connect \/ Authenticate

Spec == Init /\ [][Next]_vars
-----------------------------------------------------------------------------
(* The server's end: four symbols of base64 are three bytes, and the two   *)
(* texts are behind the NULs of AUTH PLAIN.                                *)
Decoded(text) ==
  LET s == Cut(text, Pad).before
  IN  [k \in 1 .. (3 * Len(s)) \div 4 |->
         LET g == 4 * ((k - 1) \div 3)
         IN  CASE k % 3 = 1 -> 4 * s[g + 1] + s[g + 2] \div 16
               [] k % 3 = 2 -> 16 * (s[g + 2] % 16) + s[g + 3] \div 4
               [] k % 3 = 0 -> 64 * (s[g + 3] % 4) + s[g + 4]]

Credentials ==
  LET plain == Cut(Behind(Decoded(sent[1]), 1), Nul)
  IN  CASE way = "AUTH PLAIN" -> <<plain.before, plain.behind>>
        [] way = "AUTH LOGIN" -> <<Decoded(sent[1]), Decoded(sent[2])>>
        [] way = "USER PASS" -> sent

\* The value of the last option with a key.
LastOf(key) ==
  LET i == SelectLastInSeq(asked.options, LAMBDA o : o.key = key)
  IN  IF i = 0 THEN <<>> ELSE asked.options[i].value

\* Every login in every way gives the server the name and password the user
\* meant, of the endpoint the user meant: "@" and ":" in a password and
\* percent signs that are no escapes are no obstacle, and nothing is decoded
\* twice (parseMailUrl, percentDecode, auth.cc).
LogsInAsTyped ==
  way # "None" /\ asked # Nothing =>
    /\ Credentials = <<asked.user, asked.password>>
    /\ endpoint.mode = schemeToMode[asked.scheme] /\ endpoint.host = asked.host
    /\ endpoint.port = IF asked.port = <<>> THEN defaultPort[asked.scheme] ELSE Number(asked.port)

\* Whatever the text, an endpoint that is accepted can be dialled: it has a
\* host, no part of the credentials or of the query is in it, and the port is
\* one; and a URL as users write them is refused for its port alone.
AcceptedCanBeDialled ==
  /\ endpoint.error = "None" =>
       /\ endpoint.host # <<>> /\ First(endpoint.host, At) = 0
       /\ First(endpoint.host, Question) = 0
       /\ endpoint.port \in PortNumbers
       /\ First(endpoint.host, Colon) # 0 => endpoint.port = defaultPort[url[1]] \/ First(url, Open) # 0
  /\ asked # Nothing /\ endpoint.error \notin {"None", "Unparsed"} =>
       endpoint.error = "InvalidPort" /\ Number(asked.port) \notin PortNumbers

\* The parameters of a TLS connection are those of the URL and the builder
\* together: neither can take back that the other asked for the certificate
\* to be verified, the CA and the name of the URL come first, and there is
\* always a name (connect of both clients).
TlsAsAsked ==
  tls # Unset /\ asked # Nothing =>
    /\ tls.verify_peer <=> builder.verify_peer \/ LastOf(VerifyPeer) \in Truths
    /\ tls.ca_path = IF LastOf(CaPath) # <<>> THEN LastOf(CaPath) ELSE builder.ca_path
    /\ tls.server_name # <<>>
    /\ LastOf(ServerName) # <<>> => tls.server_name = LastOf(ServerName)

\* A server name given to the builder replaces the host's
\* (docs/plans/2026-05-12-galay-mail-design.md:96-97).
BuilderNameOverridesHost ==
  tls # Unset /\ asked # Nothing /\ builder.server_name # <<>> /\ LastOf(ServerName) = <<>>
    => tls.server_name = builder.server_name
=============================================================================
