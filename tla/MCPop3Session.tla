---------------------------- MODULE MCPop3Session ----------------------------
(***************************************************************************)
(* Instances of Pop3Session for TLC.                                       *)
(***************************************************************************)
EXTENDS Pop3Session

Url(host, protocol, security, user) ==
  [host |-> host, protocol |-> protocol, security |-> security, user |-> user]

LoginEndpoint     == {Url("mx", "Pop3", "Plain", TRUE)}
SecureEndpoints   == {Url("mx", "Pop3", "StartTls", TRUE), Url("mx", "Pop3", "Tls", TRUE),
                      Url("relay", "Pop3", "Plain", FALSE), Url("mx", "Smtp", "Plain", FALSE)}

\* Two messages; a line of the first looks like a status.
TwoMessages == <<<<Ok, Text>>, <<Text>>>>
OneMessage  == <<<<Ok>>>>

MailMethods   == {"retr", "dele", "rset", "quit"}
SecureMethods == {"capa", "stls", "userPass", "authPlain", "stat", "list", "noop"}
=============================================================================
