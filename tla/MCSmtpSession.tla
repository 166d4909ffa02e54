---------------------------- MODULE MCSmtpSession ----------------------------
(***************************************************************************)
(* Instances of SmtpSession for TLC: the endpoints connect is called with  *)
(* and the methods the user calls in each run.                             *)
(***************************************************************************)
EXTENDS SmtpSession

Url(host, protocol, security, user) ==
  [host |-> host, protocol |-> protocol, security |-> security, user |-> user]

PlainEndpoint    == {Url("mx", "Smtp", "Plain", TRUE)}
StartTlsEndpoint == {Url("mx", "Smtp", "StartTls", TRUE)}
SecureEndpoints  == {Url("mx", "Smtp", "StartTls", TRUE), Url("mx", "Smtp", "Tls", TRUE),
                     Url("relay", "Smtp", "Plain", FALSE), Url("mx", "Pop3", "Plain", FALSE)}

SendMethods     == {"sendMail"}
MailMethods     == {"sendMail", "data"}
SecureMethods   == {"ehlo", "startTls"}
CallMethods     == {"helo", "authPlain", "authLogin", "mailFrom", "rcptTo", "startTls",
                    "sendMail", "quit"}
=============================================================================
