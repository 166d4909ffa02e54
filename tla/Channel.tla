------------------------------ MODULE Channel ------------------------------
(***************************************************************************)
(* What a MailTransport promises the client that owns it, whatever sockets *)
(* it uses inside: the channel is closed, in clear or encrypted, one call  *)
(* runs at a time, and a call moves the channel only as listed here.       *)
(*   - connect leaves the old channel alone when it is refused at once     *)
(*     (the name does not resolve); otherwise the old channel is dropped   *)
(*     before a new one is opened, and a failure leaves it closed;         *)
(*   - startTls either encrypts a clear channel or leaves it as it was;    *)
(*   - sendAll and recvChunk never move it, not even when they fail;       *)
(*   - close always ends with a closed channel.                            *)
(***************************************************************************)
CONSTANTS SecurityModes, \* the modes an endpoint may ask for
          TlsMode        \* the one that is encrypted from the first byte

VARIABLES chan,   \* "Closed", "Plain" or "Tls"
          busy,   \* the call that is running, or "none"
          wanted  \* the mode the last connect asked for

vars == <<chan, busy, wanted>>

Calls == {"connect", "startTls", "sendAll", "recvChunk", "close"}

Init == chan = "Closed" /\ busy = "none" /\ wanted \in SecurityModes

Invoke(c) ==
  /\ busy = "none" /\ busy' = c
  /\ IF c = "connect" THEN wanted' \in SecurityModes ELSE UNCHANGED wanted
  /\ UNCHANGED chan

\* connect has closed the previous connection and not opened the next one.
Drop == busy = "connect" /\ chan' = "Closed" /\ UNCHANGED <<busy, wanted>>

Opened ==
  /\ busy = "connect" /\ chan = "Closed" /\ busy' = "none"
  /\ chan' = IF wanted = TlsMode THEN "Tls" ELSE "Plain"
  /\ UNCHANGED wanted

ConnectFailed ==
  /\ busy = "connect" /\ busy' = "none" /\ chan' = "Closed"
  /\ UNCHANGED wanted

Encrypted ==
  /\ busy = "startTls" /\ chan = "Plain" /\ busy' = "none"
  /\ chan' = "Tls" /\ UNCHANGED wanted

\* The other calls, and a startTls that failed, leave the channel as it was.
Unmoved ==
  /\ busy \in {"startTls", "sendAll", "recvChunk"} /\ busy' = "none"
  /\ UNCHANGED <<chan, wanted>>

Shut == busy = "close" /\ busy' = "none" /\ chan' = "Closed" /\ UNCHANGED wanted

Next == \/ \E c \in Calls : Invoke(c)
        \/ Drop \/ Opened \/ ConnectFailed \/ Encrypted \/ Unmoved \/ Shut

Spec == Init /\ [][Next]_vars
=============================================================================
