------------------------------ MODULE MailWire ------------------------------
(***************************************************************************)
(* The two byte streams of one mail connection, as TCP or TLS delivers     *)
(* them: in order, without gaps, cut anywhere.  A command travels whole or *)
(* (when a send fails half way) as its beginning.  A reply line travels as *)
(* two pieces, of which the second ends in CRLF, so that a chunk can end   *)
(* inside a line as well as between two lines.                             *)
(***************************************************************************)
EXTENDS Naturals, Sequences

VARIABLES c2s,  \* commands on their way to the server
          s2c   \* pieces of reply lines on their way to the client

wire == <<c2s, s2c>>

\* The commands the server has yet to read.
InFlight == {c2s[i] : i \in DOMAIN c2s}

\* The pieces of a sequence of lines.
Pieces(lines) ==
  [i \in 1 .. 2 * Len(lines) |-> [line |-> lines[(i + 1) \div 2], crlf |-> i % 2 = 0]]

\* The chunks one recv may return, and what each leaves in the stream.
Chunks == {SubSeq(s2c, 1, n) : n \in 1..Len(s2c)}
After(chunk) == SubSeq(s2c, Len(chunk) + 1, Len(s2c))
=============================================================================
