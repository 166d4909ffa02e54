----------------------------- MODULE Pop3Lines ------------------------------
(***************************************************************************)
(* What a POP3 line starts with, which is all Pop3Parser looks at, and     *)
(* maildrops.  0 is a line that cannot be a status, in the place of one.   *)
(***************************************************************************)
EXTENDS Naturals, FiniteSets

Ok   == 1   \* +OK, also as the first characters of a line of a message
Err  == 2   \* -ERR
Dot  == 3   \* a dot alone
Text == 4   \* anything else

\* The maildrop without the messages of some numbers.
Without(drop, gone) ==
  LET stays == {n \in DOMAIN drop : n \notin gone}
      place == [n \in stays |-> Cardinality({k \in stays : k <= n})]
  IN  [i \in 1..Cardinality(stays) |-> drop[CHOOSE n \in stays : place[n] = i]]
=============================================================================
