-------------------------------- MODULE Auth --------------------------------
(***************************************************************************)
(* protocol/auth.cc: base64 and the payloads of AUTH.  A symbol of base64  *)
(* is its place in kTable, Pad is "=".                                     *)
(***************************************************************************)
EXTENDS Integers, SequencesExt

Pad == 64
Nul == 0

\* The four symbols of three bytes.
Symbols(a, b, c) ==
  <<a \div 4, 16 * (a % 4) + b \div 16, 4 * (b % 16) + c \div 64, c % 64>>

EndOfFault(t) ==   \* faulty: a single byte leaves one symbol too few
  CASE Len(t) = 0 -> <<>>
    [] Len(t) = 1 -> SubSeq(Symbols(t[1], 0, 0), 1, 1) \o <<Pad, Pad, Pad>>
    [] Len(t) = 2 -> SubSeq(Symbols(t[1], t[2], 0), 1, 3) \o <<Pad>>
EndOf(t) ==
  CASE Len(t) = 0 -> <<>>
    [] Len(t) = 1 -> SubSeq(Symbols(t[1], 0, 0), 1, 2) \o <<Pad, Pad>>
    [] Len(t) = 2 -> SubSeq(Symbols(t[1], t[2], 0), 1, 3) \o <<Pad>>

base64Encode(value) ==
  LET full == Len(value) \div 3
  IN  FlattenSeq([g \in 1..full |-> Symbols(value[3 * g - 2], value[3 * g - 1], value[3 * g])])
        \o EndOf(SubSeq(value, 3 * full + 1, Len(value)))

authPlainPayload(username, password) ==
  base64Encode(<<Nul>> \o username \o <<Nul>> \o password)
=============================================================================
