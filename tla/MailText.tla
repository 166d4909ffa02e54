------------------------------ MODULE MailText ------------------------------
(***************************************************************************)
(* Text as a sequence of symbols, and the lines of it that are whole: what *)
(* a loop over data.find("\r\n", offset) sees.                             *)
(***************************************************************************)
EXTENDS Naturals, SequencesExt, FiniteSetsExt

CR == "CR"
LF == "LF"
SP == "SP"

\* Where the line ends are, in their order.  Two of them cannot overlap, so a
\* search from behind the last one finds the next.
LineEnds(data) ==
  LET ends     == {i \in 1 .. Len(data) - 1 : data[i] = CR /\ data[i + 1] = LF}
      place(i) == Cardinality({j \in ends : j <= i})
  IN  [k \in 1..Cardinality(ends) |-> CHOOSE i \in ends : place(i) = k]

Lines(data) ==
  LET ends == LineEnds(data)
  IN  [k \in DOMAIN ends |-> SubSeq(data, IF k = 1 THEN 1 ELSE ends[k - 1] + 2, ends[k] - 1)]

\* The offset behind the k-th line.
Behind(data, k) == LineEnds(data)[k] + 1

Rest(line, n) == SubSeq(line, n, Len(line))

\* The text of some lines.
Joined(lines) == FlattenSeq([k \in DOMAIN lines |-> lines[k] \o <<CR, LF>>])
=============================================================================
