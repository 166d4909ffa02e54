------------------------------- MODULE MCLogin -------------------------------
EXTENDS Login

\* "x", "4" and the characters with a meaning, and one above ASCII.
Password == SeqOf({120, 52, Colon, At, Question, Percent, Plus, 200}, 3)
Names == {<<120, At, 120>>, <<Colon>>, <<Percent, 52, 48>>, <<120, Plus>>}

Plain == [scheme |-> 256, user |-> <<120>>, password |-> <<120>>, host |-> <<120, 46, 120>>,
          port |-> <<>>, options |-> <<>>, sparing |-> TRUE]

\* The credentials vary, ...
Logins ==
  {[Plain EXCEPT !.scheme = s, !.user = u, !.password = p, !.sparing = e] :
     s \in {257, 261}, u \in Names, p \in Password, e \in BOOLEAN}

\* ... the hosts and ports (the last two do not fit 16 and 32 bits), ...
Ports == {<<>>, <<50, 53>>, <<48, 50, 53>>, <<48>>, <<54, 53, 53, 51, 53>>,
          <<54, 53, 53, 51, 54>>, <<52, 50, 57, 52, 57, 54, 55, 50, 57, 55>>}
Places ==
  {[Plain EXCEPT !.scheme = s, !.user = u, !.host = h, !.port = p] :
     s \in Schemes, u \in {<<>>, <<120>>}, h \in {<<120>>, <<50, Colon, Colon, 49>>}, p \in Ports}

\* ... and the options.
Option == {[key |-> VerifyPeer, value |-> <<265>>], [key |-> VerifyPeer, value |-> <<48>>],
           [key |-> CaPath, value |-> <<Slash, 120>>], [key |-> CaPath, value |-> <<Ampersand>>],
           [key |-> ServerName, value |-> <<115>>], [key |-> ServerName, value |-> <<>>],
           [key |-> 120, value |-> <<Equals>>]}
Options ==
  {[Plain EXCEPT !.scheme = s, !.options = o, !.sparing = e] :
     s \in {258, 261}, o \in SeqOf(Option, 2), e \in BOOLEAN}

AllAsked == Logins \cup Places \cup Options
SomeAsked == {Plain}

\* Any four symbols behind a scheme, or without one.
AllTexts ==
  {<<256, Colon, Slash, Slash>> \o t : t \in SeqOf({120, 49, Colon, At, Open, Shut, Question}, 4)}
    \cup {t \o <<Colon, Slash, Slash, 120>> : t \in SeqOf({256, 120, Colon, Slash}, 2)} \cup {<<256>>}
NoTexts == {}

Builder(ca, name, verify) == [ca_path |-> ca, server_name |-> name, verify_peer |-> verify]
AllBuilders == {Builder(<<>>, <<>>, FALSE), Builder(<<99>>, <<98>>, TRUE)}
=============================================================================
