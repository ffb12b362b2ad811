---------------------------- MODULE MCTemplate ----------------------------
(* Instances of Template: every short input over small alphabets.           *)
EXTENDS Template

UpTo(n, S) == UNION {[1..k -> S] : k \in 0..n}

Text(s) == [name |-> "LexTextNode", input |-> s]
Action(s) == Text(leftDelim \o s \o rightDelim)
IfExpr(s) == [name |-> "LexIfExpr", input |-> s]
ForExpr(s) == [name |-> "LexForExpr", input |-> s]

\* Texts with words, URIs and delimiters.
Texts == {Text(s) : s \in UpTo(5, {"a", " ", ":", "{"})}
    \cup {Text(<<"a">> \o leftDelim \o s) : s \in UpTo(3, {"a", "}", " "})}

\* Actions: calls, keywords, pipes, parentheses and strings; then the other
\* characters a state function looks for.
Actions == {Action(s) : s \in UpTo(4, {"a", "(", ")", "|", ":", "'", " "})}
    \cup {Action(s) : s \in UpTo(3, {"a", "1", "-", "!", "#", "\\", "'", "\n", "?"})}
    \cup {Action(<<"a", " ", "b", ":">> \o s) : s \in UpTo(3, {"a", "(", ")", " "})}

\* The values of if and for attributes.
Attributes == {IfExpr(s) : s \in UpTo(4, {"a", "(", ")", "|", " ", "\n"})}
    \cup {ForExpr(FlattenSeq(s)) : s \in UpTo(5, {<<"a">>, <<"i", "n">>, <<" ">>, <<"\n">>, <<"?">>})}

\* Characters of more bytes where they do no harm: first in a text, and in an
\* action.
Wide(lead) == <<lead>> \o [k \in 1..Width(lead) - 1 |-> Trail]
Wides == {Text(Wide(lead) \o s) : lead \in Lead, s \in UpTo(3, {"a", " ", ":", "{"})}
    \cup {Action(FlattenSeq(s)) : s \in
            UpTo(3, {<<"a">>, <<"1">>, <<"'">>, <<"!">>, <<Trail>>, <<"L4">>, Wide("L2"), Wide("N3"), Wide("S4")})}

MCSources == Texts \cup Actions \cup Attributes \cup Wides

\* Texts in which a character of more bytes follows one of one byte.
WideTexts == {Text(s \o Wide(lead) \o t) : lead \in Lead, s, t \in UpTo(2, {"a", " "})}
=============================================================================
