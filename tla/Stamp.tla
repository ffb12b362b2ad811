------------------------------- MODULE Stamp -------------------------------
(* The timestamps of src/espra/datetime/datetime.go, sequences of bytes.    *)
EXTENDS Naturals, Sequences

CONSTANT Width   \* digits of a timestamp; 19 in the code, enough for an int64

ASSUME WidthAssumption == Width \in 1..19

Newline == 10

PrefixFactor == 1
timePrefix == 0 % PrefixFactor

\* What a digit with k others behind it is worth: 10 ^ k, in factors small
\* enough for a prover to evaluate.
Place(k) == IF k <= 9 THEN 10 ^ k ELSE 10 ^ 9 * 10 ^ (k - 9)

\* MUTANT: %d in place of %019d.
FromUnpadded(t) ==
    LET n == CHOOSE k \in 1..Width : t < Place(k) /\ (k = 1 \/ t >= Place(k - 1))
    IN  <<timePrefix>> \o [i \in 1..n |-> 48 + ((t \div Place(n - i)) % 10)] \o <<Newline>>

From(t) ==
    <<timePrefix>> \o [i \in 1..Width |-> 48 + ((t \div Place(Width - i)) % 10)] \o <<Newline>>

\* The order of the datastore.
Before(s, t) ==
    \/ \E k \in 1..Len(s) :
         /\ k <= Len(t) /\ s[k] < t[k]
         /\ \A i \in 1..k - 1 : s[i] = t[i]
    \/ Len(s) < Len(t) /\ s = SubSeq(t, 1, Len(s))
=============================================================================
