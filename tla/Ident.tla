------------------------------- MODULE Ident -------------------------------
(***************************************************************************)
(* The identifiers of src/espra/ident/ident.go, sequences of characters.   *)
(* The alphabet has one character per branch of normalise; KelvinSign is   *)
(* one of the characters that need several bytes and have an ASCII letter  *)
(* for a lower case.                                                       *)
(***************************************************************************)
EXTENDS Naturals, Sequences, FiniteSets

KelvinSign == "KELVIN SIGN"
Letters == {"a", "b", "k", "n"}
Digits == {"0", "1"}

\* strings.ToLower.
ToLower(s) == [i \in 1..Len(s) |-> CASE s[i] = "A" -> "a" [] s[i] = KelvinSign -> "k" [] OTHER -> s[i]]

\* len counts bytes.
Bytes(s) == Len(s) + 2 * Cardinality({i \in 1..Len(s) : s[i] = KelvinSign})

\* What stands for the false of a refused identifier.
NotOk == <<>>

\* Only the length is looked at before the case is changed.
normalise(ident, skipFirst) ==
    LET low == ToLower(ident)
        idx == IF skipFirst THEN 2 ELSE 1
        refused ==
            \/ Bytes(ident) <= idx
            \/ low[Len(low)] = "-"
            \/ low[idx] \notin Letters
            \/ \E i \in idx + 1..Len(low) :
                 \/ low[i] \notin Letters \cup Digits \cup {"-"}
                 \/ low[i] = "-" /\ low[i - 1] = "-"
    IN  IF refused THEN NotOk ELSE low

Username(ident) == normalise(ident, FALSE)

UserRef(ident) ==
    IF Bytes(ident) <= 2 \/ ident[1] # "+" THEN NotOk ELSE normalise(ident, TRUE)

\* A first character that is both "#" and "+" is asked for.  An empty ident has
\* no first character: the caller looks at that case, in which Go panics.
Ref(ident) ==
    IF ident[1] # "#" \/ ident[1] # "+" THEN NotOk ELSE normalise(ident, TRUE)
=============================================================================
