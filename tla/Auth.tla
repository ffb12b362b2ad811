-------------------------------- MODULE Auth --------------------------------
(***************************************************************************)
(* The tokens of src/espra/auth/auth.go.  A text is a sequence of pieces,  *)
(* <<kind, value>>: a character, a number in decimal, or the base64 of a   *)
(* mac, which contains neither of the separators.  A mac is what is hashed *)
(* and the key.                                                            *)
(***************************************************************************)
EXTENDS Naturals, Sequences, FiniteSets

Colon == <<"char", ":">>
Bar == <<"char", "|">>

Number(n) == <<"number", n>>
Chars(s) == [i \in 1..Len(s) |-> <<"char", s[i]>>]
Mac(key, code) == <<"mac", <<key, code>>>>

Sign(keyID, username, unixtime, loginID, sessionID) ==
    LET code == <<Number(keyID), Bar>> \o Chars(username)
                \o <<Bar, Number(unixtime), Bar, Number(loginID), Bar, Number(sessionID)>>
    IN  code \o <<Colon, Mac(keyID, code)>>

\* Where the separators are.
Seps(text, sep) == {i \in 1..Len(text) : text[i] = sep}

\* Where the k-th separator is.
Cut(text, sep, k) == CHOOSE i \in Seps(text, sep) : Cardinality({j \in Seps(text, sep) : j <= i}) = k

\* strings.SplitN(text, sep, n).
SplitN(text, sep, n) ==
    LET count == IF Cardinality(Seps(text, sep)) < n THEN Cardinality(Seps(text, sep)) + 1 ELSE n
    IN  [k \in 1..count |-> SubSeq(text, IF k = 1 THEN 1 ELSE Cut(text, sep, k - 1) + 1,
                                         IF k = count THEN Len(text) ELSE Cut(text, sep, k) - 1)]

\* strconv.ParseInt succeeds.
IsNumber(text) == Len(text) = 1 /\ text[1][1] = "number"

Refused == [ok |-> FALSE]

\* MUTANT: the mac is not compared.
DecodeUnchecked(auth, SigningKeys) ==
    LET s == SplitN(auth, Colon, Len(auth) + 1)
        f == SplitN(s[2], Bar, 5)
    IN  IF Len(s) # 2 \/ Len(f) # 5 THEN Refused
        ELSE IF ~(\A k \in {1, 3, 4, 5} : IsNumber(f[k])) \/ f[1][1][2] \notin SigningKeys THEN Refused
        ELSE [ok |-> TRUE, username |-> f[2], unixtime |-> f[3][1][2],
              loginID |-> f[4][1][2], sessionID |-> f[5][1][2]]

\* The mac is expected before the code, and the key is looked up by its id
\* before the mac is compared.
Decode(auth, SigningKeys) ==
    LET s == SplitN(auth, Colon, Len(auth) + 1)
        mac == s[1]
        code == s[2]
        f == SplitN(code, Bar, 5)
    IN  IF Len(s) # 2 \/ Len(f) # 5 THEN Refused
        ELSE IF ~IsNumber(f[1]) \/ f[1][1][2] \notin SigningKeys THEN Refused
        ELSE IF mac # <<Mac(f[1][1][2], code)>> \/ f[2] = <<>> THEN Refused
        ELSE IF ~(\A k \in 3..5 : IsNumber(f[k])) THEN Refused
        ELSE [ok |-> TRUE, username |-> f[2], unixtime |-> f[3][1][2],
              loginID |-> f[4][1][2], sessionID |-> f[5][1][2]]
=============================================================================
