------------------------------- MODULE Lexer -------------------------------
(***************************************************************************)
(* The scanner of templates: src/espra/lex/lex.go and the state functions  *)
(* of src/espra/ui/ui.go.  It runs in a goroutine of its own and hands its *)
(* items over an unbuffered channel.  One action is one call of a state    *)
(* function; LexTextNode takes one action per turn of its loop.  The items *)
(* a call emits stay in `pending` until the other side has taken them all, *)
(* and only then does the scanner go on.                                   *)
(***************************************************************************)
EXTENDS Integers, Sequences, SequencesExt

CONSTANT Sources  \* what may be scanned: [name, input], see Source

\* Input is a sequence of bytes; a byte below 0x80 is its character.  The others
\* are letters, digits and symbols of two to four bytes: the first byte tells
\* which it is and how many Trail follow; Trail also is any byte that begins no
\* character.
Letter == {"a", "b", "i", "n", "Wide"}
Decimal == {"0", "1"}
Digit == Decimal \cup {"Numeral"}
Lead == {"L2", "L3", "L4", "N2", "N3", "N4", "S2", "S3", "S4"}
Trail == "Trail"
Byte == (Letter \ {"Wide"}) \cup Decimal \cup Lead \cup {Trail} \cup
        {" ", "\n", ":", "{", "}", "(", ")", "|", "!", "#", "-", "'", "\\", "?", "_"}

Kind(lead) ==
    CASE lead \in {"L2", "L3", "L4"} -> "Wide"
      [] lead \in {"N2", "N3", "N4"} -> "Numeral"
      [] lead \in {"S2", "S3", "S4"} -> "Symbol"

Width(lead) ==
    CASE lead \in {"L2", "N2", "S2"} -> 2
      [] lead \in {"L3", "N3", "S3"} -> 3
      [] lead \in {"L4", "N4", "S4"} -> 4

IsSpace(r) == r = " "
IsEndOfLine(r) == r = "\n"
IsAlphaNumeric(r) == r = "_" \/ r \in Letter \cup Digit
IsQuote(r) == r = "'"

leftDelim == <<"{", "{">>
rightDelim == <<"}", "}">>

Source == [name : {"LexTextNode", "LexIfExpr", "LexForExpr"}, input : Seq(Byte)]

ASSUME SourcesAssumption == Sources \subseteq Source

VARIABLES
    source,   \* Name and Input of the Lexer
    StateFn,  \* the state function to run, or how the goroutine ended
    Pos, Start, ParenDepth,
    pending,  \* the items the goroutine is blocked on
    emitted   \* history: every item emitted

lexVars == <<source, StateFn, Pos, Start, ParenDepth, pending, emitted>>

input == source.input

Types == {"Error", "EOF", "Text", "Identifier", "ArgKey", "String", "Number", "Space",
          "LeftDelim", "RightDelim", "Builtin", "URI", "EspraURI", "Pipe", "LeftParen",
          "RightParen", "OpenQuote", "CloseQuote", "In"}

\* The value of an item is the input from `from` to `to`.
Item == [typ : Types, from : Nat, to : Nat]

LexInit ==
    /\ source \in Sources
    /\ StateFn = source.name
    /\ Pos = 0 /\ Start = 0 /\ ParenDepth = 0
    /\ pending = <<>> /\ emitted = <<>>

----------------------------------------------------------------------------
(* Runes.                                                                  *)

EOF == "EOF"

\* A character of more than one byte stands at p.
Multibyte(s, p) ==
    /\ s[p + 1] \in Lead
    /\ p + Width(s[p + 1]) <= Len(s)
    /\ \A k \in p + 2..p + Width(s[p + 1]) : s[k] = Trail

\* What Next reads at p: the rune and its width.  A byte that begins no character
\* is a RuneError of one byte, which is none of those the scanner looks for.
Next(p) ==
    CASE p >= Len(input) -> [r |-> EOF, w |-> 0]
      [] p < Len(input) /\ Multibyte(input, p) -> [r |-> Kind(input[p + 1]), w |-> Width(input[p + 1])]
      [] OTHER -> [r |-> input[p + 1], w |-> 1]

Peek(p) == Next(p).r

HasPrefix(p, delim) == IsPrefix(delim, SubSeq(input, p + 1, Len(input)))

\* Where Backup leaves a loop of Next from p that ends at the first rune not in
\* S: the first place that is not inside a character and where none of S stands.
RunEnd(p, S) ==
    LET stops(q) == Peek(q) \notin S /\ \A b \in p..q - 1 : b + Next(b).w <= q
    IN  CHOOSE q \in p..Len(input) : stops(q) /\ \A b \in p..q - 1 : ~stops(b)

ValidIdentifierChar == Letter \cup Digit \cup {"-"}

----------------------------------------------------------------------------
(* How a call of a state function ends.                                    *)

It(t, from, to) == [typ |-> t, from |-> from, to |-> to]

\* It emitted `items`, the input is consumed up to pos, the next item begins at
\* start and `fn` is next.
Becomes(fn, pos, start, items) ==
    /\ StateFn' = fn
    /\ Pos' = pos
    /\ Start' = start
    /\ pending' = items
    /\ emitted' = emitted \o items
    /\ UNCHANGED source

\* MUTANT: Emit does not move Start.
EmitsKeepStart(fn, t, pos) ==
    Becomes(fn, pos, Start, <<It(t, Start, pos)>>) /\ UNCHANGED ParenDepth

\* Emit(t) after reading up to pos.
Emits(fn, t, pos) == Becomes(fn, pos, pos, <<It(t, Start, pos)>>) /\ UNCHANGED ParenDepth

Goes(fn, pos) == Becomes(fn, pos, Start, <<>>) /\ UNCHANGED ParenDepth

Errorf(pos) == Becomes("ended", pos, Start, <<It("Error", Start, Start)>>) /\ UNCHANGED ParenDepth

Runs(fn) == StateFn = fn /\ pending = <<>>

----------------------------------------------------------------------------
(* Text.                                                                   *)

\* Where a word that goes on at p ends; a word at the end of the input is taken
\* to be one byte shorter.
WordEnd(p) ==
    LET blanks == {q \in p..Len(input) - 1 : IsSpace(input[q + 1]) \/ IsEndOfLine(input[q + 1])}
    IN  IF blanks = {} THEN Len(input) - 1 ELSE Min(blanks)

HasColon(p, q) == \E b \in p..q - 1 : input[b + 1] = ":"

\* One turn of the loop.  The second Backup goes back by the width of the rune
\* that was peeked at.
LexTextNode ==
    LET read == Next(Pos)
        after == Pos + read.w
        peeked == Next(after)
        inWord == IsAlphaNumeric(peeked.r)
        cut == inWord /\ (IsSpace(read.r) \/ IsEndOfLine(read.r))
        texts == IF cut THEN <<It("Text", Start, after)>> ELSE <<>>
        start == IF cut THEN after ELSE Start
        back == after - peeked.w
        rest(p) == IF p > start THEN <<It("Text", start, p)>> ELSE <<>>
    IN
    /\ Runs("LexTextNode")
    /\ UNCHANGED ParenDepth
    /\ IF cut /\ after < Start THEN Becomes("panic", Pos, Start, <<>>)
       ELSE IF inWord /\ HasColon(after, WordEnd(after))
       THEN Becomes("LexURI", WordEnd(after), start, texts)
       ELSE IF back < 0 THEN Becomes("panic", Pos, start, texts)
       ELSE IF HasPrefix(back, leftDelim)
       THEN Becomes("LeftDelim", back, IF back > start THEN back ELSE start, texts \o rest(back))
       ELSE IF Peek(back) = EOF
       THEN Becomes("ended", back, back, texts \o rest(back) \o <<It("EOF", back, back)>>)
       ELSE Becomes("LexTextNode", back + Next(back).w, start, texts)

\* Emit of what LexTextNode has stepped back from: the slice of the input from
\* Start panics if Start is further.
EmitsBack(fn, t, pos) ==
    IF Start > pos THEN Becomes("panic", pos, Start, <<>>) /\ UNCHANGED ParenDepth
    ELSE Emits(fn, t, pos)

LexURI == Runs("LexURI") /\ EmitsBack("LexTextNode", "URI", Pos)

LeftDelim == Runs("LeftDelim") /\ EmitsBack("InsideAction", "LeftDelim", Pos + 2)

RightDelim == Runs("RightDelim") /\ Emits("LexTextNode", "RightDelim", Pos + 2)

----------------------------------------------------------------------------
(* Actions and the expressions of if and for attributes.                   *)

InsideAction ==
    LET read == Next(Pos)
        r == read.r
        after == Pos + read.w
        single == [c \in {"(", ")", "|"} |->
                    CASE c = "(" -> "LeftParen" [] c = ")" -> "RightParen" [] c = "|" -> "Pipe"]
        atEnd == source.name = "LexTextNode" /\ HasPrefix(Pos, rightDelim)
    IN
    /\ Runs("InsideAction")
    /\ \/ atEnd /\ ParenDepth > 0 /\ Errorf(Pos)
       \/ atEnd /\ ParenDepth <= 0 /\ Goes("RightDelim", Pos)
       \/ /\ ~atEnd
          /\ \/ /\ r = EOF \/ IsEndOfLine(r)
                /\ IF source.name = "LexTextNode" THEN Errorf(after) ELSE Goes(source.name, after)
             \/ IsSpace(r) /\ Goes("Space", after)
             \/ r \in Letter /\ Goes("Identifier", after)
             \/ r = "!" /\ (IF Peek(after) \in Letter THEN Goes("Identifier", after) ELSE Errorf(after))
             \/ r = "#" /\ (IF Peek(after) \in Letter THEN Goes("EspraURI", after) ELSE Errorf(after))
             \/ (r = "-" \/ r \in Digit) /\ Goes("Number", Pos)
             \/ IsQuote(r) /\ Emits("String", "OpenQuote", after)
             \/ /\ r \in DOMAIN single
                /\ Becomes("InsideAction", after, after, <<It(single[r], Start, after)>>)
                /\ ParenDepth' = ParenDepth + (CASE r = "(" -> 1 [] r = ")" -> -1 [] OTHER -> 0)
             \/ r \in {":", "{", "}", "\\", "?", "_", "Symbol", Trail} \cup Lead /\ Errorf(after)

Space == Runs("Space") /\ Emits("InsideAction", "Space", RunEnd(Pos, {" "}))

EspraURI == Runs("EspraURI") /\ Emits("InsideAction", "EspraURI", Pos)

\* A builtin loses its "!", a keyword its ":".
Identifier ==
    LET bang == input[Start + 1] = "!"
        start == IF bang THEN Pos ELSE Start
        end == RunEnd(Pos, ValidIdentifierChar)
        key == Peek(end) = ":"
        typ == CASE key -> "ArgKey" [] bang /\ ~key -> "Builtin" [] OTHER -> "Identifier"
        next == IF key THEN end + 1 ELSE end
    IN
    /\ Runs("Identifier")
    /\ Becomes("InsideAction", next, next, <<It(typ, start, end)>>)
    /\ UNCHANGED ParenDepth

\* Number and ScanNumber: a sign, digits and the "i" of an imaginary number.
\* There is no "x", "." or "e" in Byte.
Number ==
    LET digits == RunEnd(IF Peek(Pos) = "-" THEN Pos + 1 ELSE Pos, Decimal)
        end == IF Peek(digits) = "i" THEN digits + 1 ELSE digits
    IN
    /\ Runs("Number")
    /\ IF IsAlphaNumeric(Peek(end)) THEN Errorf(end + Next(end).w)
       ELSE Emits("InsideAction", "Number", end)

\* One turn of the loop of String.
String ==
    LET r == Peek(Pos)
        after == Pos + Next(Pos).w
        escaped == Peek(after)
    IN
    /\ Runs("String")
    /\ \/ r = "\\" /\ escaped \notin {EOF, "\n"} /\ Goes("String", after + Next(after).w)
       \/ (r \in {EOF, "\n"} \/ (r = "\\" /\ escaped \in {EOF, "\n"})) /\ Errorf(after)
       \/ /\ IsQuote(r)
          /\ Becomes("InsideAction", after, after, <<It("String", Start, Pos), It("CloseQuote", Pos, after)>>)
          /\ UNCHANGED ParenDepth
       \/ r \notin {"\\", EOF, "\n"} /\ ~IsQuote(r) /\ Goes("String", after)

\* MUTANT: the scanner goes on after the end.
LexIfExprOn ==
    /\ Runs("LexIfExpr")
    /\ IF Pos >= Len(input) THEN Emits("InsideAction", "EOF", Pos) ELSE Goes("InsideAction", Pos)

\* MUTANT: the end of the input is left to InsideAction.
LexIfExprLoop == Runs("LexIfExpr") /\ Goes("InsideAction", Pos)

LexIfExpr ==
    /\ Runs("LexIfExpr")
    /\ IF Pos >= Len(input) THEN Emits("ended", "EOF", Pos) ELSE Goes("InsideAction", Pos)

LexForExpr ==
    LET r == Peek(Pos)
        after == Pos + Next(Pos).w
    IN
    /\ Runs("LexForExpr")
    /\ IF Pos >= Len(input) THEN Emits("ended", "EOF", Pos)
       ELSE IF HasPrefix(Pos, <<"i", "n">>) THEN Emits("InsideAction", "In", Pos + 2)
       ELSE IF IsSpace(r) THEN Emits("LexForExpr", "Space", RunEnd(after, {" "}))
       ELSE IF r \in Letter THEN Goes("LoopIdentifier", after)
       ELSE Errorf(after)

LoopIdentifier ==
    Runs("LoopIdentifier") /\ Emits("LexForExpr", "Identifier", RunEnd(Pos, ValidIdentifierChar))

\* One step of Run.
Run ==
    \/ LexTextNode \/ LexURI \/ LeftDelim \/ RightDelim \/ InsideAction \/ Space
    \/ Identifier \/ EspraURI \/ Number \/ String
    \/ LexIfExpr \/ LexForExpr \/ LoopIdentifier
=============================================================================
