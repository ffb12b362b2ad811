--------------------------- MODULE TemplateProofs ---------------------------
(***************************************************************************)
(* Proofs about Template, for every set of sources: the scanner stays      *)
(* inside its input, scanner and parser agree on the depth of parentheses, *)
(* an accepted text is balanced, every pipe hands on what stood before it, *)
(* a successful parse leaves no scanner behind, the items lie one behind   *)
(* the other over all that was read, only characters of more than a byte   *)
(* make the scanner panic, and no parse goes on for ever but that of a     *)
(* text with such characters.                                              *)
(***************************************************************************)
EXTENDS Template, TLAPS, WellFoundedInduction, FiniteSetTheorems, SequenceTheorems

----------------------------------------------------------------------------
(* The inductive invariant.                                                *)

\* The state functions outside an expression, by source, and those inside one.
Home(name) ==
    CASE name = "LexTextNode" -> {"LexTextNode", "LexURI", "LeftDelim", "panic"}
      [] name = "LexIfExpr" -> {"LexIfExpr"}
      [] name = "LexForExpr" -> {"LexForExpr", "LoopIdentifier"}

Within == {"InsideAction", "Space", "Identifier", "EspraURI", "Number", "String"}

Inner == {"Identifier", "ArgKey", "String", "Number", "Space", "Builtin", "EspraURI", "Pipe",
          "LeftParen", "RightParen", "OpenQuote", "CloseQuote"}

isText == source.name = "LexTextNode"

\* The scanner never reads beyond its input, nor puts an item there.
Inside ==
    /\ source \in Sources
    /\ Pos \in 0..Len(input) /\ Start \in 0..Len(input)
    /\ StateFn \in {"LeftDelim", "RightDelim"} => Pos + 2 <= Len(input)
    /\ StateFn \in Home(source.name) \cup Within \cup {"ended"} \cup
                   (IF isText THEN {"RightDelim"} ELSE {})
    /\ ParenDepth \in Int
    /\ pending \in Seq(Item)
    /\ emitted \in Seq(Item)

Nodes == {"text", "uri", "empty", "var", "expr"}

\* ParseExpr was called for the whole expression, then for parentheses in it.
Frame == [end : {"RightDelim", "EOF", "RightParen"}, elems : Seq(Types \cup {"expr"}), first : BOOLEAN,
          seen_argkey : BOOLEAN, inKeyVal : BOOLEAN, isVal : BOOLEAN, from : Int, piped : Seq(Int)]

Stack ==
    /\ parser \in {"run", "error", "panic", "ok"}
    /\ nodes \in Seq(Nodes)
    /\ frames \in Seq(Frame)
    /\ \A i \in 1..Len(frames) :
          frames[i].end = IF i > 1 THEN "RightParen" ELSE IF isText THEN "RightDelim" ELSE "EOF"

\* What the scanner may have on offer, by its state and what the parser is in.
Offer ==
    LET calls == frames # <<>>
        head == pending[1].typ
    IN
    IF pending = <<>>
    THEN /\ StateFn # "ended"
         /\ StateFn \in Within \cup {"RightDelim"} => calls
         /\ isText /\ calls => StateFn \in Within \cup {"RightDelim"}
         /\ StateFn = "LexIfExpr" => calls
         /\ StateFn = "RightDelim" => Len(frames) = 1
    ELSE \/ /\ isText /\ ~calls
            /\ StateFn \in Home("LexTextNode") \cup {"ended"}
            /\ \A i \in 1..Len(pending) :
                  pending[i].typ = IF StateFn = "ended" /\ i = Len(pending) THEN "EOF" ELSE "Text"
         \/ /\ Len(pending) = 1 /\ isText /\ ~calls
            /\ head = "URI" /\ StateFn = "LexTextNode"
         \/ /\ Len(pending) = 1 /\ isText /\ ~calls
            /\ head = "LeftDelim" /\ StateFn = "InsideAction"
         \/ /\ Len(pending) = 1 /\ isText /\ Len(frames) = 1
            /\ head = "RightDelim" /\ StateFn = "LexTextNode"
         \/ /\ Len(pending) = 1 /\ head = "Error" /\ StateFn = "ended"
         \/ /\ Len(pending) = 1 /\ ~isText /\ head = "EOF" /\ StateFn = "ended"
         \/ /\ Len(pending) = 1 /\ source.name = "LexForExpr"
            /\ head \in {"Identifier", "Space"} /\ StateFn = "LexForExpr"
         \/ /\ Len(pending) = 1 /\ source.name = "LexForExpr"
            /\ head = "In" /\ StateFn = "InsideAction"
         \/ /\ Len(pending) = 1 /\ calls /\ head \in Inner /\ StateFn \in Within
         \/ /\ Len(pending) = 2 /\ calls /\ StateFn = "InsideAction"
            /\ head = "String" /\ pending[2].typ = "CloseQuote"

\* The parentheses the parser has open.
Depth == IF frames = <<>> THEN 0 ELSE Len(frames) - 1

\* ... and the one on offer.
Owed ==
    IF pending = <<>> THEN 0
    ELSE CASE pending[1].typ = "LeftParen" -> 1 [] pending[1].typ = "RightParen" -> -1 [] OTHER -> 0

Exprs == Cardinality({i \in 1..Len(nodes) : nodes[i] = "expr"})

\* The scanner's depth is that of the parentheses it emitted.
Counted == Count("LeftParen") = Count("RightParen") + ParenDepth

atError == pending # <<>> /\ pending[1].typ = "Error"
atLeftDelim == pending # <<>> /\ pending[1].typ = "LeftDelim"

\* While it parses, the parser is as deep as the scanner, but for what is on
\* offer; a text has as many expressions as actions, but for the one it is in.
Follows ==
    parser = "run" =>
        /\ Offer
        /\ ParenDepth = Depth + Owed
        /\ isText /\ ~atError =>
              Count("LeftDelim") = Count("RightDelim") +
                  (IF StateFn \in Within \cup {"RightDelim"} THEN 1 ELSE 0)
        /\ isText =>
              Count("LeftDelim") = Exprs + (IF frames # <<>> \/ atLeftDelim THEN 1 ELSE 0)

IInv == Inside /\ Stack /\ Counted /\ Follows /\ AcceptedBalanced /\ NoLeakOnSuccess

----------------------------------------------------------------------------
(* Lemmas about the runes of the input.                                    *)

\* A nonempty set of natural numbers has a least element.
LEMMA LeastOf ==
    ASSUME NEW T, T \subseteq Nat, T # {}
    PROVE  \E x \in T : \A y \in T : x <= y
<1> DEFINE R == {ss \in Nat \X Nat : ss[1] < ss[2]}
<1>1. IsWellFoundedOn(R, Nat)
    BY NatLessThanWellFounded DEF OpToRel
<1>2. \A x, y \in Nat : <<x, y>> \in R <=> x < y
    OBVIOUS
<1> HIDE DEF R
<1>3. PICK x \in T : \A y \in T : ~(<<y, x>> \in R)
    BY <1>1, WFMin
<1>4. ASSUME NEW y \in T PROVE x <= y
  <2>1. ~(<<y, x>> \in R) /\ x \in Nat /\ y \in Nat
    BY <1>3
  <2>2. ~(y < x)
    BY <1>2, <2>1
  <2> QED BY <2>1, <2>2
<1> QED BY <1>4

\* The runes of more than one byte.
Kinds == {"Wide", "Numeral", "Symbol"}

\* Each has two to four.
LEMMA Leads ==
    ASSUME NEW c \in Lead
    PROVE  Kind(c) \in Kinds /\ Width(c) \in 2..4
BY DEF Lead, Kind, Width, Kinds

\* Next reads at most four bytes and never beyond the input; only at its end
\* does it find EOF.
LEMMA NextReads ==
    ASSUME input \in Seq(Byte), NEW p \in 0..Len(input)
    PROVE  /\ Next(p).w \in 0..4 /\ p + Next(p).w \in p..Len(input)
           /\ p = Len(input) => Peek(p) = EOF /\ Next(p).w = 0
           /\ p # Len(input) => Peek(p) \in Byte \cup Kinds /\ Next(p).w # 0
<1>1. CASE p = Len(input)
    BY <1>1 DEF Next, Peek
<1>2. CASE p # Len(input) /\ Multibyte(input, p)
  <2> DEFINE c == input[p + 1]
  <2>1. c \in Lead /\ p + Width(c) <= Len(input)
    BY <1>2 DEF Multibyte
  <2>2. Kind(c) \in Kinds /\ Width(c) \in 2..4
    BY <2>1, Leads
  <2>3. Next(p) = [r |-> Kind(c), w |-> Width(c)]
    BY <1>2 DEF Next
  <2> HIDE DEF c
  <2> QED BY <1>2, <2>1, <2>2, <2>3 DEF Peek
<1>3. CASE p # Len(input) /\ ~Multibyte(input, p)
  <2>1. Next(p) = [r |-> input[p + 1], w |-> 1]
    BY <1>3 DEF Next
  <2>2. input[p + 1] \in Byte
    BY <1>3
  <2> QED BY <1>3, <2>1, <2>2 DEF Peek
<1> QED BY <1>1, <1>2, <1>3

\* A loop over the runes of a set ends inside the input.
LEMMA RunEndInside ==
    ASSUME input \in Seq(Byte), NEW p \in 0..Len(input), NEW S, EOF \notin S
    PROVE  RunEnd(p, S) \in p..Len(input) /\ Peek(RunEnd(p, S)) \notin S
<1> DEFINE stops(q) == Peek(q) \notin S /\ \A b \in p..q - 1 : b + Next(b).w <= q
           Ends == {q \in p..Len(input) : stops(q)}
<1>1. Len(input) \in Ends
  <2>1. Peek(Len(input)) \notin S
    BY NextReads
  <2>2. ASSUME NEW b \in p..Len(input) - 1 PROVE b + Next(b).w <= Len(input)
    <3>1. b \in 0..Len(input)
      OBVIOUS
    <3>2. b + Next(b).w \in b..Len(input)
      BY <3>1, NextReads
    <3> QED BY <3>2
  <2> QED BY <2>1, <2>2
<1>2. Ends \subseteq Nat
    OBVIOUS
<1> HIDE DEF Ends
<1>3. PICK q \in Ends : \A e \in Ends : q <= e
    BY <1>1, <1>2, LeastOf
<1> USE DEF Ends
<1>4. \A b \in p..q - 1 : ~stops(b)
    BY <1>3
<1>5. stops(q) /\ q \in p..Len(input)
    BY <1>3
<1> HIDE DEF stops, Ends
<1>6. \E e \in p..Len(input) : stops(e) /\ \A b \in p..e - 1 : ~stops(b)
    BY <1>4, <1>5
<1>7. RunEnd(p, S) = CHOOSE e \in p..Len(input) : stops(e) /\ \A b \in p..e - 1 : ~stops(b)
    BY DEF RunEnd, stops
<1>8. RunEnd(p, S) \in p..Len(input) /\ stops(RunEnd(p, S))
    BY <1>6, <1>7, Zenon
<1> QED BY <1>8 DEF stops

\* A word ends inside the input, and not before it goes on.
LEMMA WordEndInside ==
    ASSUME input \in Seq(Byte), NEW p \in 0..Len(input)
    PROVE  WordEnd(p) \in -1..Len(input) /\ (HasColon(p, WordEnd(p)) => WordEnd(p) \in 0..Len(input))
<1> DEFINE blanks == {q \in p..Len(input) - 1 : IsSpace(input[q + 1]) \/ IsEndOfLine(input[q + 1])}
<1>1. CASE blanks = {}
    BY <1>1 DEF WordEnd, HasColon
<1>2. CASE blanks # {}
  <2>1. blanks \subseteq Nat
    OBVIOUS
  <2>2. Min(blanks) \in blanks
    <3> HIDE DEF blanks
    <3>1. PICK q \in blanks : \A e \in blanks : q <= e
      BY <1>2, <2>1, LeastOf
    <3> QED BY <3>1 DEF Min
  <2> QED BY <1>2, <2>2 DEF WordEnd
<1> QED BY <1>1, <1>2

\* What is a prefix of the rest of the input lies inside it.
LEMMA PrefixInside ==
    ASSUME input \in Seq(Byte), NEW p \in 0..Len(input), NEW d, Len(d) = 2, HasPrefix(p, d)
    PROVE  p + 2 <= Len(input)
<1>1. Len(SubSeq(input, p + 1, Len(input))) = Len(input) - p
    OBVIOUS
<1> QED BY <1>1 DEF HasPrefix, IsPrefix

----------------------------------------------------------------------------
(* What a step of the scanner may do, as far as the parser can tell.       *)

\* The depth of a parenthesis.
Delta(t) == CASE t = "LeftParen" -> 1 [] t = "RightParen" -> -1 [] OTHER -> 0

\* Items of text, which the end of a text may follow, or none of what it has
\* stepped back from.
ScansText ==
    /\ isText /\ StateFn \in Home("LexTextNode") /\ ParenDepth' = ParenDepth
    /\ StateFn' \in Home("LexTextNode") \cup {"ended"}
    /\ StateFn' = "ended" => pending' # <<>>
    /\ \A i \in 1..Len(pending') :
          pending'[i].typ = IF StateFn' = "ended" /\ i = Len(pending') THEN "EOF" ELSE "Text"

\* One item between text and actions.
ScansDelim ==
    /\ isText /\ Len(pending') = 1 /\ ParenDepth' = ParenDepth
    /\ <<StateFn, pending'[1].typ, StateFn'>> \in
          {<<"LexURI", "URI", "LexTextNode">>, <<"LeftDelim", "LeftDelim", "InsideAction">>,
           <<"RightDelim", "RightDelim", "LexTextNode">>}

ScansError ==
    /\ Len(pending') = 1 /\ pending'[1].typ = "Error" /\ StateFn' = "ended"
    /\ ParenDepth' = ParenDepth

\* An attribute, outside its expression.
ScansAttribute ==
    /\ ~isText /\ ParenDepth' = ParenDepth
    /\ \/ /\ Len(pending') = 1
          /\ <<StateFn, pending'[1].typ, StateFn'>> \in
                {<<"LexIfExpr", "EOF", "ended">>, <<"LexForExpr", "EOF", "ended">>,
                 <<"LexForExpr", "In", "InsideAction">>, <<"LexForExpr", "Space", "LexForExpr">>,
                 <<"LoopIdentifier", "Identifier", "LexForExpr">>}
       \/ /\ pending' = <<>>
          /\ <<StateFn, StateFn'>> \in
                {<<"LexIfExpr", "InsideAction">>, <<"LexForExpr", "LoopIdentifier">>}

\* In an expression: no item, one, or the two at the end of a string.
ScansQuietly ==
    /\ StateFn \in Within /\ pending' = <<>> /\ ParenDepth' = ParenDepth
    /\ \/ StateFn' \in Within
       \/ isText /\ StateFn' = "RightDelim" /\ ParenDepth <= 0
       \/ ~isText /\ StateFn' = source.name

ScansInner ==
    /\ StateFn \in Within /\ StateFn' \in Within
    /\ Len(pending') = 1 /\ pending'[1].typ \in Inner
    /\ ParenDepth' = ParenDepth + Delta(pending'[1].typ)

ScansString ==
    /\ StateFn = "String" /\ StateFn' = "InsideAction" /\ ParenDepth' = ParenDepth
    /\ Len(pending') = 2 /\ pending'[1].typ = "String" /\ pending'[2].typ = "CloseQuote"

Scans ==
    /\ pending = <<>> /\ source' = source
    /\ emitted' = emitted \o pending'
    /\ \/ ScansText \/ ScansDelim \/ ScansError \/ ScansAttribute
       \/ ScansQuietly \/ ScansInner \/ ScansString

\* The source is one of the three.
LEMMA SourceTyped ==
    ASSUME Inside
    PROVE  input \in Seq(Byte) /\ source.name \in {"LexTextNode", "LexIfExpr", "LexForExpr"}
BY SourcesAssumption DEF Inside, Source, input

\* A call that consumes input up to a place in it, and emits items of it, keeps
\* the scanner inside.
LEMMA BecomesInside ==
    ASSUME Inside,
           NEW fn \in Home(source.name) \cup Within \cup {"ended"} \cup
                          (IF isText THEN {"RightDelim"} ELSE {}),
           NEW pos \in 0..Len(input), NEW start \in 0..Len(input), NEW items \in Seq(Item),
           Becomes(fn, pos, start, items),
           ParenDepth' \in Int,
           fn \in {"LeftDelim", "RightDelim"} => pos + 2 <= Len(input)
    PROVE  /\ Inside' /\ source' = source /\ emitted' = emitted \o pending'
           /\ StateFn' = fn /\ pending' = items
<1>1. /\ StateFn' = fn /\ Pos' = pos /\ Start' = start /\ pending' = items
      /\ emitted' = emitted \o items /\ source' = source
    BY DEF Becomes
<1>2. emitted \in Seq(Item)
    BY DEF Inside
<1>3. emitted' \in Seq(Item)
    BY <1>1, <1>2
<1>4. isText' = isText /\ input' = input /\ source \in Sources
    BY <1>1 DEF isText, input, Inside
<1> QED BY <1>1, <1>3, <1>4 DEF Inside

\* An item of a type and two places is one.
LEMMA ItemTyped ==
    ASSUME NEW t \in Types, NEW from \in Nat, NEW to \in Nat
    PROVE  It(t, from, to) \in Item /\ It(t, from, to).typ = t /\ <<It(t, from, to)>> \in Seq(Item)
BY DEF It, Item

\* Items of text, one after the other.
AllText(items) == items \in Seq(Item) /\ \A i \in 1..Len(items) : items[i].typ = "Text"

\* No items at all are items of text.
LEMMA NoText == AllText(<<>>)
BY DEF AllText

\* One item of text is a sequence of them.
LEMMA OneText ==
    ASSUME NEW from \in Nat, NEW to \in Nat
    PROVE  AllText(<<It("Text", from, to)>>)
<1> DEFINE x == It("Text", from, to)
<1>1. x \in Item /\ x.typ = "Text"
    BY ItemTyped DEF Types
<1> HIDE DEF x
<1>2. AllText(<<x>>)
    BY <1>1 DEF AllText
<1> QED BY <1>2 DEF x

\* Two sequences of items of text make one.
LEMMA TextsConcatenate ==
    ASSUME NEW s, NEW t, AllText(s), AllText(t)
    PROVE  AllText(s \o t)
BY DEF AllText

\* A turn over text that goes on.
LEMMA TextGoesOn ==
    ASSUME Inside, isText, StateFn = "LexTextNode", pending = <<>>, ParenDepth' = ParenDepth,
           NEW fn \in Home("LexTextNode"), NEW pos \in 0..Len(input), NEW start \in 0..Len(input),
           NEW items, AllText(items), Becomes(fn, pos, start, items),
           fn = "LeftDelim" => pos + 2 <= Len(input)
    PROVE  Inside' /\ Scans
<1>1. fn \in Home(source.name) /\ fn \notin {"RightDelim", "ended"} /\ items \in Seq(Item)
    BY DEF Home, isText, AllText
<1>2. ParenDepth' \in Int
    BY DEF Inside
<1>3. /\ Inside' /\ source' = source /\ emitted' = emitted \o pending'
      /\ StateFn' = fn /\ pending' = items
    BY <1>1, <1>2, BecomesInside
<1>4. StateFn \in Home("LexTextNode")
    BY DEF Home
<1>5. ScansText
    BY <1>1, <1>3, <1>4 DEF ScansText, AllText
<1> QED BY <1>3, <1>5 DEF Scans

\* The turn that ends a text.
LEMMA TextEnds ==
    ASSUME Inside, isText, StateFn = "LexTextNode", pending = <<>>, ParenDepth' = ParenDepth,
           NEW pos \in 0..Len(input), NEW items, AllText(items),
           Becomes("ended", pos, pos, items \o <<It("EOF", pos, pos)>>)
    PROVE  Inside' /\ Scans
<1> DEFINE all == items \o <<It("EOF", pos, pos)>>
           last == It("EOF", pos, pos)
<1>1. pos \in Nat /\ last \in Item /\ last.typ = "EOF"
    BY ItemTyped, SourceTyped DEF Types
<1> HIDE DEF last
<1>2. /\ all \in Seq(Item) /\ Len(all) = Len(items) + 1 /\ Len(items) \in Nat
      /\ all[Len(all)].typ = "EOF"
      /\ \A i \in 1..Len(items) : all[i] = items[i]
    BY <1>1 DEF AllText, last
<1>3. \A i \in 1..Len(all) : all[i].typ = IF i = Len(all) THEN "EOF" ELSE "Text"
    BY <1>2 DEF AllText
<1> HIDE DEF all
<1>4. ParenDepth' \in Int
    BY DEF Inside
<1>5. Becomes("ended", pos, pos, all)
    BY DEF all
<1>6. /\ Inside' /\ source' = source /\ emitted' = emitted \o pending'
      /\ StateFn' = "ended" /\ pending' = all
    BY <1>2, <1>4, <1>5, BecomesInside
<1>7. StateFn \in Home("LexTextNode")
    BY DEF Home
<1>8. ScansText
    BY <1>2, <1>3, <1>6, <1>7 DEF ScansText
<1> QED BY <1>6, <1>8 DEF Scans

\* A turn over text.
LEMMA TextScans ==
    ASSUME Inside, LexTextNode
    PROVE  Inside' /\ Scans
<1> DEFINE read == Next(Pos)
           after == Pos + read.w
           peeked == Next(after)
           inWord == IsAlphaNumeric(peeked.r)
           cut == inWord /\ (IsSpace(read.r) \/ IsEndOfLine(read.r))
           texts == IF cut THEN <<It("Text", Start, after)>> ELSE <<>>
           start == IF cut THEN after ELSE Start
           back == after - peeked.w
           rest(p) == IF p > start THEN <<It("Text", start, p)>> ELSE <<>>
           wordEnd == WordEnd(after)
<1>1. /\ input \in Seq(Byte) /\ Len(input) \in Nat
      /\ Pos \in 0..Len(input) /\ Start \in 0..Len(input) /\ ParenDepth \in Int
    BY SourceTyped DEF Inside
<1>2. after \in 0..Len(input)
    BY <1>1, NextReads
<1>3. peeked.w \in 0..4
    BY <1>1, <1>2, NextReads
<1>4. start \in 0..Len(input) /\ back \in Int /\ back <= Len(input)
    BY <1>1, <1>2, <1>3
<1>5. back >= 0 => back \in 0..Len(input) /\ back + Next(back).w \in 0..Len(input)
    BY <1>1, <1>4, NextReads
<1>6. HasColon(after, wordEnd) => wordEnd \in 0..Len(input)
    BY <1>1, <1>2, WordEndInside
<1>7. ASSUME back >= 0, HasPrefix(back, leftDelim) PROVE back + 2 <= Len(input)
  <2>1. Len(leftDelim) = 2 /\ back \in 0..Len(input)
    BY <1>5, <1>7 DEF leftDelim
  <2> HIDE DEF back
  <2> QED BY <1>1, <1>7, <2>1, PrefixInside
<1>8. StateFn = "LexTextNode" /\ pending = <<>> /\ ParenDepth' = ParenDepth
    BY DEF LexTextNode, Runs
<1>9. isText
    BY <1>8, SourceTyped DEF Inside, Home, Within, isText
<1>10. AllText(<<>>) /\ AllText(texts)
    BY <1>1, <1>2, NoText, OneText
<1>11. back >= 0 => AllText(rest(back))
  <2> HIDE DEF start, back
  <2> QED BY <1>1, <1>4, <1>5, NoText, OneText
<1>12. back >= 0 => AllText(texts \o rest(back))
    BY <1>10, <1>11, TextsConcatenate
<1>13. IF cut /\ after < Start THEN Becomes("panic", Pos, Start, <<>>)
       ELSE IF inWord /\ HasColon(after, wordEnd)
       THEN Becomes("LexURI", wordEnd, start, texts)
       ELSE IF back < 0 THEN Becomes("panic", Pos, start, texts)
       ELSE IF HasPrefix(back, leftDelim)
       THEN Becomes("LeftDelim", back, IF back > start THEN back ELSE start, texts \o rest(back))
       ELSE IF Peek(back) = EOF
       THEN Becomes("ended", back, back, texts \o rest(back) \o <<It("EOF", back, back)>>)
       ELSE Becomes("LexTextNode", back + Next(back).w, start, texts)
    BY DEF LexTextNode
<1>14. {"panic", "LexURI", "LeftDelim", "LexTextNode"} = Home("LexTextNode")
    BY DEF Home
<1> DEFINE gone == texts \o rest(back)
           beyond == back + Next(back).w
<1> HIDE DEF start, back, texts, cut, inWord, after, wordEnd, gone, beyond
<1>15. CASE cut /\ after < Start
    BY <1>1, <1>8, <1>9, <1>10, <1>13, <1>14, <1>15, TextGoesOn
<1>16. CASE ~(cut /\ after < Start) /\ inWord /\ HasColon(after, wordEnd)
    BY <1>4, <1>6, <1>8, <1>9, <1>10, <1>13, <1>14, <1>16, TextGoesOn
<1>17. CASE ~(cut /\ after < Start) /\ ~(inWord /\ HasColon(after, wordEnd)) /\ back < 0
    BY <1>1, <1>4, <1>8, <1>9, <1>10, <1>13, <1>14, <1>17, TextGoesOn
<1>18. CASE ~(cut /\ after < Start) /\ ~(inWord /\ HasColon(after, wordEnd)) /\ ~(back < 0)
  <2>1. back \in 0..Len(input) /\ beyond \in 0..Len(input) /\ back >= 0
    BY <1>4, <1>5, <1>18 DEF beyond
  <2>2. AllText(gone)
    BY <1>12, <2>1 DEF gone
  <2>3. CASE HasPrefix(back, leftDelim)
    <3>1. (IF back > start THEN back ELSE start) \in 0..Len(input)
      BY <1>4, <2>1
    <3>2. Becomes("LeftDelim", back, IF back > start THEN back ELSE start, gone)
      BY <1>13, <1>18, <2>3 DEF gone
    <3>3. back + 2 <= Len(input)
      BY <1>7, <2>1, <2>3
    <3> QED BY <1>8, <1>9, <1>14, <2>1, <2>2, <3>1, <3>2, <3>3, TextGoesOn
  <2>4. CASE ~HasPrefix(back, leftDelim) /\ Peek(back) = EOF
    <3>1. Becomes("ended", back, back, gone \o <<It("EOF", back, back)>>)
      BY <1>13, <1>18, <2>4 DEF gone
    <3> QED BY <1>8, <1>9, <2>1, <2>2, <3>1, TextEnds
  <2>5. CASE ~HasPrefix(back, leftDelim) /\ Peek(back) # EOF
    <3>1. Becomes("LexTextNode", beyond, start, texts)
      BY <1>13, <1>18, <2>5 DEF beyond
    <3> QED BY <1>4, <1>8, <1>9, <1>10, <1>14, <2>1, <3>1, TextGoesOn
  <2> QED BY <2>3, <2>4, <2>5
<1> QED BY <1>15, <1>16, <1>17, <1>18

\* A call that emits one item.
LEMMA EmitsOne ==
    ASSUME Inside, pending = <<>>,
           NEW fn \in Home(source.name) \cup Within \cup {"ended"} \cup
                          (IF isText THEN {"RightDelim"} ELSE {}),
           NEW pos \in 0..Len(input), NEW start \in 0..Len(input),
           NEW t \in Types, NEW from \in 0..Len(input), NEW to \in 0..Len(input),
           Becomes(fn, pos, start, <<It(t, from, to)>>),
           ParenDepth' \in Int,
           fn \in {"LeftDelim", "RightDelim"} => pos + 2 <= Len(input)
    PROVE  /\ Inside' /\ pending = <<>> /\ source' = source /\ emitted' = emitted \o pending'
           /\ StateFn' = fn /\ Len(pending') = 1 /\ pending'[1].typ = t
<1> DEFINE x == It(t, from, to)
<1>1. from \in Nat /\ to \in Nat
    BY SourceTyped
<1>2. x \in Item /\ x.typ = t
    BY <1>1, ItemTyped
<1> HIDE DEF x
<1>3. Becomes(fn, pos, start, <<x>>) /\ <<x>> \in Seq(Item) /\ Len(<<x>>) = 1 /\ <<x>>[1] = x
    BY <1>2 DEF x
<1>4. /\ Inside' /\ source' = source /\ emitted' = emitted \o pending'
      /\ StateFn' = fn /\ pending' = <<x>>
    BY <1>3, BecomesInside
<1> QED BY <1>2, <1>3, <1>4

\* A call that emits none.
LEMMA EmitsNone ==
    ASSUME Inside, pending = <<>>,
           NEW fn \in Home(source.name) \cup Within \cup {"ended"} \cup
                          (IF isText THEN {"RightDelim"} ELSE {}),
           NEW pos \in 0..Len(input), Goes(fn, pos),
           fn \in {"LeftDelim", "RightDelim"} => pos + 2 <= Len(input)
    PROVE  /\ Inside' /\ pending = <<>> /\ source' = source /\ emitted' = emitted \o pending'
           /\ StateFn' = fn /\ pending' = <<>> /\ ParenDepth' = ParenDepth
<1>1. <<>> \in Seq(Item) /\ Start \in 0..Len(input) /\ ParenDepth' = ParenDepth /\ ParenDepth' \in Int
    BY DEF Inside, Goes
<1>2. Becomes(fn, pos, Start, <<>>)
    BY DEF Goes
<1> QED BY <1>1, <1>2, BecomesInside

\* Emit, after reading up to a place in the input.
LEMMA EmitsHere ==
    ASSUME Inside, pending = <<>>,
           NEW fn \in Home(source.name) \cup Within \cup {"ended"} \cup
                          (IF isText THEN {"RightDelim"} ELSE {}),
           NEW pos \in 0..Len(input), NEW t \in Types, Emits(fn, t, pos),
           fn \notin {"LeftDelim", "RightDelim"}
    PROVE  /\ Inside' /\ pending = <<>> /\ source' = source /\ emitted' = emitted \o pending'
           /\ StateFn' = fn /\ Len(pending') = 1 /\ pending'[1].typ = t /\ ParenDepth' = ParenDepth
<1>1. Start \in 0..Len(input) /\ ParenDepth' = ParenDepth /\ ParenDepth' \in Int
    BY DEF Inside, Emits
<1>2. Becomes(fn, pos, pos, <<It(t, Start, pos)>>)
    BY DEF Emits
<1> QED BY <1>1, <1>2, EmitsOne

\* A refusal.
LEMMA ErrorScans ==
    ASSUME Inside, pending = <<>>, NEW pos \in 0..Len(input), Errorf(pos)
    PROVE  Inside' /\ Scans
<1>1. Start \in 0..Len(input) /\ ParenDepth' = ParenDepth /\ ParenDepth' \in Int
    BY DEF Inside, Errorf
<1>2. Becomes("ended", pos, Start, <<It("Error", Start, Start)>>)
    BY DEF Errorf
<1>3. "Error" \in Types
    BY DEF Types
<1>4. /\ Inside' /\ pending = <<>> /\ source' = source /\ emitted' = emitted \o pending'
      /\ StateFn' = "ended" /\ Len(pending') = 1 /\ pending'[1].typ = "Error"
    BY <1>1, <1>2, <1>3, EmitsOne
<1>5. ScansError
    BY <1>1, <1>4 DEF ScansError
<1> QED BY <1>4, <1>5 DEF Scans

\* A call in an expression that emits one item of it.
LEMMA InnerScans ==
    ASSUME Inside, pending = <<>>, StateFn \in Within, NEW fn \in Within,
           NEW pos \in 0..Len(input), NEW t \in Inner \ {"LeftParen", "RightParen"}, Emits(fn, t, pos)
    PROVE  Inside' /\ Scans
<1>1. t \in Types /\ fn \notin {"LeftDelim", "RightDelim"} /\ Delta(t) = 0
    BY DEF Inner, Types, Within, Delta
<1>2. /\ Inside' /\ pending = <<>> /\ source' = source /\ emitted' = emitted \o pending'
      /\ StateFn' = fn /\ Len(pending') = 1 /\ pending'[1].typ = t /\ ParenDepth' = ParenDepth
    BY <1>1, EmitsHere
<1>3. ParenDepth' = ParenDepth + Delta(pending'[1].typ)
    BY <1>1, <1>2 DEF Inside
<1>4. ScansInner
    BY <1>2, <1>3 DEF ScansInner
<1> QED BY <1>2, <1>4 DEF Scans

\* A call in an expression that emits nothing yet.
LEMMA QuietScans ==
    ASSUME Inside, pending = <<>>, StateFn \in Within, NEW pos \in 0..Len(input),
           NEW fn \in Within \cup (IF isText THEN {"RightDelim"} ELSE {source.name}), Goes(fn, pos),
           fn = "RightDelim" => pos + 2 <= Len(input) /\ ParenDepth <= 0
    PROVE  Inside' /\ Scans
<1>1. ~isText => source.name \in Home(source.name) /\ source.name # "RightDelim"
    BY SourceTyped DEF Home, isText
<1>2. fn \in Home(source.name) \cup Within \cup {"ended"} \cup (IF isText THEN {"RightDelim"} ELSE {})
    BY <1>1
<1>3. fn = "LeftDelim" => FALSE
    BY SourceTyped DEF Within, isText
<1>4. /\ Inside' /\ pending = <<>> /\ source' = source /\ emitted' = emitted \o pending'
      /\ StateFn' = fn /\ pending' = <<>> /\ ParenDepth' = ParenDepth
    BY <1>2, <1>3, EmitsNone
<1>5. ScansQuietly
    BY <1>1, <1>4 DEF ScansQuietly, Within
<1> QED BY <1>4, <1>5 DEF Scans

\* Actions and expressions: the rune that decides.
LEMMA ActionScans ==
    ASSUME Inside, InsideAction
    PROVE  Inside' /\ Scans
<1> DEFINE read == Next(Pos)
           r == read.r
           after == Pos + read.w
           single == [c \in {"(", ")", "|"} |->
                        CASE c = "(" -> "LeftParen" [] c = ")" -> "RightParen" [] c = "|" -> "Pipe"]
           atEnd == source.name = "LexTextNode" /\ HasPrefix(Pos, rightDelim)
<1>1. /\ input \in Seq(Byte) /\ Len(input) \in Nat
      /\ Pos \in 0..Len(input) /\ Start \in 0..Len(input) /\ ParenDepth \in Int
      /\ source.name \in {"LexTextNode", "LexIfExpr", "LexForExpr"}
    BY SourceTyped DEF Inside
<1>2. after \in 0..Len(input)
    BY <1>1, NextReads
<1>3. StateFn = "InsideAction" /\ pending = <<>> /\ StateFn \in Within
    BY DEF InsideAction, Runs, Within
<1>4. \/ atEnd /\ ParenDepth > 0 /\ Errorf(Pos)
      \/ atEnd /\ ParenDepth <= 0 /\ Goes("RightDelim", Pos)
      \/ /\ r = EOF \/ IsEndOfLine(r)
         /\ IF source.name = "LexTextNode" THEN Errorf(after) ELSE Goes(source.name, after)
      \/ Goes("Space", after) \/ Goes("Identifier", after) \/ Goes("EspraURI", after)
      \/ Errorf(after)
      \/ Goes("Number", Pos)
      \/ Emits("String", "OpenQuote", after)
      \/ /\ r \in {"(", ")", "|"}
         /\ Becomes("InsideAction", after, after, <<It(single[r], Start, after)>>)
         /\ ParenDepth' = ParenDepth + (CASE r = "(" -> 1 [] r = ")" -> -1 [] OTHER -> 0)
    BY DEF InsideAction
<1>5. atEnd => isText /\ Pos + 2 <= Len(input)
  <2>1. Len(rightDelim) = 2
    BY DEF rightDelim
  <2> QED BY <1>1, <2>1, PrefixInside DEF isText
<1> HIDE DEF r, after, atEnd
<1>6. CASE Errorf(Pos) \/ Errorf(after)
    BY <1>1, <1>2, <1>3, <1>6, ErrorScans
<1>7. CASE atEnd /\ ParenDepth <= 0 /\ Goes("RightDelim", Pos)
    BY <1>1, <1>3, <1>5, <1>7, QuietScans
<1>8. CASE source.name # "LexTextNode" /\ Goes(source.name, after)
    BY <1>1, <1>2, <1>3, <1>8, QuietScans DEF isText
<1>9. CASE Goes("Space", after) \/ Goes("Identifier", after) \/ Goes("EspraURI", after) \/ Goes("Number", Pos)
    BY <1>1, <1>2, <1>3, <1>9, QuietScans DEF Within
<1>10. CASE Emits("String", "OpenQuote", after)
    BY <1>1, <1>2, <1>3, <1>10, InnerScans DEF Within, Inner
<1>11. CASE /\ r \in {"(", ")", "|"}
            /\ Becomes("InsideAction", after, after, <<It(single[r], Start, after)>>)
            /\ ParenDepth' = ParenDepth + (CASE r = "(" -> 1 [] r = ")" -> -1 [] OTHER -> 0)
  <2> DEFINE t == single[r]
  <2>1. /\ t \in {"LeftParen", "RightParen", "Pipe"}
        /\ (CASE r = "(" -> 1 [] r = ")" -> -1 [] OTHER -> 0) = Delta(t)
    BY <1>11 DEF Delta
  <2>2. t \in Types /\ t \in Inner /\ Delta(t) \in Int
    BY <2>1 DEF Types, Inner, Delta
  <2>3. ParenDepth' = ParenDepth + Delta(t) /\ ParenDepth' \in Int
    BY <1>1, <1>11, <2>1, <2>2
  <2>4. Becomes("InsideAction", after, after, <<It(t, Start, after)>>)
    BY <1>11
  <2> HIDE DEF t
  <2>5. /\ Inside' /\ pending = <<>> /\ source' = source /\ emitted' = emitted \o pending'
        /\ StateFn' = "InsideAction" /\ Len(pending') = 1 /\ pending'[1].typ = t
    BY <1>1, <1>2, <1>3, <2>2, <2>3, <2>4, EmitsOne DEF Within
  <2>6. ScansInner
    BY <1>3, <2>2, <2>3, <2>5 DEF ScansInner, Within
  <2> QED BY <2>5, <2>6 DEF Scans
<1> QED BY <1>4, <1>6, <1>7, <1>8, <1>9, <1>10, <1>11

\* Spaces and links to Espra.
LEMMA SpaceScans ==
    ASSUME Inside, Space \/ EspraURI
    PROVE  Inside' /\ Scans
<1>1. input \in Seq(Byte) /\ Pos \in 0..Len(input)
    BY SourceTyped DEF Inside
<1>2. EOF \notin {" "}
    BY DEF EOF
<1>3. RunEnd(Pos, {" "}) \in 0..Len(input)
  <2> DEFINE S == {" "}
  <2>1. EOF \notin S
    BY <1>2
  <2> HIDE DEF S
  <2>2. RunEnd(Pos, S) \in Pos..Len(input)
    BY <1>1, <2>1, RunEndInside
  <2>3. RunEnd(Pos, S) \in 0..Len(input)
    BY <1>1, <2>2
  <2> QED BY <2>3 DEF S
<1>4. CASE Space
    BY <1>3, <1>4, InnerScans DEF Space, Runs, Within, Inner
<1>5. CASE EspraURI
    BY <1>1, <1>5, InnerScans DEF EspraURI, Runs, Within, Inner
<1> QED BY <1>4, <1>5

\* Identifiers, builtins and keywords.
LEMMA IdentifierScans ==
    ASSUME Inside, Identifier
    PROVE  Inside' /\ Scans
<1> DEFINE bang == input[Start + 1] = "!"
           start == IF bang THEN Pos ELSE Start
           end == RunEnd(Pos, ValidIdentifierChar)
           key == Peek(end) = ":"
           t == CASE key -> "ArgKey" [] bang /\ ~key -> "Builtin" [] OTHER -> "Identifier"
           next == IF key THEN end + 1 ELSE end
<1>1. /\ input \in Seq(Byte) /\ Len(input) \in Nat
      /\ Pos \in 0..Len(input) /\ Start \in 0..Len(input) /\ ParenDepth \in Int
    BY SourceTyped DEF Inside
<1>2. EOF \notin ValidIdentifierChar
    BY DEF EOF, ValidIdentifierChar, Letter, Digit, Decimal
<1>3. end \in 0..Len(input)
    BY <1>1, <1>2, RunEndInside
<1>4. key => end # Len(input)
    BY <1>1, <1>3, NextReads DEF EOF
<1>5. next \in 0..Len(input) /\ start \in 0..Len(input)
    BY <1>1, <1>3, <1>4
<1>6. t \in Types /\ t \in Inner /\ Delta(t) = 0
    BY DEF Types, Inner, Delta
<1>7. StateFn = "Identifier" /\ pending = <<>> /\ StateFn \in Within /\ "InsideAction" \in Within
    BY DEF Identifier, Runs, Within
<1>8. Becomes("InsideAction", next, next, <<It(t, start, end)>>) /\ ParenDepth' = ParenDepth
    BY DEF Identifier
<1> HIDE DEF t, start, end, next
<1>9. /\ Inside' /\ pending = <<>> /\ source' = source /\ emitted' = emitted \o pending'
      /\ StateFn' = "InsideAction" /\ Len(pending') = 1 /\ pending'[1].typ = t
    BY <1>1, <1>3, <1>5, <1>6, <1>7, <1>8, EmitsOne
<1>10. ScansInner
    BY <1>1, <1>6, <1>7, <1>8, <1>9 DEF ScansInner
<1> QED BY <1>9, <1>10 DEF Scans

\* Numbers.
LEMMA NumberScans ==
    ASSUME Inside, Number
    PROVE  Inside' /\ Scans
<1> DEFINE from == IF Peek(Pos) = "-" THEN Pos + 1 ELSE Pos
           digits == RunEnd(from, Decimal)
           end == IF Peek(digits) = "i" THEN digits + 1 ELSE digits
           over == end + Next(end).w
<1>1. input \in Seq(Byte) /\ Len(input) \in Nat /\ Pos \in 0..Len(input)
    BY SourceTyped DEF Inside
<1>2. from \in 0..Len(input)
    BY <1>1, NextReads DEF EOF
<1>3. EOF \notin Decimal
    BY DEF EOF, Decimal
<1> HIDE DEF from
<1>4. digits \in 0..Len(input)
    BY <1>1, <1>2, <1>3, RunEndInside
<1> HIDE DEF digits
<1>4a. end \in 0..Len(input)
    BY <1>1, <1>4, NextReads DEF EOF
<1>5. over \in 0..Len(input)
    BY <1>1, <1>4a, NextReads
<1>6. StateFn \in Within /\ pending = <<>> /\ "InsideAction" \in Within
    BY DEF Number, Runs, Within
<1>7. Errorf(over) \/ Emits("InsideAction", "Number", end)
    BY DEF Number, from, digits
<1> HIDE DEF end, over
<1>8. "Number" \in Inner \ {"LeftParen", "RightParen"}
    BY DEF Inner
<1> QED BY <1>4a, <1>5, <1>6, <1>7, <1>8, ErrorScans, InnerScans

\* A turn over a string.
LEMMA StringScans ==
    ASSUME Inside, String
    PROVE  Inside' /\ Scans
<1> DEFINE r == Peek(Pos)
           after == Pos + Next(Pos).w
           over == after + Next(after).w
           fst == It("String", Start, Pos)
           snd == It("CloseQuote", Pos, after)
<1>1. /\ input \in Seq(Byte) /\ Len(input) \in Nat
      /\ Pos \in 0..Len(input) /\ Start \in 0..Len(input) /\ ParenDepth \in Int
    BY SourceTyped DEF Inside
<1>2. after \in 0..Len(input)
    BY <1>1, NextReads
<1>3. over \in 0..Len(input)
    BY <1>1, <1>2, NextReads
<1>4. /\ StateFn = "String" /\ StateFn \in Within /\ pending = <<>>
      /\ "InsideAction" \in Within /\ "String" \in Within
    BY DEF String, Runs, Within
<1>5. \/ Goes("String", over) \/ Errorf(after) \/ Goes("String", after)
      \/ Becomes("InsideAction", after, after, <<fst, snd>>) /\ ParenDepth' = ParenDepth
    BY DEF String
<1>6. /\ fst \in Item /\ fst.typ = "String"
      /\ snd \in Item /\ snd.typ = "CloseQuote"
  <2>1. Start \in Nat /\ Pos \in Nat /\ after \in Nat
    BY <1>1, <1>2
  <2>2. "String" \in Types /\ "CloseQuote" \in Types
    BY DEF Types
  <2> HIDE DEF after
  <2> QED BY <2>1, <2>2, ItemTyped
<1> HIDE DEF after, over, fst, snd
<1>7. CASE Goes("String", over) \/ Goes("String", after)
    BY <1>2, <1>3, <1>4, <1>7, QuietScans
<1>8. CASE Errorf(after)
    BY <1>2, <1>4, <1>8, ErrorScans
<1>9. CASE Becomes("InsideAction", after, after, <<fst, snd>>) /\ ParenDepth' = ParenDepth
  <2>1. <<fst, snd>> \in Seq(Item) /\ Len(<<fst, snd>>) = 2
    BY <1>6
  <2>2. /\ Inside' /\ source' = source /\ emitted' = emitted \o pending'
        /\ StateFn' = "InsideAction" /\ pending' = <<fst, snd>>
    BY <1>1, <1>2, <1>4, <1>9, <2>1, BecomesInside
  <2>3. ScansString
    BY <1>4, <1>6, <1>9, <2>1, <2>2 DEF ScansString
  <2> QED BY <1>4, <2>2, <2>3 DEF Scans
<1> QED BY <1>5, <1>7, <1>8, <1>9

\* What would end before it begins is not sent.
LEMMA PanicScans ==
    ASSUME Inside, isText, pending = <<>>, StateFn \in Home("LexTextNode"), ParenDepth' = ParenDepth,
           NEW pos \in 0..Len(input), Becomes("panic", pos, Start, <<>>)
    PROVE  Inside' /\ Scans
<1>1. "panic" \in Home(source.name) /\ "panic" \in Home("LexTextNode")
    BY DEF Home, isText
<1>2. <<>> \in Seq(Item) /\ Start \in 0..Len(input) /\ ParenDepth' \in Int
    BY DEF Inside
<1>3. /\ Inside' /\ source' = source /\ emitted' = emitted \o pending'
      /\ StateFn' = "panic" /\ pending' = <<>>
    BY <1>1, <1>2, BecomesInside
<1>4. ScansText
    BY <1>1, <1>3 DEF ScansText
<1> QED BY <1>3, <1>4 DEF Scans

\* URIs and delimiters.
LEMMA DelimScans ==
    ASSUME Inside, LexURI \/ LeftDelim \/ RightDelim
    PROVE  Inside' /\ Scans
<1>1. /\ input \in Seq(Byte) /\ Len(input) \in Nat
      /\ Pos \in 0..Len(input) /\ Start \in 0..Len(input) /\ ParenDepth \in Int
      /\ source.name \in {"LexTextNode", "LexIfExpr", "LexForExpr"}
    BY SourceTyped DEF Inside
<1>2. pending = <<>> /\ StateFn \in {"LexURI", "LeftDelim", "RightDelim"}
    BY DEF LexURI, LeftDelim, RightDelim, Runs
<1>3. isText
    BY <1>1, <1>2 DEF Inside, Home, Within, isText
<1>4. "LexTextNode" \in Home(source.name) /\ "InsideAction" \in Within
    BY <1>3 DEF Home, isText, Within
<1>5. {"URI", "LeftDelim", "RightDelim"} \subseteq Types
    BY DEF Types
<1>6. CASE Start > (IF LexURI THEN Pos ELSE Pos + 2) /\ (LexURI \/ LeftDelim)
  <2> DEFINE pos == IF LexURI THEN Pos ELSE Pos + 2
  <2>1. Becomes("panic", pos, Start, <<>>) /\ ParenDepth' = ParenDepth /\ StateFn \in Home("LexTextNode")
    BY <1>6 DEF LexURI, LeftDelim, Runs, EmitsBack, Home
  <2>2. pos \in 0..Len(input)
    BY <1>1, <1>6 DEF Inside, LeftDelim, Runs
  <2> HIDE DEF pos
  <2> QED BY <1>2, <1>3, <2>1, <2>2, PanicScans
<1>7. CASE LexURI /\ ~(Start > Pos)
  <2>1. StateFn = "LexURI" /\ Emits("LexTextNode", "URI", Pos)
    BY <1>7 DEF LexURI, Runs, EmitsBack
  <2>2. /\ Inside' /\ pending = <<>> /\ source' = source /\ emitted' = emitted \o pending'
        /\ StateFn' = "LexTextNode" /\ Len(pending') = 1 /\ pending'[1].typ = "URI"
        /\ ParenDepth' = ParenDepth
    BY <1>1, <1>2, <1>4, <1>5, <2>1, EmitsHere
  <2> QED BY <1>3, <2>1, <2>2 DEF Scans, ScansDelim
<1>8. CASE LeftDelim /\ ~(Start > Pos + 2)
  <2>1. StateFn = "LeftDelim" /\ Emits("InsideAction", "LeftDelim", Pos + 2)
    BY <1>8 DEF LeftDelim, Runs, EmitsBack
  <2>2. Pos + 2 \in 0..Len(input)
    BY <1>1, <2>1 DEF Inside
  <2>3. /\ Inside' /\ pending = <<>> /\ source' = source /\ emitted' = emitted \o pending'
        /\ StateFn' = "InsideAction" /\ Len(pending') = 1 /\ pending'[1].typ = "LeftDelim"
        /\ ParenDepth' = ParenDepth
    BY <1>2, <1>4, <1>5, <2>1, <2>2, EmitsHere
  <2> QED BY <1>3, <2>1, <2>3 DEF Scans, ScansDelim
<1>9. CASE RightDelim
  <2>1. StateFn = "RightDelim" /\ Emits("LexTextNode", "RightDelim", Pos + 2)
    BY <1>9 DEF RightDelim, Runs
  <2>2. Pos + 2 \in 0..Len(input)
    BY <1>1, <2>1 DEF Inside
  <2>3. /\ Inside' /\ pending = <<>> /\ source' = source /\ emitted' = emitted \o pending'
        /\ StateFn' = "LexTextNode" /\ Len(pending') = 1 /\ pending'[1].typ = "RightDelim"
        /\ ParenDepth' = ParenDepth
    BY <1>2, <1>4, <1>5, <2>1, <2>2, EmitsHere
  <2> QED BY <1>3, <2>1, <2>3 DEF Scans, ScansDelim
<1> QED
  <2>1. LexURI /\ LeftDelim => FALSE
    BY DEF LexURI, LeftDelim, Runs
  <2> QED BY <1>6, <1>7, <1>8, <1>9, <2>1

\* The attributes, outside their expressions.
LEMMA AttributeScans ==
    ASSUME Inside, LexIfExpr \/ LexForExpr \/ LoopIdentifier
    PROVE  Inside' /\ Scans
<1> DEFINE after == Pos + Next(Pos).w
           blank == RunEnd(after, {" "})
           word == RunEnd(Pos, ValidIdentifierChar)
<1>1. /\ input \in Seq(Byte) /\ Len(input) \in Nat
      /\ Pos \in 0..Len(input) /\ Start \in 0..Len(input)
      /\ source.name \in {"LexTextNode", "LexIfExpr", "LexForExpr"}
    BY SourceTyped DEF Inside
<1>2. pending = <<>> /\ StateFn \in {"LexIfExpr", "LexForExpr", "LoopIdentifier"}
    BY DEF LexIfExpr, LexForExpr, LoopIdentifier, Runs
<1>3. /\ ~isText /\ "InsideAction" \in Within
      /\ StateFn = "LexIfExpr" => Home(source.name) = {"LexIfExpr"}
      /\ StateFn # "LexIfExpr" => Home(source.name) = {"LexForExpr", "LoopIdentifier"}
    BY <1>1, <1>2 DEF Inside, Home, Within, isText
<1>4. {"EOF", "In", "Space", "Identifier"} \subseteq Types
    BY DEF Types
<1>5. after \in 0..Len(input)
    BY <1>1, NextReads
<1>6. blank \in 0..Len(input)
  <2> DEFINE S == {" "}
  <2>1. EOF \notin S
    BY DEF EOF
  <2> HIDE DEF S, after
  <2>2. RunEnd(after, S) \in after..Len(input)
    BY <1>1, <1>5, <2>1, RunEndInside
  <2>3. RunEnd(after, S) \in 0..Len(input)
    BY <1>1, <1>5, <2>2
  <2> QED BY <2>3 DEF S
<1>7. word \in 0..Len(input)
  <2>1. EOF \notin ValidIdentifierChar
    BY DEF EOF, ValidIdentifierChar, Letter, Digit, Decimal
  <2>2. word \in Pos..Len(input)
    BY <1>1, <2>1, RunEndInside
  <2> HIDE DEF word
  <2> QED BY <1>1, <2>2
<1>8. CASE LexIfExpr
  <2>1. StateFn = "LexIfExpr" /\ (Emits("ended", "EOF", Pos) \/ Goes("InsideAction", Pos))
    BY <1>8 DEF LexIfExpr, Runs
  <2>2. CASE Emits("ended", "EOF", Pos)
    <3>1. /\ Inside' /\ pending = <<>> /\ source' = source /\ emitted' = emitted \o pending'
          /\ StateFn' = "ended" /\ Len(pending') = 1 /\ pending'[1].typ = "EOF"
          /\ ParenDepth' = ParenDepth
      BY <1>1, <1>2, <1>4, <2>2, EmitsHere
    <3> QED BY <1>3, <2>1, <3>1 DEF Scans, ScansAttribute
  <2>3. CASE Goes("InsideAction", Pos)
    <3>1. /\ Inside' /\ pending = <<>> /\ source' = source /\ emitted' = emitted \o pending'
          /\ StateFn' = "InsideAction" /\ pending' = <<>> /\ ParenDepth' = ParenDepth
      BY <1>1, <1>2, <1>3, <2>3, EmitsNone
    <3> QED BY <1>3, <2>1, <3>1 DEF Scans, ScansAttribute
  <2> QED BY <2>1, <2>2, <2>3
<1>9. CASE LexForExpr
  <2>1. /\ StateFn = "LexForExpr"
        /\ \/ Emits("ended", "EOF", Pos)
           \/ HasPrefix(Pos, <<"i", "n">>) /\ Emits("InsideAction", "In", Pos + 2)
           \/ Emits("LexForExpr", "Space", blank)
           \/ Goes("LoopIdentifier", after)
           \/ Errorf(after)
    BY <1>9 DEF LexForExpr, Runs
  <2> HIDE DEF after, blank
  <2>2. CASE Emits("ended", "EOF", Pos)
    <3>1. /\ Inside' /\ pending = <<>> /\ source' = source /\ emitted' = emitted \o pending'
          /\ StateFn' = "ended" /\ Len(pending') = 1 /\ pending'[1].typ = "EOF"
          /\ ParenDepth' = ParenDepth
      BY <1>1, <1>2, <1>4, <2>2, EmitsHere
    <3> QED BY <1>3, <2>1, <3>1 DEF Scans, ScansAttribute
  <2>3. CASE HasPrefix(Pos, <<"i", "n">>) /\ Emits("InsideAction", "In", Pos + 2)
    <3>1. Len(<<"i", "n">>) = 2
      OBVIOUS
    <3>2. Pos + 2 \in 0..Len(input)
      BY <1>1, <2>3, <3>1, PrefixInside
    <3>3. /\ Inside' /\ pending = <<>> /\ source' = source /\ emitted' = emitted \o pending'
          /\ StateFn' = "InsideAction" /\ Len(pending') = 1 /\ pending'[1].typ = "In"
          /\ ParenDepth' = ParenDepth
      BY <1>2, <1>3, <1>4, <2>3, <3>2, EmitsHere
    <3> QED BY <1>3, <2>1, <3>3 DEF Scans, ScansAttribute
  <2>4. CASE Emits("LexForExpr", "Space", blank)
    <3>1. /\ Inside' /\ pending = <<>> /\ source' = source /\ emitted' = emitted \o pending'
          /\ StateFn' = "LexForExpr" /\ Len(pending') = 1 /\ pending'[1].typ = "Space"
          /\ ParenDepth' = ParenDepth
      BY <1>2, <1>3, <1>4, <1>6, <2>1, <2>4, EmitsHere
    <3> QED BY <1>3, <2>1, <3>1 DEF Scans, ScansAttribute
  <2>5. CASE Goes("LoopIdentifier", after)
    <3>1. /\ Inside' /\ pending = <<>> /\ source' = source /\ emitted' = emitted \o pending'
          /\ StateFn' = "LoopIdentifier" /\ pending' = <<>> /\ ParenDepth' = ParenDepth
      BY <1>2, <1>3, <1>5, <2>1, <2>5, EmitsNone
    <3> QED BY <1>3, <2>1, <3>1 DEF Scans, ScansAttribute
  <2>6. CASE Errorf(after)
    BY <1>2, <1>5, <2>6, ErrorScans
  <2> QED BY <2>1, <2>2, <2>3, <2>4, <2>5, <2>6
<1>10. CASE LoopIdentifier
  <2>1. StateFn = "LoopIdentifier" /\ Emits("LexForExpr", "Identifier", word)
    BY <1>10 DEF LoopIdentifier, Runs
  <2> HIDE DEF word
  <2>2. /\ Inside' /\ pending = <<>> /\ source' = source /\ emitted' = emitted \o pending'
        /\ StateFn' = "LexForExpr" /\ Len(pending') = 1 /\ pending'[1].typ = "Identifier"
        /\ ParenDepth' = ParenDepth
    BY <1>2, <1>3, <1>4, <1>7, <2>1, EmitsHere
  <2> QED BY <1>3, <2>1, <2>2 DEF Scans, ScansAttribute
<1> QED BY <1>8, <1>9, <1>10

\* Every step of the scanner.
LEMMA RunScans ==
    ASSUME Inside, Run
    PROVE  Inside' /\ Scans
BY TextScans, DelimScans, ActionScans, SpaceScans, IdentifierScans, NumberScans, StringScans,
   AttributeScans DEF Run

----------------------------------------------------------------------------
(* What a step of the parser may do, as far as the scanner can tell.       *)

head == pending[1].typ

Stops == parser' \in {"error", "panic"}

\* It takes an item into the call it is in.
Stays ==
    /\ parser' = "run" /\ Len(frames') = Len(frames) /\ Exprs' = Exprs
    /\ head \notin {"LeftParen", "RightParen", "EOF", "LeftDelim", "RightDelim", "Error"}
    /\ frames = <<>> => head # "In"

\* It calls ParseExpr for what is in parentheses, or for the whole expression.
Opens ==
    /\ parser' = "run" /\ head = "LeftParen" /\ frames # <<>>
    /\ Len(frames') = Len(frames) + 1 /\ Exprs' = Exprs

Begins ==
    /\ parser' = "run" /\ frames = <<>> /\ Len(frames') = 1 /\ Exprs' = Exprs
    /\ IF isText THEN head = "LeftDelim" ELSE head = "In"

\* It returns from ParseExpr, to another, to the text or to its own caller.
Closes ==
    /\ parser' = "run" /\ head = "RightParen" /\ Len(frames) > 1
    /\ Len(frames') = Len(frames) - 1 /\ Exprs' = Exprs

Finishes ==
    /\ parser' = "run" /\ isText /\ head = "RightDelim" /\ Len(frames) = 1
    /\ frames' = <<>> /\ Exprs' = Exprs + 1

Accepts ==
    /\ parser' = "ok" /\ head = "EOF" /\ Exprs' = Exprs
    /\ IF isText THEN frames = <<>> ELSE Len(frames) = 1

Parses ==
    /\ parser = "run" /\ pending # <<>> /\ pending' = Tail(pending)
    /\ UNCHANGED <<source, StateFn, Pos, Start, ParenDepth, emitted>>
    /\ Stops \/ Stays \/ Opens \/ Begins \/ Closes \/ Finishes \/ Accepts

\* The expressions among the nodes, one node more or none.
LEMMA ExprsOf ==
    ASSUME NEW s \in Seq(Nodes), NEW n \in Nodes
    PROVE  LET N(t) == Cardinality({i \in 1..Len(t) : t[i] = "expr"})
           IN  /\ N(s) \in Nat
               /\ N(Append(s, n)) = N(s) + (IF n = "expr" THEN 1 ELSE 0)
<1> DEFINE I(t) == {i \in 1..Len(t) : t[i] = "expr"}
           more == Append(s, n)
<1>1. IsFiniteSet(1..Len(s)) /\ I(s) \subseteq 1..Len(s)
    BY FS_Interval
<1>2. IsFiniteSet(I(s)) /\ Cardinality(I(s)) \in Nat
    BY <1>1, FS_Subset, FS_CardinalityType
<1>3. /\ Len(more) = Len(s) + 1 /\ Len(s) \in Nat /\ more[Len(s) + 1] = n
      /\ \A i \in 1..Len(s) : more[i] = s[i]
    OBVIOUS
<1>4. I(more) = IF n = "expr" THEN I(s) \cup {Len(s) + 1} ELSE I(s)
  <2> HIDE DEF more
  <2>1. 1..Len(more) = 1..Len(s) \cup {Len(s) + 1}
    BY <1>3
  <2> QED BY <1>3, <2>1
<1>5. Len(s) + 1 \notin I(s)
    BY <1>1, <1>3
<1> HIDE DEF I, more
<1>6. Cardinality(I(s) \cup {Len(s) + 1}) = Cardinality(I(s)) + 1
    BY <1>2, <1>5, FS_AddElement
<1>7. Cardinality(I(more)) = Cardinality(I(s)) + (IF n = "expr" THEN 1 ELSE 0)
    BY <1>2, <1>4, <1>6
<1> QED BY <1>2, <1>7 DEF I, more

\* A sequence but for its last element.
LEMMA FrontOf ==
    ASSUME NEW S, NEW s \in Seq(S), s # <<>>
    PROVE  /\ Len(s) \in Nat /\ Len(s) > 0
           /\ Front(s) \in Seq(S) /\ Len(Front(s)) = Len(s) - 1
           /\ \A i \in 1..Len(s) - 1 : Front(s)[i] = s[i]
<1> DEFINE n == Len(s) - 1
<1>1. Len(s) \in Nat /\ Len(s) > 0 /\ n \in Nat
    OBVIOUS
<1> HIDE DEF n
<1>2. \A i \in 1..n : s[i] \in S
    BY <1>1 DEF n
<1>3. SubSeq(s, 1, n) = [i \in 1..n |-> s[i]]
    BY <1>1
<1>4. SubSeq(s, 1, n) \in Seq(S) /\ Len(SubSeq(s, 1, n)) = n
    BY <1>1, <1>2, <1>3
<1> QED BY <1>1, <1>3, <1>4 DEF n, Front

\* Another frame in the place of the last, with the same end.
LEMMA FrameReplaced ==
    ASSUME Stack, frames # <<>>, source' = source, nodes' = nodes, parser' = parser,
           NEW f \in Frame, f.end = frame.end, frames' = Append(Front(frames), f)
    PROVE  Stack' /\ Len(frames') = Len(frames) /\ Exprs' = Exprs
<1>1. frames \in Seq(Frame) /\ Len(frames) \in Nat /\ Len(frames) > 0
    BY DEF Stack
<1>2. /\ Front(frames) \in Seq(Frame) /\ Len(Front(frames)) = Len(frames) - 1
      /\ \A i \in 1..Len(frames) - 1 : Front(frames)[i] = frames[i]
    BY <1>1, FrontOf
<1>3. /\ frames' \in Seq(Frame) /\ Len(frames') = Len(frames)
      /\ \A i \in 1..Len(frames) - 1 : frames'[i] = frames[i]
      /\ frames'[Len(frames)] = f
    BY <1>1, <1>2
<1>4. frame = frames[Len(frames)] /\ isText' = isText
    BY DEF frame, Last, isText
<1>5. \A i \in 1..Len(frames) : frames'[i].end = frames[i].end
    BY <1>1, <1>3, <1>4
<1>6. Exprs' = Exprs
    BY DEF Exprs
<1> QED BY <1>3, <1>4, <1>5, <1>6 DEF Stack

\* A new frame is one, and can be given the pipes of another.
LEMMA FrameNew ==
    ASSUME NEW end \in {"RightDelim", "EOF", "RightParen"}, NEW isVal \in BOOLEAN, NEW from \in Int
    PROVE  /\ NewFrame(end, isVal, from) \in Frame /\ NewFrame(end, isVal, from).end = end
           /\ NewFrame(end, isVal, from).from = from /\ NewFrame(end, isVal, from).piped = <<>>
BY DEF NewFrame, Frame

\* A call of ParseExpr on top of the others.
LEMMA FrameCalled ==
    ASSUME Inside, Stack, source' = source, parser = "run", NEW end, NEW isVal \in BOOLEAN, Call(end, isVal),
           end = IF frames # <<>> THEN "RightParen" ELSE IF isText THEN "RightDelim" ELSE "EOF"
    PROVE  Stack' /\ Len(frames') = Len(frames) + 1 /\ Exprs' = Exprs /\ parser' = "run"
<1>1. frames \in Seq(Frame) /\ Len(frames) \in Nat
    BY DEF Stack
<1>2. NewFrame(end, isVal, number) \in Frame /\ NewFrame(end, isVal, number).end = end
  <2>1. number \in Int
    BY DEF Inside, number, received
  <2>2. end \in {"RightDelim", "EOF", "RightParen"}
    OBVIOUS
  <2> QED BY <2>1, <2>2, FrameNew
<1>3. frames' = Append(frames, NewFrame(end, isVal, number)) /\ parser' = parser /\ nodes' = nodes
    BY DEF Call
<1>4. /\ frames' \in Seq(Frame) /\ Len(frames') = Len(frames) + 1
      /\ \A i \in 1..Len(frames) : frames'[i] = frames[i]
      /\ frames'[Len(frames) + 1].end = end
    BY <1>1, <1>2, <1>3
<1>5. isText' = isText /\ Exprs' = Exprs
    BY <1>3 DEF isText, Exprs
<1>6. frames # <<>> <=> Len(frames) + 1 > 1
    BY <1>1
<1>7. \A i \in 1..Len(frames') :
          frames'[i].end = IF i > 1 THEN "RightParen" ELSE IF isText THEN "RightDelim" ELSE "EOF"
    BY <1>1, <1>4, <1>6 DEF Stack
<1> QED BY <1>3, <1>4, <1>5, <1>7 DEF Stack

\* The item received.
LEMMA Received ==
    ASSUME Inside, Receives
    PROVE  /\ typ = head /\ head \in Types
           /\ parser = "run" /\ pending # <<>> /\ pending' = Tail(pending)
           /\ UNCHANGED <<source, StateFn, Pos, Start, ParenDepth, emitted>>
<1>1. /\ parser = "run" /\ pending # <<>> /\ pending' = Tail(pending)
      /\ UNCHANGED <<source, StateFn, Pos, Start, ParenDepth, emitted>>
    BY DEF Receives
<1>2. pending \in Seq(Item)
    BY DEF Inside
<1>3. pending[1] \in Item /\ Head(pending) = pending[1]
    BY <1>1, <1>2
<1>4. typ = head
    BY <1>3 DEF typ, item, head
<1>5. head \in Types
    BY <1>3 DEF head, Item
<1> QED BY <1>1, <1>4, <1>5

\* The frame of the call in progress.
LEMMA FrameTyped ==
    ASSUME Stack, frames # <<>>
    PROVE  /\ frame \in Frame /\ Len(frames) \in Nat /\ Len(frames) > 0
           /\ frame.end = IF Len(frames) > 1 THEN "RightParen" ELSE IF isText THEN "RightDelim" ELSE "EOF"
BY DEF Stack, frame, Last

\* A change to a frame that keeps its end: its elements, ...
LEMMA FrameGrows ==
    ASSUME NEW g \in Frame, NEW b \in BOOLEAN, NEW es \in Seq(Types \cup {"expr"})
    PROVE  /\ [g EXCEPT !.first = b, !.elems = es] \in Frame
           /\ [g EXCEPT !.first = b, !.elems = es].end = g.end
           /\ [g EXCEPT !.elems = es] \in Frame /\ [g EXCEPT !.elems = es].end = g.end
BY DEF Frame

\* ... what it has seen of keywords, ...
LEMMA FrameKeyed ==
    ASSUME NEW g \in Frame, NEW b \in BOOLEAN, NEW c \in BOOLEAN
    PROVE  /\ [g EXCEPT !.seen_argkey = b, !.inKeyVal = c] \in Frame
           /\ [g EXCEPT !.seen_argkey = b, !.inKeyVal = c].end = g.end
           /\ [g EXCEPT !.inKeyVal = b] \in Frame /\ [g EXCEPT !.inKeyVal = b].end = g.end
BY DEF Frame

\* ... and what is piped into it.
LEMMA FramePiped ==
    ASSUME NEW g \in Frame, NEW s \in Seq(Int)
    PROVE  /\ [g EXCEPT !.piped = s] \in Frame /\ [g EXCEPT !.piped = s].end = g.end
           /\ [g EXCEPT !.piped = s].from = g.from /\ [g EXCEPT !.piped = s].piped = s
BY DEF Frame

\* A parser that fails stops, with no frame left.
LEMMA FailStops ==
    ASSUME Stack, source' = source, Fail
    PROVE  Stack' /\ Stops
<1>1. parser' = "error" /\ frames' = <<>> /\ nodes' = nodes
    BY DEF Fail
<1>2. frames' \in Seq(Frame) /\ Len(frames') = 0 /\ nodes' \in Seq(Nodes)
    BY <1>1 DEF Stack
<1> QED BY <1>1, <1>2 DEF Stack, Stops

\* Calls, terminals, keywords and pipes in an expression.
LEMMA CallParses ==
    ASSUME Inside, Stack, OpenParen
    PROVE  Stack' /\ Parses
<1>1. Receives /\ frames # <<>> /\ typ = "LeftParen" /\ Call("RightParen", FALSE)
    BY DEF OpenParen, InExpr
<1>2. /\ typ = head /\ parser = "run" /\ pending # <<>> /\ pending' = Tail(pending)
      /\ UNCHANGED <<source, StateFn, Pos, Start, ParenDepth, emitted>>
    BY <1>1, Received
<1>3. Stack' /\ Len(frames') = Len(frames) + 1 /\ Exprs' = Exprs /\ parser' = "run"
    BY <1>1, <1>2, FrameCalled
<1> QED BY <1>1, <1>2, <1>3 DEF Parses, Opens

\* A terminal keeps the frames there are, and the stack in order.
LEMMA TerminalParses ==
    ASSUME Inside, Stack, Terminal
    PROVE  Stack' /\ Parses
<1> DEFINE f == [frame EXCEPT !.first = FALSE, !.elems = Append(@, typ)]
<1>1. Receives /\ frames # <<>> /\ isTerminal(typ)
    BY DEF Terminal, InExpr
<1>2. /\ typ = head /\ head \in Types /\ parser = "run" /\ pending # <<>> /\ pending' = Tail(pending)
      /\ UNCHANGED <<source, StateFn, Pos, Start, ParenDepth, emitted>>
    BY <1>1, Received
<1>3. head \notin {"LeftParen", "RightParen", "EOF", "LeftDelim", "RightDelim", "Error"}
    BY <1>1, <1>2 DEF isTerminal, Terminals
<1>4. CASE parser' = "panic" /\ UNCHANGED <<frames, nodes, exprs>>
  <2>1. Stack'
    BY <1>2, <1>4 DEF Stack, isText
  <2> QED BY <1>2, <1>4, <2>1 DEF Parses, Stops
<1>5. CASE Fail
    BY <1>2, <1>5, FailStops DEF Parses
<1>6. CASE SetFrame(f)
  <2>1. frame \in Frame
    BY <1>1, FrameTyped
  <2>2. Append(frame.elems, typ) \in Seq(Types \cup {"expr"}) /\ FALSE \in BOOLEAN
    BY <1>2, <2>1 DEF Frame
  <2>4. f \in Frame /\ f.end = frame.end
    BY <2>1, <2>2, FrameGrows
  <2>5. frames' = Append(Front(frames), f) /\ nodes' = nodes /\ parser' = parser
    BY <1>6 DEF SetFrame
  <2> HIDE DEF f
  <2>6. Stack' /\ Len(frames') = Len(frames) /\ Exprs' = Exprs
    BY <1>1, <1>2, <2>4, <2>5, FrameReplaced
  <2> QED BY <1>1, <1>2, <1>3, <2>5, <2>6 DEF Parses, Stays
<1> QED BY <1>4, <1>5, <1>6 DEF Terminal

\* The name of an argument does so, or stops the parser.
LEMMA ArgKeyParses ==
    ASSUME Inside, Stack, ArgKey
    PROVE  Stack' /\ Parses
<1> DEFINE f == [frame EXCEPT !.seen_argkey = TRUE, !.inKeyVal = TRUE]
<1>1. Receives /\ frames # <<>> /\ typ = "ArgKey" /\ (Fail \/ SetFrame(f))
    BY DEF ArgKey, InExpr
<1>2. /\ typ = head /\ parser = "run" /\ pending # <<>> /\ pending' = Tail(pending)
      /\ UNCHANGED <<source, StateFn, Pos, Start, ParenDepth, emitted>>
    BY <1>1, Received
<1>3. CASE Fail
    BY <1>2, <1>3, FailStops DEF Parses
<1>4. CASE SetFrame(f)
  <2>1. frame \in Frame
    BY <1>1, FrameTyped
  <2>2. TRUE \in BOOLEAN
    OBVIOUS
  <2>3. f \in Frame /\ f.end = frame.end
    BY <2>1, <2>2, FrameKeyed
  <2>4. frames' = Append(Front(frames), f) /\ nodes' = nodes /\ parser' = parser
    BY <1>4 DEF SetFrame
  <2> HIDE DEF f
  <2>5. Stack' /\ Len(frames') = Len(frames) /\ Exprs' = Exprs
    BY <1>1, <1>2, <2>3, <2>4, FrameReplaced
  <2> QED BY <1>1, <1>2, <2>4, <2>5 DEF Parses, Stays
<1> QED BY <1>1, <1>3, <1>4

\* A pipe replaces the frame by one that ends as it did, at the same depth.
LEMMA PipeParses ==
    ASSUME Inside, Stack, Pipe
    PROVE  Stack' /\ Parses
<1> DEFINE g == NewFrame(frame.end, frame.isVal, frame.from)
           piped == <<number>> \o frame.piped
           f == [g EXCEPT !.piped = piped]
<1>1. Receives /\ frames # <<>> /\ typ = "Pipe"
    BY DEF Pipe, PipesInto, InExpr
<1>2. /\ typ = head /\ parser = "run" /\ pending # <<>> /\ pending' = Tail(pending)
      /\ UNCHANGED <<source, StateFn, Pos, Start, ParenDepth, emitted>>
    BY <1>1, Received
<1>3. frames' = Append(Front(frames), f) /\ nodes' = nodes /\ parser' = parser
    BY DEF Pipe, PipesInto, SetFrame
<1>4. frame \in Frame
    BY <1>1, FrameTyped
<1>5. /\ frame.end \in {"RightDelim", "EOF", "RightParen"} /\ frame.isVal \in BOOLEAN
      /\ frame.from \in Int /\ frame.piped \in Seq(Int)
    BY <1>4 DEF Frame
<1>6. g \in Frame /\ g.end = frame.end
    BY <1>5, FrameNew
<1>7. f \in Frame /\ f.end = frame.end
  <2>1. number \in Int
    BY DEF Inside, number, received
  <2> HIDE DEF g
  <2>2. piped \in Seq(Int)
    BY <1>5, <2>1
  <2> HIDE DEF piped
  <2> QED BY <1>6, <2>2, FramePiped
<1> HIDE DEF f
<1>8. Stack' /\ Len(frames') = Len(frames) /\ Exprs' = Exprs
    BY <1>1, <1>2, <1>3, <1>7, FrameReplaced
<1> QED BY <1>1, <1>2, <1>3, <1>8 DEF Parses, Stays

\* The last frame gone and another in the place of its caller's.
LEMMA FramePopped ==
    ASSUME Stack, Front(frames) # <<>>, frames # <<>>,
           source' = source, nodes' = nodes, parser' = parser,
           NEW f \in Frame, f.end = Last(Front(frames)).end,
           frames' = Append(Front(Front(frames)), f)
    PROVE  Stack' /\ Len(frames) > 1 /\ Len(frames') = Len(frames) - 1 /\ Exprs' = Exprs
<1> DEFINE callers == Front(frames)
           n == Len(frames)
<1>1. /\ frames \in Seq(Frame) /\ n \in Nat
      /\ callers \in Seq(Frame) /\ Len(callers) = n - 1
      /\ \A i \in 1..n - 1 : callers[i] = frames[i]
    BY FrontOf DEF Stack
<1> HIDE DEF callers
<1>2. /\ n - 1 > 0
      /\ Front(callers) \in Seq(Frame) /\ Len(Front(callers)) = n - 2
      /\ \A i \in 1..n - 2 : Front(callers)[i] = callers[i]
    BY <1>1, FrontOf DEF callers
<1>3. frames' = Append(Front(callers), f)
    BY DEF callers
<1>4. /\ frames' \in Seq(Frame) /\ Len(frames') = n - 1
      /\ \A i \in 1..n - 2 : frames'[i] = frames[i]
      /\ frames'[n - 1] = f
  <2> DEFINE s == Front(callers)
  <2>1. s \in Seq(Frame) /\ Len(s) = n - 2 /\ \A i \in 1..n - 2 : s[i] = frames[i]
    BY <1>1, <1>2
  <2> HIDE DEF s
  <2>2. frames' = Append(s, f) /\ s \in Seq(Frame)
    BY <1>3, <2>1 DEF s
  <2>3. /\ Append(s, f) \in Seq(Frame) /\ Len(Append(s, f)) = Len(s) + 1
        /\ Append(s, f)[Len(s) + 1] = f
        /\ \A i \in 1..Len(s) : Append(s, f)[i] = s[i]
    BY <2>2
  <2> DEFINE a == Append(s, f)
  <2>4. /\ a \in Seq(Frame) /\ Len(a) = n - 1 /\ a[n - 1] = f
        /\ \A i \in 1..n - 2 : a[i] = frames[i]
    <3> HIDE DEF n, a
    <3>1. Len(s) = n - 2 /\ Len(s) + 1 = n - 1
      BY <1>1, <2>1
    <3>2. \A i \in 1..n - 2 : s[i] = frames[i]
      BY <2>1
    <3>3. a \in Seq(Frame) /\ Len(a) = n - 1
      BY <2>3, <3>1 DEF a
    <3>4. a[n - 1] = f
      BY <2>3, <3>1, Zenon DEF a
    <3>5. \A i \in 1..n - 2 : a[i] = frames[i]
      <4>1. \A i \in 1..Len(s) : a[i] = s[i]
        BY <2>3 DEF a
      <4> QED BY <3>1, <3>2, <4>1, Zenon
    <3> QED BY <3>3, <3>4, <3>5
  <2> HIDE DEF a, n
  <2> QED BY <2>2, <2>4 DEF a
<1>5. f.end = frames[n - 1].end
  <2>1. f.end = Last(callers).end /\ Last(callers) = callers[Len(callers)]
    BY DEF callers, Last
  <2>2. Len(callers) = n - 1 /\ n - 1 \in 1..n - 1
    BY <1>1, <1>2
  <2>3. callers[n - 1] = frames[n - 1]
    BY <1>1, <2>2, Zenon
  <2> QED BY <2>1, <2>2, <2>3, Zenon
<1>6. ASSUME NEW i \in 1..n - 1 PROVE frames'[i].end = frames[i].end
  <2>1. CASE i = n - 1
    BY <1>4, <1>5, <2>1
  <2>2. CASE i # n - 1
    <3>1. i \in 1..n - 2
      BY <1>1, <2>2
    <3>2. frames'[i] = frames[i]
      BY <1>4, <3>1
    <3> QED BY <3>2
  <2> QED BY <2>1, <2>2
<1>7. isText' = isText /\ Exprs' = Exprs
    BY DEF isText, Exprs
<1>8. \A i \in 1..Len(frames') :
          frames'[i].end = IF i > 1 THEN "RightParen" ELSE IF isText THEN "RightDelim" ELSE "EOF"
    BY <1>1, <1>2, <1>4, <1>6 DEF Stack
<1> QED BY <1>1, <1>2, <1>4, <1>7, <1>8 DEF Stack

\* One frame is the call for the whole expression.
LEMMA FrameAlone ==
    ASSUME Stack, frames # <<>>
    PROVE  /\ Front(frames) = <<>> <=> Len(frames) = 1
           /\ Front(frames) # <<>> => Last(Front(frames)) \in Frame
<1>1. /\ Len(frames) \in Nat /\ Len(frames) > 0
      /\ Front(frames) \in Seq(Frame) /\ Len(Front(frames)) = Len(frames) - 1
    BY FrontOf DEF Stack
<1> DEFINE callers == Front(frames)
<1> HIDE DEF callers
<1>2. callers \in Seq(Frame) => (callers = <<>> <=> Len(callers) = 0)
    OBVIOUS
<1>3. callers \in Seq(Frame) /\ callers # <<>> => Last(callers) \in Frame
    BY DEF Last
<1> QED BY <1>1, <1>2, <1>3 DEF callers

\* A return.
LEMMA CloseParses ==
    ASSUME Inside, Stack, CloseExpr
    PROVE  Stack' /\ Parses
<1> DEFINE callers == Front(frames)
           caller == Last(callers)
<1>1. Receives /\ frames # <<>> /\ typ = frame.end
    BY DEF CloseExpr, InExpr
<1>2. /\ typ = head /\ head \in Types /\ parser = "run" /\ pending # <<>> /\ pending' = Tail(pending)
      /\ UNCHANGED <<source, StateFn, Pos, Start, ParenDepth, emitted>>
    BY <1>1, Received
<1>3. /\ frame.end = IF Len(frames) > 1 THEN "RightParen" ELSE IF isText THEN "RightDelim" ELSE "EOF"
      /\ Len(frames) \in Nat /\ Len(frames) > 0
    BY <1>1, FrameTyped
<1>4. \/ /\ callers # <<>> /\ frames' = Append(Front(callers), [caller EXCEPT !.inKeyVal = FALSE])
         /\ UNCHANGED <<parser, nodes>>
      \/ /\ callers # <<>>
         /\ frames' = Append(Front(callers), [caller EXCEPT !.elems = Append(@, "expr")])
         /\ UNCHANGED <<parser, nodes>>
      \/ /\ callers = <<>> /\ isText /\ frames' = <<>> /\ nodes' = Append(nodes, "expr")
         /\ parser' = parser
      \/ /\ callers = <<>> /\ ~isText /\ frames' = <<>> /\ parser' = "ok" /\ nodes' = nodes
    BY DEF CloseExpr, isText
<1>5. /\ callers = <<>> <=> Len(frames) = 1
      /\ callers # <<>> => caller \in Frame
    BY <1>1, FrameAlone
<1> HIDE DEF callers, caller
<1>6. ASSUME callers # <<>>, NEW f \in Frame, f.end = caller.end,
             frames' = Append(Front(callers), f), UNCHANGED <<parser, nodes>>
      PROVE  Stack' /\ Parses
  <2>1. Stack' /\ Len(frames) > 1 /\ Len(frames') = Len(frames) - 1 /\ Exprs' = Exprs
    BY <1>1, <1>2, <1>6, FramePopped DEF callers, caller
  <2> QED BY <1>1, <1>2, <1>3, <1>6, <2>1 DEF Parses, Closes
<1>7. ASSUME callers # <<>>, frames' = Append(Front(callers), [caller EXCEPT !.inKeyVal = FALSE]),
             UNCHANGED <<parser, nodes>>
      PROVE  Stack' /\ Parses
  <2>1. FALSE \in BOOLEAN
    OBVIOUS
  <2> QED BY <1>5, <1>6, <1>7, <2>1, FrameKeyed
<1>8. ASSUME callers # <<>>, frames' = Append(Front(callers), [caller EXCEPT !.elems = Append(@, "expr")]),
             UNCHANGED <<parser, nodes>>
      PROVE  Stack' /\ Parses
  <2>1. Append(caller.elems, "expr") \in Seq(Types \cup {"expr"}) /\ FALSE \in BOOLEAN
    BY <1>5, <1>8 DEF Frame
  <2> QED BY <1>5, <1>6, <1>8, <2>1, FrameGrows
<1>9. ASSUME callers = <<>>, frames' = <<>>
      PROVE  Len(frames) = 1 /\ frames' \in Seq(Frame) /\ Len(frames') = 0 /\ isText' = isText
    BY <1>2, <1>5, <1>9 DEF isText
<1>10. CASE callers = <<>> /\ isText /\ frames' = <<>> /\ nodes' = Append(nodes, "expr") /\ parser' = parser
  <2>1. nodes \in Seq(Nodes) /\ "expr" \in Nodes
    BY DEF Stack, Nodes
  <2>2. Exprs' = Exprs + 1
    BY <1>10, <2>1, ExprsOf DEF Exprs
  <2>3. nodes' \in Seq(Nodes)
    BY <1>10, <2>1
  <2>4. Stack'
    BY <1>2, <1>9, <1>10, <2>3 DEF Stack
  <2>5. Len(frames) = 1 /\ head = "RightDelim"
    <3>1. Len(frames) = 1
      BY <1>5, <1>10
    <3>2. ~(Len(frames) > 1)
      BY <3>1
    <3>3. frame.end = "RightDelim"
      BY <1>3, <1>10, <3>2
    <3> QED BY <1>1, <1>2, <3>1, <3>3
  <2> QED BY <1>2, <1>10, <2>2, <2>4, <2>5 DEF Parses, Finishes
<1>11. CASE callers = <<>> /\ ~isText /\ frames' = <<>> /\ parser' = "ok" /\ nodes' = nodes
  <2>1. Stack' /\ Exprs' = Exprs
    BY <1>2, <1>9, <1>11 DEF Stack, Exprs
  <2>2. Len(frames) = 1 /\ head = "EOF"
    <3>1. Len(frames) = 1
      BY <1>5, <1>11
    <3>2. ~(Len(frames) > 1)
      BY <3>1
    <3>3. frame.end = "EOF"
      BY <1>3, <1>11, <3>2
    <3> QED BY <1>1, <1>2, <3>1, <3>3
  <2> QED BY <1>2, <1>11, <2>1, <2>2 DEF Parses, Accepts
<1> QED BY <1>4, <1>7, <1>8, <1>10, <1>11

\* What is skipped, or ends an expression that must go on.
LEMMA SkipParses ==
    ASSUME Inside, Stack, Skip \/ WrongEnd
    PROVE  Stack' /\ Parses
<1>1. Receives /\ frames # <<>>
    BY DEF Skip, WrongEnd, InExpr
<1>2. /\ typ = head /\ head \in Types /\ parser = "run" /\ pending # <<>> /\ pending' = Tail(pending)
      /\ UNCHANGED <<source, StateFn, Pos, Start, ParenDepth, emitted>>
    BY <1>1, Received
<1>3. CASE Skip
  <2>1. typ \in {"Space", "OpenQuote", "CloseQuote", "In"} /\ UNCHANGED <<parser, frames, nodes, exprs>>
    BY <1>3 DEF Skip, parseVars
  <2>2. Stack' /\ Exprs' = Exprs
    BY <1>2, <2>1 DEF Stack, isText, Exprs
  <2> QED BY <1>1, <1>2, <2>1, <2>2 DEF Parses, Stays
<1>4. CASE WrongEnd
    BY <1>2, <1>4, FailStops DEF WrongEnd, Parses
<1> QED BY <1>3, <1>4

\* The value of a keyword.
LEMMA KeyValParses ==
    ASSUME Inside, Stack, KeyVal
    PROVE  Stack' /\ Parses
<1> DEFINE f == [frame EXCEPT !.inKeyVal = FALSE]
<1>1. Receives /\ frames # <<>>
    BY DEF KeyVal
<1>2. /\ typ = head /\ head \in Types /\ parser = "run" /\ pending # <<>> /\ pending' = Tail(pending)
      /\ UNCHANGED <<source, StateFn, Pos, Start, ParenDepth, emitted>>
    BY <1>1, Received
<1>3. \/ typ = "LeftParen" /\ Call("RightParen", TRUE)
      \/ isTerminal(typ) /\ SetFrame(f)
      \/ typ = "Space" /\ UNCHANGED <<parser, frames, nodes, exprs>>
      \/ Fail
    BY DEF KeyVal, parseVars
<1>4. CASE typ = "LeftParen" /\ Call("RightParen", TRUE)
  <2>1. Stack' /\ Len(frames') = Len(frames) + 1 /\ Exprs' = Exprs /\ parser' = "run"
    BY <1>1, <1>2, <1>4, FrameCalled
  <2> QED BY <1>1, <1>2, <1>4, <2>1 DEF Parses, Opens
<1>5. CASE isTerminal(typ) /\ SetFrame(f)
  <2>1. frame \in Frame /\ FALSE \in BOOLEAN
    BY <1>1, FrameTyped
  <2>2. f \in Frame /\ f.end = frame.end
    BY <2>1, FrameKeyed
  <2>3. frames' = Append(Front(frames), f) /\ nodes' = nodes /\ parser' = parser
    BY <1>5 DEF SetFrame
  <2> HIDE DEF f
  <2>4. Stack' /\ Len(frames') = Len(frames) /\ Exprs' = Exprs
    BY <1>1, <1>2, <2>2, <2>3, FrameReplaced
  <2>5. head \notin {"LeftParen", "RightParen", "EOF", "LeftDelim", "RightDelim", "Error"}
    BY <1>2, <1>5 DEF isTerminal, Terminals
  <2> QED BY <1>1, <1>2, <2>3, <2>4, <2>5 DEF Parses, Stays
<1>6. CASE typ = "Space" /\ UNCHANGED <<parser, frames, nodes, exprs>>
  <2>1. Stack' /\ Exprs' = Exprs
    BY <1>2, <1>6 DEF Stack, isText, Exprs
  <2> QED BY <1>1, <1>2, <1>6, <2>1 DEF Parses, Stays
<1>7. CASE Fail
    BY <1>2, <1>7, FailStops DEF Parses
<1> QED BY <1>3, <1>4, <1>5, <1>6, <1>7

\* A node of the text, not an expression.
LEMMA NodeAdded ==
    ASSUME Stack, parser = "run", source' = source, UNCHANGED <<parser, frames>>,
           NEW n \in Nodes \ {"expr"}, NEW m \in Nodes \ {"expr"},
           \/ nodes' = nodes
           \/ nodes' = Append(nodes, n)
           \/ nodes' = Append(Append(nodes, n), m)
    PROVE  Stack' /\ Exprs' = Exprs /\ Len(frames') = Len(frames) /\ parser' = "run"
<1>1. nodes \in Seq(Nodes)
    BY DEF Stack
<1>2. Append(nodes, n) \in Seq(Nodes) /\ Append(Append(nodes, n), m) \in Seq(Nodes)
    BY <1>1
<1>3. Exprs' = Exprs
  <2> DEFINE N(t) == Cardinality({i \in 1..Len(t) : t[i] = "expr"})
  <2>1. N(Append(nodes, n)) = N(nodes) /\ N(nodes) \in Nat
    BY <1>1, ExprsOf
  <2>2. N(Append(Append(nodes, n), m)) = N(Append(nodes, n))
    BY <1>2, ExprsOf
  <2> QED BY <2>1, <2>2 DEF Exprs
<1>4. nodes' \in Seq(Nodes) /\ isText' = isText
    BY <1>1, <1>2 DEF isText
<1> QED BY <1>3, <1>4 DEF Stack

\* Outside every expression.
LEMMA TopParses ==
    ASSUME Inside, Stack, ParseTextNode \/ ParseForExpr
    PROVE  Stack' /\ Parses
<1>1. Receives /\ frames = <<>>
    BY DEF ParseTextNode, ParseForExpr, AtTop
<1>2. /\ typ = head /\ head \in Types /\ parser = "run" /\ pending # <<>> /\ pending' = Tail(pending)
      /\ UNCHANGED <<source, StateFn, Pos, Start, ParenDepth, emitted>>
    BY <1>1, Received
<1>3. {"text", "uri", "empty", "var"} \subseteq Nodes \ {"expr"} /\ Len(frames) = 0
      /\ nodes \in Seq(Nodes)
    BY <1>1 DEF Nodes, Stack
<1>4. CASE ParseTextNode
  <2>1. isText
    BY <1>4 DEF ParseTextNode, isText
  <2>2. \/ typ = "Text" /\ nodes' = Append(nodes, "text") /\ UNCHANGED <<parser, frames>>
        \/ typ = "URI" /\ nodes' = nodes \o <<"uri">> /\ UNCHANGED <<parser, frames>>
        \/ typ = "URI" /\ nodes' = nodes \o <<"text", "empty">> /\ UNCHANGED <<parser, frames>>
        \/ typ = "LeftDelim" /\ Call("RightDelim", FALSE)
        \/ typ = "EOF" /\ parser' = "ok" /\ UNCHANGED <<frames, nodes>>
        \/ Fail
    BY <1>4 DEF ParseTextNode
  <2>3. /\ nodes \o <<"uri">> = Append(nodes, "uri")
        /\ nodes \o <<"text", "empty">> = Append(Append(nodes, "text"), "empty")
    BY <1>3
  <2>4. ASSUME typ \in {"Text", "URI"}, UNCHANGED <<parser, frames>>,
               nodes' = Append(nodes, "text") \/ nodes' = Append(nodes, "uri") \/
               nodes' = Append(Append(nodes, "text"), "empty")
        PROVE  Stack' /\ Parses
    <3>1. Stack' /\ Exprs' = Exprs /\ Len(frames') = Len(frames) /\ parser' = "run"
      BY <1>2, <1>3, <2>4, NodeAdded
    <3> QED BY <1>1, <1>2, <2>4, <3>1 DEF Parses, Stays
  <2>5. CASE typ = "LeftDelim" /\ Call("RightDelim", FALSE)
    <3>1. Stack' /\ Len(frames') = Len(frames) + 1 /\ Exprs' = Exprs /\ parser' = "run"
      BY <1>1, <1>2, <2>1, <2>5, FrameCalled
    <3> QED BY <1>1, <1>2, <1>3, <2>1, <2>5, <3>1 DEF Parses, Begins
  <2>6. CASE typ = "EOF" /\ parser' = "ok" /\ UNCHANGED <<frames, nodes>>
    <3>1. Stack' /\ Exprs' = Exprs
      BY <1>2, <2>6 DEF Stack, isText, Exprs
    <3> QED BY <1>1, <1>2, <2>1, <2>6, <3>1 DEF Parses, Accepts
  <2>7. CASE Fail
    BY <1>2, <2>7, FailStops DEF Parses
  <2> QED BY <2>2, <2>3, <2>4, <2>5, <2>6, <2>7
<1>5. CASE ParseForExpr
  <2>1. ~isText
    BY <1>5 DEF ParseForExpr, isText
  <2>2. \/ typ = "Identifier" /\ nodes' = Append(nodes, "var") /\ UNCHANGED <<parser, frames>>
        \/ typ = "In" /\ Call("EOF", FALSE)
        \/ typ = "Space" /\ UNCHANGED <<parser, frames, nodes>>
        \/ Fail
    BY <1>5 DEF ParseForExpr, parseVars
  <2>3. ASSUME typ \in {"Identifier", "Space"}, UNCHANGED <<parser, frames>>,
               nodes' = Append(nodes, "var") \/ nodes' = nodes
        PROVE  Stack' /\ Parses
    <3>1. Stack' /\ Exprs' = Exprs /\ Len(frames') = Len(frames) /\ parser' = "run"
      BY <1>2, <1>3, <2>3, NodeAdded
    <3> QED BY <1>1, <1>2, <2>3, <3>1 DEF Parses, Stays
  <2>4. CASE typ = "In" /\ Call("EOF", FALSE)
    <3>1. Stack' /\ Len(frames') = Len(frames) + 1 /\ Exprs' = Exprs /\ parser' = "run"
      BY <1>1, <1>2, <2>1, <2>4, FrameCalled
    <3> QED BY <1>1, <1>2, <1>3, <2>1, <2>4, <3>1 DEF Parses, Begins
  <2>5. CASE Fail
    BY <1>2, <2>5, FailStops DEF Parses
  <2> QED BY <2>2, <2>3, <2>4, <2>5
<1> QED BY <1>4, <1>5

\* Every step of the parser.
LEMMA ParseParses ==
    ASSUME Inside, Stack, Parse
    PROVE  Stack' /\ Parses
BY CallParses, TerminalParses, ArgKeyParses, PipeParses, CloseParses, SkipParses, KeyValParses,
   TopParses DEF Parse

----------------------------------------------------------------------------
(* Counting the items emitted.                                             *)

CountOf(s, t) == Cardinality({i \in 1..Len(s) : s[i].typ = t})

\* Two sequences of items, one after the other.
LEMMA Concatenated ==
    ASSUME NEW s \in Seq(Item), NEW u \in Seq(Item)
    PROVE  /\ Len(s) \in Nat /\ Len(u) \in Nat /\ Len(s \o u) = Len(s) + Len(u)
           /\ \A i \in 1..Len(s) : (s \o u)[i] = s[i]
           /\ \A i \in 1..Len(u) : (s \o u)[Len(s) + i] = u[i]
OBVIOUS

\* What is emitted without an item of a type does not count for it.
LEMMA CountNone ==
    ASSUME NEW s \in Seq(Item), NEW u \in Seq(Item), NEW t, \A i \in 1..Len(u) : u[i].typ # t
    PROVE  CountOf(s \o u, t) = CountOf(s, t) /\ CountOf(s, t) \in Nat
<1> DEFINE I(x) == {i \in 1..Len(x) : x[i].typ = t}
           all == s \o u
<1>1. /\ Len(s) \in Nat /\ Len(u) \in Nat /\ Len(all) = Len(s) + Len(u)
      /\ \A i \in 1..Len(s) : all[i] = s[i]
      /\ \A i \in 1..Len(u) : all[Len(s) + i] = u[i]
    OBVIOUS
<1>2. ASSUME NEW i \in 1..Len(all), i > Len(s) PROVE all[i].typ # t
  <2>1. i - Len(s) \in 1..Len(u) /\ Len(s) + (i - Len(s)) = i
    BY <1>1, <1>2
  <2> QED BY <1>1, <2>1
<1> HIDE DEF all
<1>3. I(all) = I(s)
    BY <1>1, <1>2
<1>4. IsFiniteSet(1..Len(s)) /\ I(s) \subseteq 1..Len(s)
    BY <1>1, FS_Interval
<1>5. Cardinality(I(s)) \in Nat
    BY <1>4, FS_Subset, FS_CardinalityType
<1> QED BY <1>3, <1>5 DEF CountOf, all

\* One item counts for its type.
LEMMA CountOne ==
    ASSUME NEW s \in Seq(Item), NEW u \in Seq(Item), Len(u) = 1, NEW t, u[1].typ = t
    PROVE  CountOf(s \o u, t) = CountOf(s, t) + 1
<1> DEFINE I(x) == {i \in 1..Len(x) : x[i].typ = t}
           all == s \o u
<1>1. /\ Len(s) \in Nat /\ Len(all) = Len(s) + 1
      /\ \A i \in 1..Len(s) : all[i] = s[i]
      /\ all[Len(s) + 1] = u[1]
  <2>1. /\ Len(s) \in Nat /\ Len(all) = Len(s) + Len(u)
        /\ \A i \in 1..Len(s) : all[i] = s[i]
        /\ \A i \in 1..Len(u) : all[Len(s) + i] = u[i]
    BY Concatenated
  <2> HIDE DEF all
  <2> QED BY <2>1
<1>2. 1..Len(all) = 1..Len(s) \cup {Len(s) + 1}
    BY <1>1
<1> HIDE DEF all
<1>3. I(all) = I(s) \cup {Len(s) + 1}
    BY <1>1, <1>2
<1>4. IsFiniteSet(1..Len(s)) /\ I(s) \subseteq 1..Len(s) /\ Len(s) + 1 \notin I(s)
  <2>1. IsFiniteSet(1..Len(s)) /\ I(s) \subseteq 1..Len(s)
    BY <1>1, FS_Interval
  <2> QED BY <1>1, <2>1
<1>5. IsFiniteSet(I(s)) /\ Cardinality(I(s)) \in Nat
    BY <1>4, FS_Subset, FS_CardinalityType
<1> HIDE DEF I
<1>6. Cardinality(I(s) \cup {Len(s) + 1}) = Cardinality(I(s)) + 1
    BY <1>4, <1>5, FS_AddElement
<1>7. Cardinality(I(all)) = Cardinality(I(s)) + 1
    BY <1>3, <1>6
<1> QED BY <1>7 DEF CountOf, all, I

Counting == {"LeftParen", "RightParen", "LeftDelim", "RightDelim", "Pipe"}

\* What a step of the scanner adds to the counts.
LEMMA ScanCounts ==
    ASSUME Inside, Inside', Scans, NEW t \in Counting
    PROVE  /\ Count(t) \in Nat
           /\ Count(t)' = Count(t) + (IF Len(pending') = 1 /\ pending'[1].typ = t THEN 1 ELSE 0)
<1>1. emitted \in Seq(Item) /\ pending' \in Seq(Item) /\ emitted' = emitted \o pending'
    BY DEF Inside, Scans
<1> DEFINE n == CountOf(emitted, t)
<1>4. Count(t) = n /\ Count(t)' = CountOf(emitted', t)
    BY DEF Count, CountOf
<1> HIDE DEF n
<1>2. CASE Len(pending') = 1 /\ pending'[1].typ = t
  <2>1. CountOf(emitted \o pending', t) = CountOf(emitted, t) + 1
    BY <1>1, <1>2, CountOne
  <2>2. CountOf(emitted, t) \in Nat
    <3>1. <<>> \in Seq(Item) /\ \A i \in 1..Len(<<>>) : <<>>[i].typ # t
      OBVIOUS
    <3> QED BY <1>1, <3>1, CountNone
  <2> QED BY <1>1, <1>2, <1>4, <2>1, <2>2 DEF n
<1>3. CASE ~(Len(pending') = 1 /\ pending'[1].typ = t)
  <2>1. \A i \in 1..Len(pending') : pending'[i].typ # t
    <3>1. CASE ScansText
      BY <3>1 DEF ScansText, Counting
    <3>2. CASE ScansString
      BY <3>2 DEF ScansString, Counting
    <3>3. CASE ~ScansText /\ ~ScansString
      <4>1. Len(pending') = 1 \/ pending' = <<>>
        BY <3>3 DEF Scans, ScansDelim, ScansError, ScansAttribute, ScansQuietly, ScansInner
      <4> QED BY <1>3, <4>1
    <3> QED BY <3>1, <3>2, <3>3
  <2>2. CountOf(emitted \o pending', t) = CountOf(emitted, t) /\ CountOf(emitted, t) \in Nat
    BY <1>1, <2>1, CountNone
  <2> QED BY <1>1, <1>3, <1>4, <2>2 DEF n
<1> QED BY <1>2, <1>3

\* The scanner's depth stays that of what it emitted.
LEMMA ScanCounted ==
    ASSUME Inside, Inside', Counted, Scans
    PROVE  Counted'
<1>1. /\ Count("LeftParen") \in Nat /\ Count("RightParen") \in Nat
      /\ Count("LeftParen")' = Count("LeftParen") +
            (IF Len(pending') = 1 /\ pending'[1].typ = "LeftParen" THEN 1 ELSE 0)
      /\ Count("RightParen")' = Count("RightParen") +
            (IF Len(pending') = 1 /\ pending'[1].typ = "RightParen" THEN 1 ELSE 0)
    BY ScanCounts DEF Counting
<1>2. ParenDepth \in Int
    BY DEF Inside
<1> DEFINE l == Count("LeftParen")
           r == Count("RightParen")
<1>3. l = r + ParenDepth
    BY DEF Counted
<1> HIDE DEF l, r
<1>4. CASE ScansInner
  <2>1. Len(pending') = 1 /\ ParenDepth' = ParenDepth + Delta(pending'[1].typ)
    BY <1>4 DEF ScansInner
  <2>2. l' = r' + ParenDepth'
    BY <1>1, <1>2, <1>3, <2>1 DEF Delta, l, r
  <2> QED BY <2>2 DEF Counted, l, r
<1>5. CASE ~ScansInner
  <2>1. /\ ParenDepth' = ParenDepth
        /\ Len(pending') = 1 => pending'[1].typ \notin {"LeftParen", "RightParen"}
    BY <1>5 DEF Scans, ScansText, ScansDelim, ScansError, ScansAttribute, ScansQuietly, ScansString
  <2>2. l' = l /\ r' = r
    BY <1>1, <2>1 DEF l, r
  <2> QED BY <1>3, <2>1, <2>2 DEF Counted, l, r
<1> QED BY <1>4, <1>5

----------------------------------------------------------------------------
(* The two sides together.                                                 *)

inAction == StateFn \in Within \cup {"RightDelim"}

\* What is on offer after a step of the scanner.
LEMMA ScanOffers ==
    ASSUME Inside, Inside', Stack, Scans, StateFn # "ended", parser = "run", Follows,
           UNCHANGED parseVars
    PROVE  Offer' /\ ParenDepth' = Depth' + Owed'
<1>1. /\ pending = <<>> /\ source' = source /\ isText' = isText /\ frames' = frames /\ Depth' = Depth
      /\ ParenDepth = Depth /\ ParenDepth \in Int /\ pending' \in Seq(Item)
  <2>1. pending = <<>> /\ source' = source /\ frames' = frames
    BY DEF Scans, parseVars
  <2>2. Owed = 0 /\ ParenDepth = Depth + Owed /\ ParenDepth \in Int
    BY <2>1 DEF Owed, Follows, Inside
  <2>3. Depth' = Depth /\ isText' = isText
    BY <2>1 DEF Depth, isText
  <2>4. pending' \in Seq(Item)
    BY DEF Inside
  <2>5. ParenDepth = Depth
    BY <2>1, <2>2 DEF Depth, Stack
  <2> QED BY <2>1, <2>2, <2>3, <2>4, <2>5
<1>2. /\ StateFn \in Within \cup {"RightDelim"} => frames # <<>>
      /\ isText /\ frames # <<>> => StateFn \in Within \cup {"RightDelim"}
      /\ StateFn = "LexIfExpr" => frames # <<>>
      /\ StateFn = "RightDelim" => Len(frames) = 1
    BY <1>1 DEF Offer, Follows
<1>3. source.name \in {"LexTextNode", "LexIfExpr", "LexForExpr"}
    BY SourceTyped
<1>4. Len(frames) \in Nat /\ (frames = <<>> <=> Len(frames) = 0)
    BY DEF Stack
<1>5. CASE ScansText
  <2>1. frames = <<>>
    BY <1>2, <1>5 DEF ScansText, Home, Within
  <2>2. CASE pending' = <<>>
    <3>1. Owed' = 0
      BY <2>2 DEF Owed
    <3>2. Offer'
      BY <1>1, <1>5, <2>1, <2>2 DEF ScansText, Offer, Home, Within
    <3> QED BY <1>1, <1>5, <3>1, <3>2 DEF ScansText
  <2>3. CASE pending' # <<>>
    <3>1. pending'[1].typ \in {"Text", "EOF"}
      <4>1. 1 \in 1..Len(pending')
        BY <1>1, <2>3
      <4> QED BY <1>5, <4>1 DEF ScansText
    <3>2. Owed' = 0
      BY <2>3, <3>1 DEF Owed
    <3>3. Offer'
      BY <1>1, <1>5, <2>1, <2>3 DEF ScansText, Offer, Home
    <3> QED BY <1>1, <1>5, <3>2, <3>3 DEF ScansText
  <2> QED BY <2>2, <2>3
<1>6. CASE ScansDelim
  <2>1. /\ Len(pending') = 1 /\ pending' # <<>> /\ ParenDepth' = ParenDepth /\ isText
        /\ pending'[1].typ \in {"URI", "LeftDelim", "RightDelim"}
    BY <1>6 DEF ScansDelim
  <2>2. Owed' = 0
    BY <2>1 DEF Owed
  <2>3. Offer'
    BY <1>1, <1>2, <1>6, <2>1 DEF ScansDelim, Offer, Within
  <2> QED BY <1>1, <2>1, <2>2, <2>3
<1>7. CASE ScansError
  <2>1. pending' # <<>>
    BY <1>7 DEF ScansError
  <2>2. Owed' = 0 /\ Offer'
    BY <1>7, <2>1 DEF ScansError, Owed, Offer
  <2> QED BY <1>1, <1>7, <2>2 DEF ScansError
<1>8. CASE ScansAttribute
  <2>1. source.name # "LexIfExpr" => source.name = "LexForExpr"
    BY <1>3, <1>8 DEF ScansAttribute, isText
  <2>2. StateFn \in {"LexForExpr", "LoopIdentifier"} => source.name = "LexForExpr"
    BY <1>3, <1>8 DEF Inside, Home, Within, ScansAttribute, isText
  <2>3. CASE pending' = <<>>
    <3>1. Owed' = 0 /\ ParenDepth' = ParenDepth
      BY <1>8, <2>3 DEF Owed, ScansAttribute
    <3>2. Offer'
      BY <1>1, <1>2, <1>8, <2>3 DEF ScansAttribute, Offer, Within
    <3> QED BY <1>1, <3>1, <3>2
  <2>4. CASE pending' # <<>>
    <3>1. /\ Len(pending') = 1 /\ ParenDepth' = ParenDepth
          /\ <<StateFn, pending'[1].typ, StateFn'>> \in
                {<<"LexIfExpr", "EOF", "ended">>, <<"LexForExpr", "EOF", "ended">>,
                 <<"LexForExpr", "In", "InsideAction">>, <<"LexForExpr", "Space", "LexForExpr">>,
                 <<"LoopIdentifier", "Identifier", "LexForExpr">>}
      BY <1>8, <2>4 DEF ScansAttribute
    <3>2. Owed' = 0
      BY <2>4, <3>1 DEF Owed
    <3>3. ~isText' /\ source'.name = source.name
      BY <1>1, <1>8 DEF ScansAttribute
    <3>4. Offer'
      BY <2>2, <2>4, <3>1, <3>3 DEF Offer
    <3> QED BY <1>1, <3>1, <3>2, <3>4
  <2> QED BY <2>3, <2>4
<1>9. CASE ScansQuietly
  <2>1. Owed' = 0 /\ ParenDepth' = ParenDepth /\ pending' = <<>> /\ frames # <<>>
    BY <1>2, <1>9 DEF Owed, ScansQuietly
  <2>2. StateFn' = "RightDelim" => Len(frames) = 1
    BY <1>1, <1>3, <1>4, <1>9, <2>1 DEF ScansQuietly, Depth, Within
  <2>3. Offer'
    BY <1>1, <1>3, <1>9, <2>1, <2>2 DEF ScansQuietly, Offer, Within, isText
  <2> QED BY <1>1, <2>1, <2>3
<1>10. CASE ScansInner
  <2>1. pending' # <<>> /\ frames # <<>>
    <3>1. StateFn \in Within /\ Len(pending') = 1
      BY <1>10 DEF ScansInner
    <3> QED BY <1>2, <3>1
  <2>2. Owed' = Delta(pending'[1].typ)
    BY <2>1 DEF Owed, Delta
  <2>3. Offer'
    BY <1>1, <1>10, <2>1 DEF ScansInner, Offer
  <2> QED BY <1>1, <1>10, <2>2, <2>3 DEF ScansInner
<1>11. CASE ScansString
  <2>1. pending' # <<>> /\ frames # <<>>
    BY <1>2, <1>11 DEF ScansString, Within
  <2>2. Owed' = 0
    BY <1>11, <2>1 DEF Owed, ScansString
  <2>3. Offer'
    BY <1>1, <1>11, <2>1 DEF ScansString, Offer
  <2> QED BY <1>1, <1>11, <2>2, <2>3 DEF ScansString
<1> QED BY <1>5, <1>6, <1>7, <1>8, <1>9, <1>10, <1>11 DEF Scans

\* The counts of a text after a step of the scanner.
LEMMA ScanFollows ==
    ASSUME Inside, Inside', Stack, Scans, StateFn # "ended", parser = "run", Follows,
           UNCHANGED parseVars
    PROVE  Follows'
<1> DEFINE l == Count("LeftDelim")
           r == Count("RightDelim")
<1>1. /\ pending = <<>> /\ isText' = isText /\ frames' = frames /\ Exprs' = Exprs
      /\ ~atError /\ ~atLeftDelim
    BY DEF Scans, parseVars, isText, Exprs, atError, atLeftDelim
<1>2. /\ l \in Nat /\ r \in Nat
      /\ l' = l + (IF Len(pending') = 1 /\ pending'[1].typ = "LeftDelim" THEN 1 ELSE 0)
      /\ r' = r + (IF Len(pending') = 1 /\ pending'[1].typ = "RightDelim" THEN 1 ELSE 0)
    BY ScanCounts DEF Counting
<1>3. isText => /\ l = r + (IF inAction THEN 1 ELSE 0)
                /\ l = Exprs + (IF frames # <<>> THEN 1 ELSE 0)
    BY <1>1 DEF Follows, inAction
<1>4. Exprs \in Nat
  <2>1. nodes \in Seq(Nodes) /\ "expr" \in Nodes
    BY DEF Stack, Nodes
  <2> QED BY <2>1, ExprsOf DEF Exprs
<1> HIDE DEF l, r
<1>5. Offer' /\ ParenDepth' = Depth' + Owed'
    BY ScanOffers
<1>6. ASSUME isText
      PROVE  /\ ~atError' => l' = r' + (IF inAction' THEN 1 ELSE 0)
             /\ l' = Exprs + (IF frames # <<>> \/ atLeftDelim' THEN 1 ELSE 0)
  <2>1. /\ isText => (frames # <<>> <=> inAction)
    BY <1>1 DEF Follows, Offer, inAction
  <2>2. CASE ScansDelim
    <3>1. pending' # <<>> /\ Len(pending') = 1
      BY <2>2 DEF ScansDelim
    <3>2. CASE StateFn = "LexURI"
      BY <1>2, <1>3, <1>4, <1>6, <2>1, <2>2, <3>2 DEF ScansDelim, inAction, Within, atLeftDelim
    <3>3. CASE StateFn = "LeftDelim"
      BY <1>2, <1>3, <1>4, <1>6, <2>1, <2>2, <3>1, <3>3 DEF ScansDelim, inAction, Within, atLeftDelim
    <3>4. CASE StateFn = "RightDelim"
      BY <1>2, <1>3, <1>4, <1>6, <2>1, <2>2, <3>4 DEF ScansDelim, inAction, Within, atLeftDelim
    <3> QED BY <2>2, <3>2, <3>3, <3>4 DEF ScansDelim
  <2>3. CASE ~ScansDelim
    <3>1. /\ Len(pending') = 1 => pending'[1].typ \notin {"LeftDelim", "RightDelim"}
          /\ ~atLeftDelim'
      <4>1. CASE ScansText
        <5>1. \A i \in 1..Len(pending') : pending'[i].typ \in {"EOF", "Text"}
          BY <4>1 DEF ScansText
        <5>2. pending' \in Seq(Item)
          BY DEF Inside
        <5>3. pending' # <<>> => 1 \in 1..Len(pending')
          BY <5>2
        <5> QED BY <5>1, <5>3 DEF atLeftDelim
      <4>2. CASE ~ScansText
        BY <1>6, <2>3, <4>2 DEF Scans, ScansError, ScansAttribute, ScansQuietly, ScansInner,
           ScansString, Inner, atLeftDelim
      <4> QED BY <4>1, <4>2
    <3>2. l' = l /\ r' = r
      BY <1>2, <3>1
    <3>3. CASE ScansError
      BY <1>3, <1>6, <2>1, <3>1, <3>2, <3>3 DEF ScansError, atError
    <3>4. CASE ~ScansError
      <4>1. inAction' = inAction
        BY <1>6, <2>3, <3>4 DEF Scans, ScansText, ScansAttribute, ScansQuietly, ScansInner,
           ScansString, inAction, Within, Home
      <4> QED BY <1>3, <1>6, <2>1, <3>1, <3>2, <4>1
    <3> QED BY <3>3, <3>4
  <2> QED BY <2>2, <2>3
<1> QED BY <1>1, <1>5, <1>6 DEF Follows, inAction, l, r

\* The items that remain after the first.
LEMMA TailOf ==
    ASSUME NEW s \in Seq(Item), s # <<>>
    PROVE  /\ Len(s) \in Nat /\ Len(s) > 0 /\ Tail(s) \in Seq(Item) /\ Len(Tail(s)) = Len(s) - 1
           /\ \A i \in 1..Len(s) - 1 : Tail(s)[i] = s[i + 1]
           /\ Tail(s) = <<>> <=> Len(s) = 1
<1> DEFINE t == Tail(s)
<1>1. Len(s) \in Nat /\ Len(s) > 0 /\ t \in Seq(Item) /\ Len(t) = Len(s) - 1
    BY SMT
<1>2. \A i \in 1..Len(s) - 1 : t[i] = s[i + 1]
    BY <1>1, SMTT(30)
<1> HIDE DEF t
<1>3. t = <<>> <=> Len(t) = 0
    BY <1>1, SMTT(30)
<1> QED BY <1>1, <1>2, <1>3 DEF t

\* What is on offer after a step of the parser that does not end it.
LEMMA ParseOffers ==
    ASSUME Inside, Stack, Stack', Parses, Follows, parser' = "run"
    PROVE  Offer' /\ ParenDepth' = Depth' + Owed'
<1>1. /\ parser = "run" /\ pending # <<>> /\ pending' = Tail(pending)
      /\ source' = source /\ StateFn' = StateFn /\ ParenDepth' = ParenDepth
      /\ isText' = isText /\ ParenDepth \in Int
    BY DEF Parses, isText, Inside
<1>2. /\ Len(pending) \in Nat /\ Len(pending) > 0 /\ Len(pending') = Len(pending) - 1
      /\ \A i \in 1..Len(pending) - 1 : pending'[i] = pending[i + 1]
      /\ pending' = <<>> <=> Len(pending) = 1
    BY <1>1, TailOf DEF Inside
<1>3. /\ Len(frames) \in Nat /\ (frames = <<>> <=> Len(frames) = 0)
      /\ Len(frames') \in Nat /\ (frames' = <<>> <=> Len(frames') = 0)
    BY DEF Stack
<1>4. \/ /\ isText /\ frames = <<>>
         /\ StateFn \in Home("LexTextNode") \cup {"ended"}
         /\ \A i \in 1..Len(pending) :
               pending[i].typ = IF StateFn = "ended" /\ i = Len(pending) THEN "EOF" ELSE "Text"
      \/ /\ Len(pending) = 1 /\ isText /\ frames = <<>>
         /\ head = "URI" /\ StateFn = "LexTextNode"
      \/ /\ Len(pending) = 1 /\ isText /\ frames = <<>>
         /\ head = "LeftDelim" /\ StateFn = "InsideAction"
      \/ /\ Len(pending) = 1 /\ isText /\ Len(frames) = 1
         /\ head = "RightDelim" /\ StateFn = "LexTextNode"
      \/ /\ Len(pending) = 1 /\ head = "Error" /\ StateFn = "ended"
      \/ /\ Len(pending) = 1 /\ ~isText /\ head = "EOF" /\ StateFn = "ended"
      \/ /\ Len(pending) = 1 /\ source.name = "LexForExpr"
         /\ head \in {"Identifier", "Space"} /\ StateFn = "LexForExpr"
      \/ /\ Len(pending) = 1 /\ source.name = "LexForExpr"
         /\ head = "In" /\ StateFn = "InsideAction"
      \/ /\ Len(pending) = 1 /\ frames # <<>> /\ head \in Inner /\ StateFn \in Within
      \/ /\ Len(pending) = 2 /\ frames # <<>> /\ StateFn = "InsideAction"
         /\ head = "String" /\ pending[2].typ = "CloseQuote"
    BY <1>1 DEF Follows, Offer, head
<1>5. ParenDepth = Depth + Delta(head)
    BY <1>1 DEF Follows, Owed, Delta, head
<1>6. Stays \/ Opens \/ Begins \/ Closes \/ Finishes
    BY DEF Parses, Stops, Accepts
<1>7. ParenDepth' = Depth'
  <2>1. CASE Stays
    <3>1. Delta(head) = 0
      BY <2>1 DEF Stays, Delta
    <3>2. Depth' = Depth /\ Depth \in Int
      BY <1>3, <2>1 DEF Stays, Depth
    <3> QED BY <1>1, <1>5, <3>1, <3>2
  <2>2. CASE Opens
    BY <1>1, <1>3, <1>5, <2>2 DEF Opens, Depth, Delta
  <2>3. CASE Begins
    BY <1>1, <1>3, <1>5, <2>3 DEF Begins, Depth, Delta
  <2>4. CASE Closes
    BY <1>1, <1>3, <1>5, <2>4 DEF Closes, Depth, Delta
  <2>5. CASE Finishes
    BY <1>1, <1>3, <1>5, <2>5 DEF Finishes, Depth, Delta
  <2> QED BY <1>6, <2>1, <2>2, <2>3, <2>4, <2>5
<1>8. Depth' \in Int
    BY <1>3 DEF Depth
<1>9. ASSUME Owed' = 0 PROVE ParenDepth' = Depth' + Owed'
  <2>1. \A n \in Int : n + 0 = n
    OBVIOUS
  <2>2. Depth' + 0 = Depth'
    BY <1>8, <2>1
  <2> QED BY <1>7, <1>9, <2>2, Zenon
<1>10. CASE Len(pending) = 1
  <2>1. pending' = <<>> /\ Owed' = 0
    BY <1>2, <1>10 DEF Owed
  <2>2. head = "In" => frames' # <<>>
    BY <1>3, <1>6 DEF Stays, Opens, Begins, Closes, Finishes
  <2>3. head \in Inner => (frames # <<>> <=> frames' # <<>>)
    BY <1>3, <1>6 DEF Stays, Opens, Begins, Closes, Finishes, Inner
  <2>4. head = "LeftDelim" => frames' # <<>>
    BY <1>3, <1>6 DEF Stays, Opens, Begins, Closes, Finishes
  <2>5. head = "RightDelim" => frames' = <<>>
    BY <1>6 DEF Stays, Opens, Begins, Closes, Finishes
  <2>6. head \notin {"Error", "EOF"}
    BY <1>6 DEF Stays, Opens, Begins, Closes, Finishes
  <2>7. head \in {"Text", "URI"} => (frames # <<>> <=> frames' # <<>>)
    <3>1. head = "In" \/ isText \/ ~Begins
      BY DEF Begins
    <3> QED BY <1>3, <1>6 DEF Stays, Opens, Begins, Closes, Finishes
  <2>8. /\ StateFn # "ended"
        /\ StateFn \in Within \cup {"RightDelim"} => frames' # <<>>
        /\ isText /\ frames' # <<>> => StateFn \in Within \cup {"RightDelim"}
        /\ StateFn = "LexIfExpr" => frames' # <<>>
        /\ StateFn = "RightDelim" => Len(frames') = 1
    <3>1. CASE /\ isText /\ frames = <<>>
               /\ StateFn \in Home("LexTextNode") \cup {"ended"}
               /\ head = IF StateFn = "ended" THEN "EOF" ELSE "Text"
      BY <2>6, <2>7, <3>1 DEF Home, Within
    <3>2. CASE /\ isText /\ frames = <<>> /\ head = "URI" /\ StateFn = "LexTextNode"
      BY <2>7, <3>2 DEF Within
    <3>3. CASE isText /\ frames = <<>> /\ head = "LeftDelim" /\ StateFn = "InsideAction"
      BY <2>4, <3>3 DEF Within
    <3>4. CASE isText /\ head = "RightDelim" /\ StateFn = "LexTextNode"
      BY <2>5, <3>4 DEF Within
    <3>5. CASE head \in {"Error", "EOF"}
      BY <2>6, <3>5
    <3>6. CASE source.name = "LexForExpr" /\ StateFn = "LexForExpr"
      BY <3>6 DEF Within, isText
    <3>7. CASE source.name = "LexForExpr" /\ head = "In" /\ StateFn = "InsideAction"
      BY <2>2, <3>7 DEF Within, isText
    <3>8. CASE frames # <<>> /\ head \in Inner /\ StateFn \in Within
      BY <2>3, <3>8 DEF Within
    <3>9. (\A i \in 1..Len(pending) :
              pending[i].typ = IF StateFn = "ended" /\ i = Len(pending) THEN "EOF" ELSE "Text")
            => head = IF StateFn = "ended" THEN "EOF" ELSE "Text"
      BY <1>10 DEF head
    <3> QED BY <1>4, <1>10, <3>1, <3>2, <3>3, <3>4, <3>5, <3>6, <3>7, <3>8, <3>9
  <2>9. Offer'
    BY <1>1, <2>1, <2>8 DEF Offer
  <2> QED BY <1>9, <2>1, <2>9
<1>11. CASE Len(pending) # 1
  <2>1. pending' # <<>> /\ 1 \in 1..Len(pending) - 1 /\ 1 \in 1..Len(pending)
    BY <1>2, <1>11
  <2>2. CASE /\ isText /\ frames = <<>>
             /\ StateFn \in Home("LexTextNode") \cup {"ended"}
             /\ \A i \in 1..Len(pending) :
                   pending[i].typ = IF StateFn = "ended" /\ i = Len(pending) THEN "EOF" ELSE "Text"
    <3>1. head = "Text"
      BY <1>11, <2>1, <2>2 DEF head
    <3>2. frames' = <<>>
      <4>1. ~Opens /\ ~Begins /\ ~Closes /\ ~Finishes
        BY <2>2, <3>1 DEF Opens, Begins, Closes, Finishes
      <4>2. Len(frames') = Len(frames)
        BY <1>6, <4>1 DEF Stays
      <4> QED BY <1>3, <2>2, <4>2
    <3>3. ASSUME NEW i \in 1..Len(pending')
          PROVE  pending'[i].typ = IF StateFn' = "ended" /\ i = Len(pending') THEN "EOF" ELSE "Text"
      <4>1. i + 1 \in 1..Len(pending) /\ i \in 1..Len(pending) - 1 /\ (i + 1 = Len(pending) <=> i = Len(pending'))
        BY <1>2
      <4> QED BY <1>1, <1>2, <2>2, <4>1, Zenon
    <3>4. Offer'
      BY <1>1, <2>1, <2>2, <3>2, <3>3 DEF Offer
    <3>5. pending'[1].typ \in {"EOF", "Text"}
      BY <1>2, <2>1, <3>3
    <3>6. Owed' = 0
      BY <2>1, <3>5 DEF Owed
    <3> QED BY <1>9, <3>4, <3>6
  <2>3. CASE /\ Len(pending) = 2 /\ frames # <<>> /\ StateFn = "InsideAction"
             /\ head = "String" /\ pending[2].typ = "CloseQuote"
    <3>1. Len(pending') = 1 /\ pending'[1].typ = "CloseQuote"
      BY <1>2, <2>1, <2>3
    <3>2. frames' # <<>>
      BY <1>3, <1>6, <2>3 DEF Stays, Opens, Begins, Closes, Finishes
    <3>3. Owed' = 0
      BY <2>1, <3>1 DEF Owed
    <3>4. Offer'
      BY <1>1, <2>1, <2>3, <3>1, <3>2 DEF Offer, Inner, Within
    <3> QED BY <1>9, <3>3, <3>4
  <2> QED BY <1>4, <1>11, <2>2, <2>3
<1> QED BY <1>10, <1>11

\* What is on offer behind the first item.
LEMMA Behind ==
    ASSUME Inside, Offer, pending # <<>>, pending' = Tail(pending)
    PROVE  pending' = <<>> \/ pending'[1].typ \in {"Text", "EOF", "CloseQuote"}
<1>1. /\ Len(pending) \in Nat /\ Len(pending) > 0
      /\ \A i \in 1..Len(pending) - 1 : pending'[i] = pending[i + 1]
      /\ pending' = <<>> <=> Len(pending) = 1
    BY TailOf DEF Inside
<1>2. CASE Len(pending) = 1
    BY <1>1, <1>2
<1>3. CASE Len(pending) # 1
  <2>1. 2 \in 1..Len(pending) /\ 1 \in 1..Len(pending) - 1 /\ 1 + 1 = 2
    <3> DEFINE n == Len(pending)
    <3>1. n \in Nat /\ n > 0 /\ n # 1
      BY <1>1, <1>3
    <3> HIDE DEF n
    <3>2. 2 \in 1..n /\ 1 \in 1..n - 1 /\ 1 + 1 = 2
      BY <3>1
    <3> QED BY <3>2 DEF n
  <2>2. pending[2].typ \in {"Text", "EOF", "CloseQuote"}
    <3>1. (\A i \in 1..Len(pending) :
              pending[i].typ = IF StateFn = "ended" /\ i = Len(pending) THEN "EOF" ELSE "Text")
            => pending[2].typ \in {"Text", "EOF"}
      BY <2>1
    <3> QED BY <1>3, <3>1 DEF Offer
  <2>3. pending'[1] = pending[2]
    BY <1>1, <2>1
  <2> QED BY <2>2, <2>3
<1> QED BY <1>2, <1>3

\* The counts of a text after a step of the parser that does not end it.
LEMMA ParseFollows ==
    ASSUME Inside, Stack, Stack', Parses, Follows
    PROVE  Follows'
<1> SUFFICES ASSUME parser' = "run" PROVE Follows'
    BY DEF Follows
<1> DEFINE l == Count("LeftDelim")
           r == Count("RightDelim")
<1>1. /\ parser = "run" /\ pending # <<>> /\ pending' = Tail(pending) /\ StateFn' = StateFn
      /\ isText' = isText /\ inAction' = inAction
    BY DEF Parses, isText, inAction
<1>2. l' = l /\ r' = r
    BY DEF Parses, Count
<1>3. /\ Len(frames) \in Nat /\ (frames = <<>> <=> Len(frames) = 0)
      /\ Len(frames') \in Nat /\ (frames' = <<>> <=> Len(frames') = 0)
    BY DEF Stack
<1>4. Exprs \in Nat
  <2>1. nodes \in Seq(Nodes) /\ "expr" \in Nodes
    BY DEF Stack, Nodes
  <2> QED BY <2>1, ExprsOf DEF Exprs
<1>5. Stays \/ Opens \/ Begins \/ Closes \/ Finishes
    BY DEF Parses, Stops, Accepts
<1>6. Offer' /\ ParenDepth' = Depth' + Owed'
    BY ParseOffers
<1>7. isText /\ head # "Error" => l = r + (IF inAction THEN 1 ELSE 0)
    BY <1>1 DEF Follows, inAction, atError, head
<1>8. isText => l = Exprs + (IF frames # <<>> \/ head = "LeftDelim" THEN 1 ELSE 0)
    BY <1>1 DEF Follows, atLeftDelim, head
<1> HIDE DEF l, r
<1>9. head # "Error"
    BY <1>5 DEF Stays, Opens, Begins, Closes, Finishes
<1>10. ~atLeftDelim'
    BY <1>1, Behind DEF Follows, atLeftDelim
<1>11. isText => l = Exprs' + (IF frames' # <<>> THEN 1 ELSE 0)
  <2>1. CASE Stays
    BY <1>3, <1>8, <2>1 DEF Stays
  <2>2. CASE Opens
    BY <1>3, <1>8, <2>2 DEF Opens
  <2>3. CASE Begins
    BY <1>3, <1>8, <2>3 DEF Begins
  <2>4. CASE Closes
    BY <1>3, <1>8, <2>4 DEF Closes
  <2>5. CASE Finishes
    BY <1>3, <1>4, <1>8, <2>5 DEF Finishes
  <2> QED BY <1>5, <2>1, <2>2, <2>3, <2>4, <2>5
<1> QED BY <1>1, <1>2, <1>6, <1>7, <1>9, <1>10, <1>11 DEF Follows, inAction, l, r

\* The step that accepts.
LEMMA ParseAccepts ==
    ASSUME Inside, Stack, Counted, Follows, Parses
    PROVE  AcceptedBalanced' /\ NoLeakOnSuccess'
<1> SUFFICES ASSUME parser' = "ok" PROVE AcceptedBalanced' /\ NoLeakOnSuccess'
    BY DEF AcceptedBalanced, NoLeakOnSuccess
<1>1. /\ parser = "run" /\ pending # <<>> /\ pending' = Tail(pending) /\ StateFn' = StateFn
      /\ source' = source /\ emitted' = emitted /\ Accepts
    BY DEF Parses, Stops, Stays, Opens, Begins, Closes, Finishes
<1>2. /\ Len(pending) \in Nat /\ Len(pending) > 0 /\ (pending' = <<>> <=> Len(pending) = 1)
    BY <1>1, TailOf DEF Inside
<1>3. head = "EOF" /\ Exprs' = Exprs
    BY <1>1 DEF Accepts
<1>4. Offer /\ ParenDepth = Depth + Owed
    BY <1>1 DEF Follows
<1>5. StateFn = "ended" /\ Len(pending) = 1
  <2>1. CASE /\ isText /\ frames = <<>>
             /\ \A i \in 1..Len(pending) :
                   pending[i].typ = IF StateFn = "ended" /\ i = Len(pending) THEN "EOF" ELSE "Text"
    <3>1. 1 \in 1..Len(pending)
      BY <1>2
    <3> QED BY <1>3, <2>1, <3>1 DEF head
  <2> QED BY <1>1, <1>3, <1>4, <2>1 DEF Offer, head, Inner
<1>6. NoLeakOnSuccess'
    BY <1>1, <1>2, <1>5 DEF NoLeakOnSuccess
<1>7. AcceptedBalanced'
  <2> SUFFICES ASSUME isText PROVE AcceptedBalanced'
    BY <1>1 DEF AcceptedBalanced, isText
  <2>1. frames = <<>>
    BY <1>1 DEF Accepts
  <2>2. Owed = 0 /\ Depth = 0 /\ ~atError /\ ~atLeftDelim
    BY <1>1, <1>3, <2>1 DEF Owed, Depth, atError, atLeftDelim, head
  <2>3. ParenDepth = 0
    BY <1>4, <2>2
  <2>4. Exprs \in Nat
    <3>1. nodes \in Seq(Nodes) /\ "expr" \in Nodes
      BY DEF Stack, Nodes
    <3> QED BY <3>1, ExprsOf DEF Exprs
  <2>5. CountOf(emitted, "RightParen") \in Nat /\ CountOf(emitted, "RightDelim") \in Nat
    <3>1. emitted \in Seq(Item) /\ <<>> \in Seq(Item)
      BY DEF Inside
    <3>2. \A t : \A i \in 1..Len(<<>>) : <<>>[i].typ # t
      OBVIOUS
    <3> QED BY <3>1, <3>2, CountNone
  <2>6. Count("RightParen") \in Nat /\ Count("RightDelim") \in Nat
    BY <2>5 DEF Count, CountOf
  <2>7. Count("LeftParen") = Count("RightParen")
    BY <2>3, <2>6 DEF Counted
  <2>8. Count("LeftDelim") = Count("RightDelim")
    BY <1>1, <1>5, <2>2, <2>6 DEF Follows, Within
  <2>9. Count("LeftDelim") = Exprs
    BY <1>1, <2>1, <2>2, <2>4 DEF Follows
  <2>10. Count("LeftParen")' = Count("RightParen")' /\ Count("LeftDelim")' = Count("RightDelim")'
    BY <1>1, <2>7, <2>8 DEF Count
  <2>11. Count("LeftDelim")' = Exprs'
    BY <1>1, <1>3, <2>9 DEF Count
  <2> QED BY <2>10, <2>11 DEF AcceptedBalanced, Exprs
<1> QED BY <1>6, <1>7

\* A scanner that has ended does not go on.
LEMMA RunGoesOn == Run => StateFn # "ended"
<1>1. LexTextNode \/ LexURI \/ LeftDelim \/ RightDelim \/ InsideAction => StateFn # "ended"
    BY DEF LexTextNode, LexURI, LeftDelim, RightDelim, InsideAction, Runs
<1>2. Space \/ EspraURI \/ Identifier \/ Number \/ String => StateFn # "ended"
    BY DEF Space, EspraURI, Identifier, Number, String, Runs
<1>3. LexIfExpr \/ LexForExpr \/ LoopIdentifier => StateFn # "ended"
    BY DEF LexIfExpr, LexForExpr, LoopIdentifier, Runs
<1> QED BY <1>1, <1>2, <1>3 DEF Run

----------------------------------------------------------------------------
(* The theorems.                                                           *)

\* The invariant holds of every text before a step is taken.
LEMMA InitHolds == Init => IInv
<1> SUFFICES ASSUME Init PROVE IInv
    OBVIOUS
<1>1. /\ source \in Sources /\ StateFn = source.name /\ Pos = 0 /\ Start = 0 /\ ParenDepth = 0
      /\ pending = <<>> /\ emitted = <<>> /\ parser = "run" /\ nodes = <<>>
      /\ frames = IF source.name = "LexIfExpr" THEN <<NewFrame("EOF", FALSE, 0)>> ELSE <<>>
    BY DEF Init, LexInit
<1>2. source.name \in {"LexTextNode", "LexIfExpr", "LexForExpr"} /\ Len(input) \in Nat
    BY <1>1, SourcesAssumption DEF Source, input
<1>3. Inside
  <2>1. StateFn \in Home(source.name) /\ StateFn \notin {"LeftDelim", "RightDelim"}
    BY <1>1, <1>2 DEF Home
  <2>2. <<>> \in Seq(Item)
    OBVIOUS
  <2> QED BY <1>1, <1>2, <2>1, <2>2 DEF Inside
<1>4. frames \in Seq(Frame) /\ Len(frames) = (IF source.name = "LexIfExpr" THEN 1 ELSE 0) /\
      (frames # <<>> => frames[1].end = "EOF")
  <2> DEFINE f == NewFrame("EOF", FALSE, 0)
  <2>1. f \in Frame /\ f.end = "EOF"
    <3>1. FALSE \in BOOLEAN /\ 0 \in Int
      OBVIOUS
    <3> QED BY <3>1, FrameNew
  <2> HIDE DEF f
  <2>2. <<f>> \in Seq(Frame) /\ Len(<<f>>) = 1 /\ <<f>>[1] = f /\ <<>> \in Seq(Frame) /\ Len(<<>>) = 0
    BY <2>1
  <2>3. CASE source.name = "LexIfExpr"
    <3>1. frames = <<f>>
      BY <1>1, <2>3 DEF f
    <3> QED BY <2>1, <2>2, <2>3, <3>1
  <2>4. CASE source.name # "LexIfExpr"
    BY <1>1, <2>2, <2>4
  <2> QED BY <2>3, <2>4
<1>5. Stack
  <2>1. \A i \in 1..Len(frames) : i = 1 /\ frames[i].end = "EOF" /\ ~isText
    <3>1. CASE source.name = "LexIfExpr"
      BY <1>4, <3>1 DEF isText
    <3>2. CASE source.name # "LexIfExpr"
      BY <1>4, <3>2
    <3> QED BY <3>1, <3>2
  <2>2. <<>> \in Seq(Nodes)
    OBVIOUS
  <2>3. \A i \in 1..Len(frames) :
            frames[i].end = IF i > 1 THEN "RightParen" ELSE IF isText THEN "RightDelim" ELSE "EOF"
    BY <2>1
  <2>4. parser = "run" /\ nodes \in Seq(Nodes)
    BY <1>1, <2>2
  <2> QED BY <1>4, <2>3, <2>4 DEF Stack
<1>6. \A t : CountOf(emitted, t) = 0
  <2>1. \A t : {i \in 1..Len(emitted) : emitted[i].typ = t} = {}
    BY <1>1
  <2> QED BY <2>1, FS_EmptySet DEF CountOf
<1>7. \A t : Count(t) = 0
    BY <1>6 DEF Count, CountOf
<1>8. Counted
    BY <1>1, <1>7 DEF Counted
<1>9. Follows
  <2>1. Offer
    BY <1>1, <1>2, <1>4 DEF Offer, Within, isText
  <2>2. Depth = 0 /\ Owed = 0
    BY <1>1, <1>4 DEF Depth, Owed
  <2>3. Exprs = 0
    <3>1. {i \in 1..Len(nodes) : nodes[i] = "expr"} = {}
      BY <1>1
    <3> QED BY <3>1, FS_EmptySet DEF Exprs
  <2>4. isText => frames = <<>> /\ ~atLeftDelim /\ StateFn \notin Within \cup {"RightDelim"}
    BY <1>1 DEF isText, atLeftDelim, Within
  <2> QED BY <1>1, <1>7, <2>1, <2>2, <2>3, <2>4 DEF Follows
<1>10. AcceptedBalanced /\ NoLeakOnSuccess
    BY <1>1 DEF AcceptedBalanced, NoLeakOnSuccess
<1> QED BY <1>3, <1>5, <1>8, <1>9, <1>10 DEF IInv

\* Every step of the scanner and of the parser keeps the invariant.
LEMMA StepHolds == IInv /\ [NextStep]_vars => IInv'
<1> SUFFICES ASSUME IInv, [NextStep]_vars PROVE IInv'
    OBVIOUS
<1>1. Inside /\ Stack /\ Counted /\ Follows /\ AcceptedBalanced /\ NoLeakOnSuccess
    BY DEF IInv
<1>2. CASE Run /\ UNCHANGED parseVars
  <2>1. Inside' /\ Scans /\ StateFn # "ended"
    BY <1>1, <1>2, RunScans, RunGoesOn
  <2>2. /\ parser' = parser /\ frames' = frames /\ nodes' = nodes /\ isText' = isText
        /\ parser # "ok"
    BY <1>1, <1>2, <2>1 DEF parseVars, Scans, isText, NoLeakOnSuccess
  <2>3. Stack'
    BY <1>1, <2>2 DEF Stack
  <2>4. Counted'
    BY <1>1, <2>1, ScanCounted
  <2>5. Follows'
    <3>1. CASE parser = "run"
      BY <1>1, <1>2, <2>1, <3>1, ScanFollows
    <3>2. CASE parser # "run"
      BY <2>2, <3>2 DEF Follows
    <3> QED BY <3>1, <3>2
  <2>6. AcceptedBalanced' /\ NoLeakOnSuccess'
    BY <2>2 DEF AcceptedBalanced, NoLeakOnSuccess
  <2> QED BY <2>1, <2>3, <2>4, <2>5, <2>6 DEF IInv
<1>3. CASE Parse
  <2>1. Stack' /\ Parses
    BY <1>1, <1>3, ParseParses
  <2>2. /\ source' = source /\ StateFn' = StateFn /\ Pos' = Pos /\ Start' = Start
        /\ ParenDepth' = ParenDepth /\ emitted' = emitted /\ pending' = Tail(pending) /\ pending # <<>>
    BY <2>1 DEF Parses
  <2>3. pending' \in Seq(Item)
    BY <1>1, <2>2, TailOf DEF Inside
  <2>4. Inside'
    BY <1>1, <2>2, <2>3 DEF Inside, isText, input
  <2>5. Counted'
    BY <1>1, <2>2 DEF Counted, Count
  <2>6. Follows'
    BY <1>1, <2>1, ParseFollows
  <2>7. AcceptedBalanced' /\ NoLeakOnSuccess'
    BY <1>1, <2>1, ParseAccepts
  <2> QED BY <2>1, <2>4, <2>5, <2>6, <2>7 DEF IInv
<1>4. CASE UNCHANGED vars
  <2>1. UNCHANGED lexVars /\ UNCHANGED parseVars
    BY <1>4 DEF vars
  <2>2. Inside'
    BY <1>1, <2>1 DEF Inside, isText, input, lexVars
  <2>3. Stack'
    BY <1>1, <2>1 DEF Stack, isText, lexVars, parseVars
  <2>4. Counted' /\ AcceptedBalanced' /\ NoLeakOnSuccess'
    BY <1>1, <2>1 DEF Counted, AcceptedBalanced, NoLeakOnSuccess, Count, lexVars, parseVars
  <2>5. Follows'
    BY <1>1, <2>1 DEF Follows, Offer, Depth, Owed, Exprs, atError, atLeftDelim, Count, isText,
       lexVars, parseVars
  <2> QED BY <2>2, <2>3, <2>4, <2>5 DEF IInv
<1> QED BY <1>2, <1>3, <1>4 DEF NextStep

\* The invariant holds in every state of every behaviour.
LEMMA InvariantHolds == Spec => []IInv
BY InitHolds, StepHolds, PTL DEF Spec

\* The scanner never reads beyond its input, and no item begins beyond it: Next
\* and Emit keep Pos and Start between its ends, in every state function and for
\* every input (lex.go:76-108).  Before its beginning, Backup and the slice of
\* Emit can only come by the two panics that LexTextNode has as steps.
THEOREM ScannerStaysInside == Spec => [](Pos \in 0..Len(input) /\ Start \in 0..Len(input))
<1>1. IInv => Pos \in 0..Len(input) /\ Start \in 0..Len(input)
    BY DEF IInv, Inside
<1> QED BY <1>1, InvariantHolds, PTL

\* The depth the scanner counts is the number of parentheses the parser has
\* open whenever nothing is on its way between them: neither the check of
\* InsideAction at the right delimiter nor those of ParseExpr are ever about
\* another parenthesis than the other side's.
THEOREM DepthsAgree == Spec => []DepthAgrees
<1>1. IInv => DepthAgrees
  <2> SUFFICES ASSUME IInv, parser = "run", pending = <<>>
               PROVE  ParenDepth = Cardinality({i \in 1..Len(frames) : frames[i].end = "RightParen"})
    BY DEF DepthAgrees
  <2> DEFINE open == {i \in 1..Len(frames) : frames[i].end = "RightParen"}
             n == Len(frames)
  <2>1. /\ n \in Nat /\ (frames = <<>> <=> n = 0)
        /\ \A i \in 1..n : frames[i].end = "RightParen" <=> i > 1
    BY DEF IInv, Stack
  <2>2. ParenDepth = Depth
    <3>1. Owed = 0 /\ ParenDepth = Depth + Owed
      BY DEF IInv, Follows, Owed
    <3>2. Depth \in Int
      BY <2>1 DEF Depth
    <3> QED BY <3>1, <3>2
  <2>3. open = 2..n
    BY <2>1
  <2>4. Cardinality(2..n) = IF n = 0 THEN 0 ELSE n - 1
    <3> HIDE DEF n
    <3>1. 2 \in Int /\ n \in Int
      BY <2>1
    <3>2. Cardinality(2..n) = IF 2 > n THEN 0 ELSE n - 2 + 1
      BY <3>1, FS_Interval
    <3> QED BY <2>1, <3>2
  <2> QED BY <2>1, <2>2, <2>3, <2>4 DEF Depth
<1> QED BY <1>1, InvariantHolds, PTL

\* A text that is accepted has as many right delimiters as left ones, as many
\* closing parentheses as opening ones, and one expression for each action.
THEOREM AcceptedTextsBalance == Spec => []AcceptedBalanced
<1>1. IInv => AcceptedBalanced
    BY DEF IInv
<1> QED BY <1>1, InvariantHolds, PTL

\* When a parser accepts, the goroutine of its scanner has ended and has
\* nothing left to send: it cannot stay blocked on the channel for ever.
THEOREM ScannersEndWithParsers == Spec => []NoLeakOnSuccess
<1>1. IInv => NoLeakOnSuccess
    BY DEF IInv
<1> QED BY <1>1, InvariantHolds, PTL

----------------------------------------------------------------------------
(* Pipes.  An item keeps its number; a frame has the pipes received since it *)
(* was opened, but for those of the expressions opened after it.             *)

\* The pipes behind number a up to n, outside the expressions of xs opened there.
Free(es, xs, a, n) ==
    {p \in a + 1..n : es[p].typ = "Pipe" /\ \A y \in xs : a < y.from => ~(y.from <= p /\ p <= y.at)}

Descends(s) == \A i, j \in 1..Len(s) : i < j => s[i] > s[j]

\* What is handed on to f, a frame or an expression, is what it should be.
Handed(es, xs, f, n) == Range(f.piped) = Free(es, xs, f.from, n) /\ Descends(f.piped)

\* Where the pipes of frame i of s end, of n items received.
Reach(s, i, n) == IF i < Len(s) THEN s[i + 1].from - 1 ELSE n

\* Frames were opened one after the other, and around no complete expression
\* that was opened before.
Opened(s, xs, n) ==
    \A i \in 1..Len(s) :
        /\ s[i].from \in 0..n
        /\ \A j \in 1..Len(s) : i < j => s[i].from < s[j].from
        /\ \A x \in xs : x.at < s[i].from \/ s[i].from < x.from

Complete == [from : Nat, at : Nat, piped : Seq(Int)]

PipeInv ==
    /\ received \in Nat
    /\ \A k \in 1..Len(pending) : emitted[received + k] = pending[k]
    /\ exprs \subseteq Complete
    /\ \A x \in exprs : x.at <= received /\ Handed(emitted, exprs, x, x.at - 1)
    /\ parser = "run" =>
          /\ Opened(frames, exprs, received)
          /\ \A i \in 1..Len(frames) : Handed(emitted, exprs, frames[i], Reach(frames, i, received))

\* Items that come later are of no account.
LEMMA FreeBefore ==
    ASSUME NEW es, NEW fs, NEW xs, NEW a \in Nat, NEW n \in Int, \A p \in 1..n : fs[p] = es[p]
    PROVE  Free(fs, xs, a, n) = Free(es, xs, a, n)
<1>1. \A p \in a + 1..n : p \in 1..n
    OBVIOUS
<1> QED BY <1>1 DEF Free

\* One item more.
LEMMA FreeGrows ==
    ASSUME NEW es, NEW xs, xs \subseteq Complete, NEW n \in Nat, \A y \in xs : y.at <= n, NEW a \in 0..n
    PROVE  Free(es, xs, a, n + 1) = Free(es, xs, a, n) \cup (IF es[n + 1].typ = "Pipe" THEN {n + 1} ELSE {})
<1>1. a + 1..n + 1 = (a + 1..n) \cup {n + 1}
    OBVIOUS
<1>2. \A y \in xs : ~(n + 1 <= y.at)
    BY DEF Complete
<1> QED BY <1>1, <1>2 DEF Free

\* A complete expression takes the pipes inside it from what is around it, ...
LEMMA FreeAround ==
    ASSUME NEW es, NEW xs, NEW y \in Complete, NEW a \in Nat, a < y.from, y.from <= y.at
    PROVE  Free(es, xs \cup {y}, a, y.at) = Free(es, xs, a, y.from - 1)
<1>1. y.from \in Nat /\ y.at \in Nat
    BY DEF Complete
<1>2. \A p \in Int : p \in a + 1..y.from - 1 <=> p \in a + 1..y.at /\ ~(y.from <= p /\ p <= y.at)
    BY <1>1
<1>3. \A p \in a + 1..y.from - 1 : p \in Int
    BY <1>1
<1>4. \A p \in a + 1..y.at : p \in Int
    BY <1>1
<1> QED BY <1>2, <1>3, <1>4 DEF Free

\* ... none from what ended before it, ...
LEMMA FreeAhead ==
    ASSUME NEW es, NEW xs, NEW y \in Complete, NEW a \in Nat, NEW n \in Int, n < y.from
    PROVE  Free(es, xs \cup {y}, a, n) = Free(es, xs, a, n)
<1>1. y.from \in Nat
    BY DEF Complete
<1>2. \A p \in a + 1..n : ~(y.from <= p)
    BY <1>1
<1> QED BY <1>2 DEF Free

\* ... and none from what was opened after it, or is itself.
LEMMA FreeWithin ==
    ASSUME NEW es, NEW xs, NEW y \in Complete, NEW a \in Nat, NEW n \in Int, y.from <= a
    PROVE  Free(es, xs \cup {y}, a, n) = Free(es, xs, a, n)
<1>1. ~(a < y.from)
    BY DEF Complete
<1> QED BY <1>1 DEF Free

\* One pipe more.
LEMMA PipedNext ==
    ASSUME NEW s \in Seq(Int), NEW n \in Int, \A k \in Range(s) : k < n, Descends(s)
    PROVE  Range(<<n>> \o s) = Range(s) \cup {n} /\ Descends(<<n>> \o s)
<1> DEFINE t == <<n>> \o s
<1>1. /\ Len(s) \in Nat /\ Len(t) = Len(s) + 1 /\ t[1] = n
      /\ \A i \in 1..Len(s) : t[i + 1] = s[i] /\ s[i] \in Int
    OBVIOUS
<1>2. DOMAIN t = 1..Len(t) /\ DOMAIN s = 1..Len(s)
    OBVIOUS
<1> HIDE DEF t
<1>3. \A j \in 1..Len(t) : j = 1 \/ (j - 1 \in 1..Len(s) /\ t[j] = s[j - 1])
    BY <1>1
<1>4. Range(t) = Range(s) \cup {n}
  <2>1. ASSUME NEW j \in 1..Len(t) PROVE t[j] \in Range(s) \cup {n}
    BY <1>1, <1>2, <1>3 DEF Range
  <2>2. ASSUME NEW i \in 1..Len(s) PROVE s[i] \in Range(t)
    <3>1. i + 1 \in 1..Len(t) /\ t[i + 1] = s[i]
      BY <1>1
    <3> QED BY <1>2, <3>1 DEF Range
  <2>3. n \in Range(t)
    <3>1. 1 \in 1..Len(t)
      BY <1>1
    <3> QED BY <1>1, <1>2, <3>1 DEF Range
  <2> QED BY <1>2, <2>1, <2>2, <2>3 DEF Range
<1>5. ASSUME NEW i \in 1..Len(t), NEW j \in 1..Len(t), i < j PROVE t[i] > t[j]
  <2>1. j - 1 \in 1..Len(s) /\ t[j] = s[j - 1] /\ s[j - 1] \in Int /\ s[j - 1] < n
    <3>1. j - 1 \in 1..Len(s) /\ t[j] = s[j - 1]
      BY <1>1, <1>3, <1>5
    <3>2. s[j - 1] \in Range(s) /\ s[j - 1] \in Int
      BY <1>1, <1>2, <3>1 DEF Range
    <3> QED BY <3>1, <3>2
  <2>2. CASE i = 1
    BY <1>1, <2>1, <2>2
  <2>3. CASE i # 1
    <3>1. i - 1 \in 1..Len(s) /\ t[i] = s[i - 1] /\ i - 1 < j - 1
      BY <1>1, <1>3, <1>5, <2>3
    <3>2. s[i - 1] > s[j - 1]
      BY <2>1, <3>1 DEF Descends
    <3> QED BY <2>1, <3>1, <3>2
  <2> QED BY <2>2, <2>3
<1> QED BY <1>4, <1>5 DEF Descends, t

\* The scanner's items are numbered on.
LEMMA PipeScans ==
    ASSUME Inside, Inside', Scans, UNCHANGED parseVars, PipeInv
    PROVE  PipeInv'
<1>1. /\ pending = <<>> /\ emitted' = emitted \o pending'
      /\ parser' = parser /\ frames' = frames /\ exprs' = exprs
    BY DEF Scans, parseVars
<1>2. emitted \in Seq(Item) /\ pending' \in Seq(Item)
    BY DEF Inside
<1>3. /\ received = Len(emitted) /\ received' = received /\ received \in Nat
      /\ \A k \in 1..Len(pending') : emitted'[received' + k] = pending'[k]
      /\ \A p \in 1..received : emitted'[p] = emitted[p]
    BY <1>1, <1>2 DEF received
<1>4. ASSUME NEW f, f.from \in Nat, NEW n \in Int, n <= received, Handed(emitted, exprs, f, n)
      PROVE  Handed(emitted', exprs, f, n)
  <2>1. \A p \in 1..n : emitted'[p] = emitted[p]
    BY <1>3, <1>4
  <2>2. Free(emitted', exprs, f.from, n) = Free(emitted, exprs, f.from, n)
    BY <1>4, <2>1, FreeBefore
  <2> QED BY <1>4, <2>2 DEF Handed
<1>5. ASSUME NEW x \in exprs PROVE x.at <= received /\ Handed(emitted', exprs, x, x.at - 1)
  <2>1. x.from \in Nat /\ x.at - 1 \in Int /\ x.at <= received /\ x.at - 1 <= received
    BY <1>3 DEF PipeInv, Complete
  <2>2. Handed(emitted, exprs, x, x.at - 1)
    BY DEF PipeInv
  <2> QED BY <1>4, <2>1, <2>2
<1>6. ASSUME parser = "run", NEW i \in 1..Len(frames)
      PROVE  Handed(emitted', exprs, frames[i], Reach(frames, i, received))
  <2>1. /\ Opened(frames, exprs, received)
        /\ Handed(emitted, exprs, frames[i], Reach(frames, i, received))
    BY <1>6 DEF PipeInv
  <2>2. frames[i].from \in Nat /\ Reach(frames, i, received) \in Int /\ Reach(frames, i, received) <= received
    <3>1. CASE i < Len(frames)
      <4>1. i + 1 \in 1..Len(frames) /\ i \in 1..Len(frames)
        BY <3>1
      <4>2. frames[i + 1].from \in 0..received /\ frames[i].from \in 0..received
        BY <2>1, <4>1 DEF Opened
      <4> QED BY <1>3, <3>1, <4>2 DEF Reach
    <3>2. CASE ~(i < Len(frames))
      <4>1. frames[i].from \in 0..received
        BY <2>1 DEF Opened
      <4> QED BY <1>3, <3>2, <4>1 DEF Reach
    <3> QED BY <3>1, <3>2
  <2> QED BY <1>4, <2>1, <2>2
<1>7. parser = "run" => Opened(frames, exprs, received)
    BY DEF PipeInv
<1>8. exprs \subseteq Complete
    BY DEF PipeInv
<1> QED BY <1>1, <1>3, <1>5, <1>6, <1>7, <1>8 DEF PipeInv

\* The item received has its number.
LEMMA PipeNumbers ==
    ASSUME Inside, Parses, PipeInv
    PROVE  /\ received \in Nat /\ received' = received + 1 /\ number = received + 1
           /\ emitted' = emitted /\ emitted[received + 1].typ = head
           /\ \A k \in 1..Len(pending') : emitted'[received' + k] = pending'[k]
           /\ exprs \subseteq Complete
           /\ Opened(frames, exprs, received)
           /\ \A x \in exprs : x.at <= received /\ Handed(emitted, exprs, x, x.at - 1)
           /\ \A i \in 1..Len(frames) : Handed(emitted, exprs, frames[i], Reach(frames, i, received))
<1>1. parser = "run" /\ pending # <<>> /\ pending' = Tail(pending) /\ emitted' = emitted
    BY DEF Parses
<1>2. pending \in Seq(Item) /\ emitted \in Seq(Item)
    BY DEF Inside
<1>3. /\ Len(pending) \in Nat /\ Len(pending) > 0 /\ Len(pending') = Len(pending) - 1
      /\ \A k \in 1..Len(pending') : pending'[k] = pending[k + 1]
    BY <1>1, <1>2
<1>4. received \in Nat /\ \A k \in 1..Len(pending) : emitted[received + k] = pending[k]
    BY DEF PipeInv
<1>5. received' = received + 1
    BY <1>1, <1>2, <1>3 DEF received
<1>6. emitted[received + 1].typ = head
  <2>1. 1 \in 1..Len(pending)
    BY <1>3
  <2>2. emitted[received + 1] = pending[1]
    BY <1>4, <2>1
  <2> QED BY <2>2 DEF head
<1>7. ASSUME NEW k \in 1..Len(pending') PROVE emitted'[received' + k] = pending'[k]
  <2>1. k + 1 \in 1..Len(pending) /\ received' + k = received + (k + 1) /\ pending'[k] = pending[k + 1]
    BY <1>3, <1>4, <1>5
  <2> QED BY <1>1, <1>4, <2>1
<1> QED BY <1>1, <1>4, <1>5, <1>6, <1>7 DEF PipeInv, number

\* A parser that ends leaves the expressions it completed.
LEMMA PipeStops ==
    ASSUME Inside, Parses, PipeInv, parser' # "run", exprs' = exprs
    PROVE  PipeInv'
<1>1. \A x \in exprs : x.at <= received'
    BY PipeNumbers DEF Complete
<1>2. \A x \in exprs : Handed(emitted', exprs', x, x.at - 1)
    BY PipeNumbers
<1>3. received' \in Nat
    BY PipeNumbers
<1> QED BY <1>1, <1>2, <1>3, PipeNumbers DEF PipeInv

\* The frames of s but for the last n are those of t, as far as pipes go.
Alike(s, t, n) == \A i \in 1..n : s[i].from = t[i].from /\ s[i].piped = t[i].piped

\* An item that is no pipe, or one that the last frame takes in.
LEMMA PipeStays ==
    ASSUME Inside, Stack, Parses, PipeInv, parser' = "run", exprs' = exprs,
           Len(frames') = Len(frames),
           \/ head # "Pipe" /\ Alike(frames', frames, Len(frames))
           \/ /\ head = "Pipe" /\ frames # <<>> /\ Alike(frames', frames, Len(frames) - 1)
              /\ frames'[Len(frames)].from = frames[Len(frames)].from
              /\ frames'[Len(frames)].piped = <<number>> \o frames[Len(frames)].piped
    PROVE  PipeInv'
<1> DEFINE n == Len(frames)
           r == received
<1>1. /\ r \in Nat /\ received' = r + 1 /\ number = r + 1 /\ emitted' = emitted
      /\ emitted[r + 1].typ = head /\ exprs \subseteq Complete /\ Opened(frames, exprs, r)
    BY PipeNumbers
<1>2. n \in Nat /\ frames \in Seq(Frame) /\ (frames = <<>> <=> n = 0)
    BY DEF Stack
<1> HIDE DEF n, r
<1>3. \A i \in 1..n : frames'[i].from = frames[i].from
  <2>1. CASE Alike(frames', frames, n)
    BY <2>1 DEF Alike
  <2>2. CASE Alike(frames', frames, n - 1) /\ frames'[n].from = frames[n].from
    <3>1. \A i \in 1..n : i \in 1..n - 1 \/ i = n
      BY <1>2
    <3> QED BY <2>2, <3>1 DEF Alike
  <2> QED BY <2>1, <2>2 DEF n
<1>4. Opened(frames', exprs, r + 1)
  <2>1. \A i \in 1..n : frames[i].from \in 0..r + 1
    <3>1. \A i \in 1..n : frames[i].from \in 0..r
      BY <1>1 DEF Opened, n
    <3>2. \A k \in 0..r : k \in 0..r + 1
      BY <1>1
    <3> QED BY <3>1, <3>2
  <2> QED BY <1>1, <1>3, <2>1 DEF Opened, n
<1>5. ASSUME NEW i \in 1..n PROVE Handed(emitted, exprs, frames'[i], Reach(frames', i, r + 1))
  <2>1. Handed(emitted, exprs, frames[i], Reach(frames, i, r)) /\ frames[i].from \in 0..r
    BY <1>1, PipeNumbers DEF Opened, n, r
  <2>2. CASE i < n
    <3>1. i \in 1..n - 1 /\ i + 1 \in 1..n
      BY <1>2, <2>2
    <3>2. frames'[i].piped = frames[i].piped /\ frames'[i].from = frames[i].from
      BY <1>3, <3>1 DEF Alike, n
    <3>3. Reach(frames', i, r + 1) = Reach(frames, i, r)
      BY <1>3, <2>2, <3>1 DEF Reach, n
    <3> QED BY <2>1, <3>2, <3>3 DEF Handed
  <2>3. CASE i = n
    <3>1. Reach(frames', i, r + 1) = r + 1 /\ Reach(frames, i, r) = r
      BY <1>2, <2>3 DEF Reach, n
    <3> DEFINE a == frames[n].from
    <3>2. /\ a \in 0..r /\ Range(frames[n].piped) = Free(emitted, exprs, a, r) /\ Descends(frames[n].piped)
          /\ frames'[n].from = a
      BY <1>3, <2>1, <2>3, <3>1 DEF Handed
    <3>3. Free(emitted, exprs, a, r + 1) =
              Free(emitted, exprs, a, r) \cup (IF head = "Pipe" THEN {r + 1} ELSE {})
      <4>1. \A y \in exprs : y.at <= r
        BY PipeNumbers DEF r
      <4> HIDE DEF a
      <4> QED BY <1>1, <3>2, <4>1, FreeGrows
    <3> HIDE DEF a
    <3>4. CASE head # "Pipe"
      <4>1. frames'[n].piped = frames[n].piped
        BY <2>3, <3>4 DEF Alike, n
      <4> QED BY <2>3, <3>1, <3>2, <3>3, <3>4, <4>1 DEF Handed
    <3>5. CASE head = "Pipe"
      <4>1. frames'[n].piped = <<r + 1>> \o frames[n].piped
        BY <1>1, <3>5 DEF n
      <4>2. frames[n].piped \in Seq(Int)
        <5>1. frames[n] \in Frame
          BY <1>2, <2>3 DEF n
        <5> QED BY <5>1 DEF Frame
      <4>3. \A k \in Range(frames[n].piped) : k < r + 1
        BY <1>1, <3>2 DEF Free
      <4>4. /\ Range(<<r + 1>> \o frames[n].piped) = Range(frames[n].piped) \cup {r + 1}
            /\ Descends(<<r + 1>> \o frames[n].piped)
        <5>1. r + 1 \in Int
          BY <1>1
        <5> QED BY <3>2, <4>2, <4>3, <5>1, PipedNext
      <4> QED BY <2>3, <3>1, <3>2, <3>3, <3>5, <4>1, <4>4 DEF Handed
    <3> QED BY <3>4, <3>5
  <2> QED BY <1>2, <2>2, <2>3
<1>6. \A x \in exprs : x.at <= r + 1 /\ Handed(emitted, exprs, x, x.at - 1)
  <2>1. \A x \in exprs : x.at <= r /\ Handed(emitted, exprs, x, x.at - 1)
    BY PipeNumbers DEF r
  <2>2. \A x \in exprs : x.at \in Nat
    BY <1>1 DEF Complete
  <2> QED BY <1>1, <2>1, <2>2
<1>7. received' \in Nat /\ \A k \in 1..Len(pending') : emitted'[received' + k] = pending'[k]
    BY <1>1, PipeNumbers
<1> QED BY <1>1, <1>4, <1>5, <1>6, <1>7 DEF PipeInv, n

\* A call: no pipe is its own yet.
LEMMA PipeCalls ==
    ASSUME Inside, Stack, Parses, PipeInv, parser' = "run", exprs' = exprs,
           NEW f, frames' = Append(frames, f), f.from = number, f.piped = <<>>
    PROVE  PipeInv'
<1> DEFINE n == Len(frames)
           r == received
<1>1. /\ r \in Nat /\ received' = r + 1 /\ number = r + 1 /\ emitted' = emitted
      /\ exprs \subseteq Complete /\ Opened(frames, exprs, r)
      /\ \A x \in exprs : x.at <= r /\ Handed(emitted, exprs, x, x.at - 1)
      /\ \A i \in 1..n : Handed(emitted, exprs, frames[i], Reach(frames, i, r))
    BY PipeNumbers
<1>2. n \in Nat /\ frames \in Seq(Frame)
    BY DEF Stack
<1>3. Len(frames') = n + 1 /\ frames'[n + 1] = f /\ \A i \in 1..n : frames'[i] = frames[i]
    BY <1>2
<1> HIDE DEF n, r
<1>4. \A i \in 1..n + 1 : i \in 1..n \/ i = n + 1
    BY <1>2
<1>5. \A x \in exprs : x.at \in Nat /\ x.at <= r
    BY <1>1 DEF Complete
<1>6. \A i \in 1..n : frames[i].from \in 0..r
    BY <1>1 DEF Opened, n
<1>7. Opened(frames', exprs, r + 1)
  <2>1. ASSUME NEW i \in 1..n + 1 PROVE frames'[i].from \in 0..r + 1
    <3>1. CASE i \in 1..n
      BY <1>1, <1>3, <1>6, <3>1
    <3>2. CASE i = n + 1
      BY <1>1, <1>3, <3>2
    <3> QED BY <1>4, <3>1, <3>2
  <2>2. ASSUME NEW i \in 1..n + 1, NEW j \in 1..n + 1, i < j PROVE frames'[i].from < frames'[j].from
    <3>1. i \in 1..n
      BY <1>2, <2>2
    <3>2. CASE j \in 1..n
      BY <1>1, <1>3, <2>2, <3>1, <3>2 DEF Opened, n
    <3>3. CASE j = n + 1
      <4>1. frames[i].from \in 0..r /\ frames'[i] = frames[i] /\ frames'[j].from = r + 1
        BY <1>1, <1>3, <1>6, <3>1, <3>3
      <4> QED BY <1>1, <4>1
    <3> QED BY <1>4, <3>2, <3>3
  <2>3. ASSUME NEW i \in 1..n + 1, NEW x \in exprs PROVE x.at < frames'[i].from \/ frames'[i].from < x.from
    <3>1. CASE i \in 1..n
      BY <1>1, <1>3, <3>1 DEF Opened, n
    <3>2. CASE i = n + 1
      BY <1>1, <1>3, <1>5, <3>2
    <3> QED BY <1>4, <3>1, <3>2
  <2> QED BY <1>3, <2>1, <2>2, <2>3 DEF Opened
<1>8. ASSUME NEW i \in 1..n + 1 PROVE Handed(emitted, exprs, frames'[i], Reach(frames', i, r + 1))
  <2>1. CASE i \in 1..n
    <3>1. Reach(frames', i, r + 1) = Reach(frames, i, r)
      <4>1. CASE i < n
        <5>1. i + 1 \in 1..n /\ i < n + 1
          BY <1>2, <4>1
        <5>2. frames'[i + 1] = frames[i + 1]
          BY <1>3, <5>1
        <5> QED BY <1>3, <4>1, <5>1, <5>2 DEF Reach, n
      <4>2. CASE i = n
        <5>1. i < n + 1 /\ ~(i < n)
          BY <1>2, <4>2
        <5>2. frames'[i + 1].from - 1 = r
          BY <1>1, <1>3, <4>2
        <5> QED BY <1>3, <5>1, <5>2 DEF Reach, n
      <4> QED BY <1>2, <2>1, <4>1, <4>2
    <3> QED BY <1>1, <1>3, <2>1, <3>1
  <2>2. CASE i = n + 1
    <3>1. Reach(frames', i, r + 1) = r + 1 /\ frames'[i] = f
      BY <1>2, <1>3, <2>2 DEF Reach
    <3>2. Free(emitted, exprs, r + 1, r + 1) = {}
      BY <1>1 DEF Free
    <3>3. Range(<<>>) = {} /\ Descends(<<>>)
      BY DEF Range, Descends
    <3> QED BY <1>1, <3>1, <3>2, <3>3 DEF Handed
  <2> QED BY <1>4, <2>1, <2>2
<1>9. \A x \in exprs : x.at <= r + 1
    BY <1>1, <1>5
<1>10. received' \in Nat /\ \A k \in 1..Len(pending') : emitted'[received' + k] = pending'[k]
    BY <1>1, PipeNumbers
<1> QED BY <1>1, <1>3, <1>7, <1>8, <1>9, <1>10 DEF PipeInv

\* A return: the expression has the pipes since it was opened, and the frames
\* below it keep theirs.
LEMMA PipeCloses ==
    ASSUME Inside, Stack, Parses, PipeInv, frames # <<>>, head # "Pipe",
           exprs' = exprs \cup {[from |-> frame.from, at |-> number, piped |-> frame.piped]},
           parser' = "run" => Len(frames') = Len(frames) - 1 /\ Alike(frames', frames, Len(frames) - 1)
    PROVE  PipeInv'
<1> DEFINE n == Len(frames)
           r == received
           l == frame.from
           y == [from |-> frame.from, at |-> number, piped |-> frame.piped]
<1>1. /\ r \in Nat /\ received' = r + 1 /\ number = r + 1 /\ emitted' = emitted
      /\ exprs \subseteq Complete /\ Opened(frames, exprs, r)
      /\ \A x \in exprs : x.at <= r /\ Handed(emitted, exprs, x, x.at - 1)
      /\ \A i \in 1..n : Handed(emitted, exprs, frames[i], Reach(frames, i, r))
    BY PipeNumbers
<1>2. n \in Nat /\ n > 0 /\ frame = frames[n] /\ n \in 1..n /\ frame \in Frame
  <2>1. n \in Nat /\ n > 0 /\ frame \in Frame
    BY FrameTyped
  <2>2. frame = frames[n]
    BY DEF frame, Last
  <2> QED BY <2>1, <2>2
<1>3. l \in 0..r /\ y \in Complete /\ y.from = l /\ y.at = r + 1 /\ y.piped = frame.piped
  <2>1. l \in 0..r
    BY <1>1, <1>2 DEF Opened
  <2>2. frame.piped \in Seq(Int)
    BY <1>2 DEF Frame
  <2> QED BY <1>1, <2>1, <2>2 DEF Complete
<1>4. exprs' = exprs \cup {y}
    OBVIOUS
<1> HIDE DEF n, r, l, y
<1>4a. ASSUME NEW a \in Nat, NEW m \in Int, m < y.from \/ y.from <= a
       PROVE  Free(emitted, exprs', a, m) = Free(emitted, exprs, a, m)
  <2>1. y \in Complete
    BY <1>3
  <2>2. CASE m < y.from
    <3>1. Free(emitted, exprs \cup {y}, a, m) = Free(emitted, exprs, a, m)
      BY <2>1, <2>2, FreeAhead
    <3> QED BY <1>4, <3>1
  <2>3. CASE y.from <= a
    <3>1. Free(emitted, exprs \cup {y}, a, m) = Free(emitted, exprs, a, m)
      BY <2>1, <2>3, FreeWithin
    <3> QED BY <1>4, <3>1
  <2> QED BY <1>4a, <2>2, <2>3
<1>5. \A x \in exprs : x.from \in Nat /\ x.at \in Nat /\ x.at <= r
    BY <1>1 DEF Complete
<1>6. ASSUME NEW x \in exprs PROVE Handed(emitted, exprs', x, x.at - 1)
  <2>1. x.at < l \/ l < x.from
    BY <1>1, <1>2 DEF Opened, n, l
  <2>2. x.at - 1 < y.from \/ y.from <= x.from
    BY <1>3, <1>5, <2>1
  <2>3. x.from \in Nat /\ x.at - 1 \in Int
    BY <1>5
  <2>4. Free(emitted, exprs', x.from, x.at - 1) = Free(emitted, exprs, x.from, x.at - 1)
    BY <1>4a, <2>2, <2>3
  <2> QED BY <1>1, <2>4 DEF Handed
<1>7. Handed(emitted, exprs', y, y.at - 1)
  <2>1. Handed(emitted, exprs, frame, r)
    <3>1. Reach(frames, n, r) = r
      BY <1>2 DEF Reach, n
    <3> QED BY <1>1, <1>2, <3>1
  <2>2. y.at - 1 = r /\ l \in Nat /\ r \in Int /\ y.from <= l
    BY <1>1, <1>3
  <2>3. Free(emitted, exprs', l, r) = Free(emitted, exprs, l, r)
    BY <1>4a, <2>2
  <2> QED BY <1>3, <2>1, <2>2, <2>3 DEF Handed, l
<1>8. \A x \in exprs' : x.at <= r + 1 /\ Handed(emitted, exprs', x, x.at - 1)
  <2>1. \A x \in exprs' : x \in exprs \/ x = y
    BY <1>4
  <2>2. \A x \in exprs : x.at <= r + 1
    BY <1>1, <1>5
  <2>3. y.at <= r + 1
    BY <1>1, <1>3
  <2> QED BY <1>6, <1>7, <2>1, <2>2, <2>3, Zenon
<1>9. exprs' \subseteq Complete
    BY <1>1, <1>3, <1>4
<1>10. ASSUME parser' = "run" PROVE Opened(frames', exprs', r + 1)
  <2>1. /\ Len(frames') = n - 1 /\ \A i \in 1..n - 1 : frames'[i].from = frames[i].from
        /\ \A i \in 1..n - 1 : i \in 1..n /\ i < n
    BY <1>2, <1>10 DEF Alike, n
  <2>2. \A i \in 1..n - 1 : frames[i].from \in 0..r /\ frames[i].from < l
    BY <1>1, <1>2, <2>1 DEF Opened, n, l
  <2>3. \A i \in 1..n - 1 : frames'[i].from \in 0..r + 1
    BY <1>1, <2>1, <2>2
  <2>4. \A i, j \in 1..n - 1 : i < j => frames'[i].from < frames'[j].from
    BY <1>1, <2>1 DEF Opened, n
  <2>5. \A i \in 1..n - 1 : \A x \in exprs : x.at < frames'[i].from \/ frames'[i].from < x.from
    BY <1>1, <2>1 DEF Opened, n
  <2>6. \A i \in 1..n - 1 : frames'[i].from < y.from
    BY <1>3, <2>1, <2>2
  <2> QED BY <1>4, <2>1, <2>3, <2>4, <2>5, <2>6 DEF Opened
<1>11. ASSUME parser' = "run", NEW i \in 1..Len(frames')
       PROVE  Handed(emitted, exprs', frames'[i], Reach(frames', i, r + 1))
  <2> DEFINE a == frames[i].from
  <2>1. /\ Len(frames') = n - 1 /\ i \in 1..n - 1 /\ i \in 1..n /\ i + 1 \in 1..n /\ i < n
        /\ frames'[i].from = a /\ frames'[i].piped = frames[i].piped
    BY <1>2, <1>11 DEF Alike, n
  <2>2. a \in 0..r /\ a < l
    BY <1>1, <1>2, <2>1 DEF Opened, n, l
  <2>3. Handed(emitted, exprs, frames[i], frames[i + 1].from - 1) /\ frames[i + 1].from \in 0..r
    <3>1. Reach(frames, i, r) = frames[i + 1].from - 1
      BY <2>1 DEF Reach, n
    <3>2. frames[i + 1].from \in 0..r
      BY <1>1, <2>1 DEF Opened, n
    <3> QED BY <1>1, <2>1, <3>1, <3>2
  <2> HIDE DEF a
  <2>4. CASE i < n - 1
    <3>1. Reach(frames', i, r + 1) = frames[i + 1].from - 1
      <4>1. i + 1 \in 1..n - 1
        BY <1>2, <2>1, <2>4
      <4>2. frames'[i + 1].from = frames[i + 1].from
        BY <1>11, <4>1 DEF Alike, n
      <4> QED BY <2>1, <2>4, <4>2 DEF Reach
    <3>2. frames[i + 1].from - 1 < y.from /\ frames[i + 1].from - 1 \in Int /\ a \in Nat
      <4>1. i + 1 < n /\ i + 1 \in 1..n
        BY <1>2, <2>1, <2>4
      <4>2. frames[i + 1].from < l
        BY <1>1, <1>2, <4>1 DEF Opened, n, l
      <4> QED BY <1>3, <2>2, <2>3, <4>2
    <3>3. Free(emitted, exprs', a, frames[i + 1].from - 1) = Free(emitted, exprs, a, frames[i + 1].from - 1)
      BY <1>4a, <3>2
    <3> QED BY <2>1, <2>3, <3>1, <3>3 DEF Handed, a
  <2>5. CASE i = n - 1
    <3>1. Reach(frames', i, r + 1) = y.at
      BY <1>3, <2>1, <2>5 DEF Reach
    <3>2. frames[i + 1].from = l /\ a \in Nat /\ a < y.from /\ y.from <= y.at
      <4>1. i + 1 = n
        BY <1>2, <2>5
      <4> QED BY <1>1, <1>2, <1>3, <2>2, <4>1 DEF l
    <3>3. Free(emitted, exprs', a, y.at) = Free(emitted, exprs, a, l - 1)
      BY <1>3, <1>4, <3>2, FreeAround, ZenonT(60)
    <3> QED BY <2>1, <2>3, <3>1, <3>2, <3>3 DEF Handed, a
  <2> QED BY <1>2, <2>1, <2>4, <2>5
<1>12. received' \in Nat /\ \A k \in 1..Len(pending') : emitted'[received' + k] = pending'[k]
    BY <1>1, PipeNumbers
<1> QED BY <1>1, <1>8, <1>9, <1>10, <1>11, <1>12 DEF PipeInv

\* The last frame replaced by one with the same pipes.
LEMMA PipeReplaced ==
    ASSUME Inside, Stack, Parses, PipeInv, frames # <<>>, parser' = "run", exprs' = exprs, head # "Pipe",
           NEW f, f.from = frame.from, f.piped = frame.piped, frames' = Append(Front(frames), f)
    PROVE  PipeInv'
<1> DEFINE n == Len(frames)
           s == Front(frames)
<1>1. n \in Nat /\ n > 0 /\ s \in Seq(Frame) /\ Len(s) = n - 1 /\ \A i \in 1..n - 1 : s[i] = frames[i]
    BY FrontOf DEF Stack
<1>2. frame = frames[n]
    BY DEF frame, Last
<1> HIDE DEF n, s
<1>3. Len(frames') = n /\ frames'[n] = f /\ \A i \in 1..n - 1 : frames'[i] = frames[i]
    BY <1>1 DEF s
<1>4. \A i \in 1..n : i \in 1..n - 1 \/ i = n
    BY <1>1
<1>5. Alike(frames', frames, n)
    BY <1>2, <1>3, <1>4 DEF Alike
<1> QED BY <1>3, <1>5, PipeStays DEF n

\* Every step of the parser.
LEMMA PipeParsed ==
    ASSUME Inside, Stack, Parses, PipeInv, Parse
    PROVE  PipeInv'
<1>1. Receives => typ = head /\ head \in Types
    BY Received
<1>2. parser = "run"
    BY DEF Parses
<1>3. ASSUME Fail PROVE PipeInv'
    BY <1>3, PipeStops DEF Fail
<1>4. ASSUME NEW end \in {"RightDelim", "EOF", "RightParen"}, NEW isVal \in BOOLEAN, Call(end, isVal)
      PROVE  PipeInv'
  <2> DEFINE f == NewFrame(end, isVal, number)
  <2>1. number \in Int
    BY PipeNumbers
  <2>2. f.from = number /\ f.piped = <<>>
    BY <2>1, FrameNew
  <2>3. frames' = Append(frames, f) /\ parser' = "run" /\ exprs' = exprs
    BY <1>2, <1>4 DEF Call
  <2> HIDE DEF f
  <2> QED BY <2>2, <2>3, PipeCalls
<1>5. ASSUME NEW f, SetFrame(f), frames # <<>>, head # "Pipe", f.from = frame.from, f.piped = frame.piped
      PROVE  PipeInv'
  <2>1. frames' = Append(Front(frames), f) /\ parser' = "run" /\ exprs' = exprs
    BY <1>2, <1>5 DEF SetFrame
  <2> QED BY <1>5, <2>1, PipeReplaced
<1>6. ASSUME UNCHANGED <<frames, exprs>>, head # "Pipe" PROVE PipeInv'
  <2>1. CASE parser' = "run"
    BY <1>6, <2>1, PipeStays DEF Alike
  <2>2. CASE parser' # "run"
    BY <1>6, <2>2, PipeStops
  <2> QED BY <2>1, <2>2
<1>7. CASE OpenParen
  <2>1. Call("RightParen", FALSE)
    BY <1>7 DEF OpenParen, Call
  <2>2. FALSE \in BOOLEAN
    OBVIOUS
  <2> QED BY <1>4, <2>1, <2>2
<1>8. CASE Terminal
  <2> DEFINE f == [frame EXCEPT !.first = FALSE, !.elems = Append(@, typ)]
  <2>1. /\ frames # <<>> /\ head # "Pipe"
        /\ (parser' = "panic" /\ UNCHANGED <<frames, exprs>>) \/ Fail \/ SetFrame(f)
    BY <1>1, <1>8 DEF Terminal, InExpr, isTerminal, Terminals
  <2>2. f.from = frame.from /\ f.piped = frame.piped
    BY <2>1, FrameTyped DEF Frame
  <2> HIDE DEF f
  <2> QED BY <1>3, <1>5, <1>6, <2>1, <2>2
<1>9. CASE ArgKey
  <2> DEFINE f == [frame EXCEPT !.seen_argkey = TRUE, !.inKeyVal = TRUE]
  <2>1. frames # <<>> /\ head # "Pipe" /\ (Fail \/ SetFrame(f))
    BY <1>1, <1>9 DEF ArgKey, InExpr
  <2>2. f.from = frame.from /\ f.piped = frame.piped
    BY <2>1, FrameTyped DEF Frame
  <2> HIDE DEF f
  <2> QED BY <1>3, <1>5, <2>1, <2>2
<1>10. CASE Pipe
  <2> DEFINE g == NewFrame(frame.end, frame.isVal, frame.from)
             piped == <<number>> \o frame.piped
             f == [g EXCEPT !.piped = piped]
             n == Len(frames)
             s == Front(frames)
  <2>1. frames # <<>> /\ head = "Pipe" /\ SetFrame(f)
    BY <1>1, <1>10 DEF Pipe, PipesInto, InExpr
  <2>2. frames' = Append(s, f) /\ parser' = "run" /\ exprs' = exprs
    BY <1>2, <2>1 DEF SetFrame
  <2>3. f.from = frame.from /\ f.piped = piped
    BY DEF NewFrame
  <2>4. n \in Nat /\ n > 0 /\ s \in Seq(Frame) /\ Len(s) = n - 1 /\ \A i \in 1..n - 1 : s[i] = frames[i]
    BY <2>1, FrontOf DEF Stack
  <2>5. frame = frames[n]
    BY DEF frame, Last
  <2> HIDE DEF n, s, f
  <2>6. Len(frames') = n /\ frames'[n] = f /\ \A i \in 1..n - 1 : frames'[i] = frames[i]
    BY <2>2, <2>4
  <2>7. Alike(frames', frames, n - 1)
    BY <2>6 DEF Alike
  <2> QED BY <2>1, <2>2, <2>3, <2>5, <2>6, <2>7, PipeStays DEF n
<1>11. CASE CloseExpr
  <2> DEFINE callers == Front(frames)
             caller == Last(callers)
             n == Len(frames)
  <2>1. /\ frames # <<>> /\ Receives /\ typ = frame.end
        /\ exprs' = exprs \cup {[from |-> frame.from, at |-> number, piped |-> frame.piped]}
    BY <1>11 DEF CloseExpr, InExpr
  <2>2. head # "Pipe"
    BY <1>1, <2>1, FrameTyped DEF Frame
  <2>3. \/ callers # <<>> /\ frames' = Append(Front(callers), [caller EXCEPT !.inKeyVal = FALSE])
        \/ callers # <<>> /\ frames' = Append(Front(callers), [caller EXCEPT !.elems = Append(@, "expr")])
        \/ callers = <<>> /\ frames' = <<>>
    BY <1>11 DEF CloseExpr
  <2>4. n \in Nat /\ n > 0 /\ callers \in Seq(Frame) /\ Len(callers) = n - 1
        /\ \A i \in 1..n - 1 : callers[i] = frames[i]
    BY <2>1, FrontOf DEF Stack
  <2> HIDE DEF callers, n
  <2>5. ASSUME callers # <<>>, NEW f, f.from = caller.from, f.piped = caller.piped,
               frames' = Append(Front(callers), f)
        PROVE  Len(frames') = n - 1 /\ Alike(frames', frames, n - 1)
    <3> DEFINE s == Front(callers)
    <3>1. /\ n - 1 > 0 /\ s \in Seq(Frame) /\ Len(s) = n - 1 - 1 /\ \A i \in 1..n - 1 - 1 : s[i] = callers[i]
      BY <2>4, <2>5, FrontOf
    <3>2. caller = callers[n - 1]
      BY <2>4 DEF Last
    <3> HIDE DEF s
    <3>3. Len(frames') = n - 1 /\ frames'[n - 1] = f /\ \A i \in 1..n - 1 - 1 : frames'[i] = callers[i]
      BY <2>4, <2>5, <3>1 DEF s
    <3>4. \A i \in 1..n - 1 : i \in 1..n - 1 - 1 \/ i = n - 1
      BY <2>4
    <3>5. n - 1 \in 1..n - 1
      BY <2>4, <3>1
    <3> HIDE DEF caller
    <3> QED BY <2>4, <2>5, <3>2, <3>3, <3>4, <3>5 DEF Alike
  <2>6. callers # <<>> => caller \in Frame
    BY <2>4 DEF Last
  <2> HIDE DEF caller
  <2>7. CASE callers # <<>> /\ frames' = Append(Front(callers), [caller EXCEPT !.inKeyVal = FALSE])
    <3> DEFINE f == [caller EXCEPT !.inKeyVal = FALSE]
    <3>1. f.from = caller.from /\ f.piped = caller.piped /\ frames' = Append(Front(callers), f)
      BY <2>6, <2>7 DEF Frame
    <3> HIDE DEF f
    <3> QED BY <2>1, <2>2, <2>5, <2>7, <3>1, PipeCloses DEF n
  <2>8. CASE callers # <<>> /\ frames' = Append(Front(callers), [caller EXCEPT !.elems = Append(@, "expr")])
    <3> DEFINE f == [caller EXCEPT !.elems = Append(@, "expr")]
    <3>1. f.from = caller.from /\ f.piped = caller.piped /\ frames' = Append(Front(callers), f)
      BY <2>6, <2>8 DEF Frame
    <3> HIDE DEF f
    <3> QED BY <2>1, <2>2, <2>5, <2>8, <3>1, PipeCloses DEF n
  <2>9. CASE callers = <<>> /\ frames' = <<>>
    <3>1. n - 1 = 0 /\ Len(frames') = 0
      BY <2>4, <2>9
    <3>2. Alike(frames', frames, n - 1)
      BY <3>1 DEF Alike
    <3> QED BY <2>1, <2>2, <3>1, <3>2, PipeCloses DEF n
  <2> QED BY <2>3, <2>7, <2>8, <2>9
<1>12. CASE WrongEnd
    BY <1>3, <1>12 DEF WrongEnd
<1>13. CASE Skip
    BY <1>1, <1>6, <1>13 DEF Skip, InExpr, parseVars
<1>14. CASE KeyVal
  <2> DEFINE f == [frame EXCEPT !.inKeyVal = FALSE]
  <2>1. /\ frames # <<>>
        /\ \/ Call("RightParen", TRUE)
           \/ head # "Pipe" /\ SetFrame(f)
           \/ head # "Pipe" /\ UNCHANGED <<frames, exprs>>
           \/ Fail
    BY <1>1, <1>14 DEF KeyVal, parseVars, isTerminal, Terminals
  <2>2. f.from = frame.from /\ f.piped = frame.piped
    BY <2>1, FrameTyped DEF Frame
  <2>3. TRUE \in BOOLEAN
    OBVIOUS
  <2> HIDE DEF f
  <2> QED BY <1>3, <1>4, <1>5, <1>6, <2>1, <2>2, <2>3
<1>15. CASE ParseTextNode \/ ParseForExpr
  <2>1. \/ Call("RightDelim", FALSE)
        \/ Call("EOF", FALSE)
        \/ head # "Pipe" /\ UNCHANGED <<frames, exprs>>
        \/ Fail
    BY <1>1, <1>15 DEF ParseTextNode, ParseForExpr, AtTop, parseVars
  <2>2. FALSE \in BOOLEAN
    OBVIOUS
  <2> QED BY <1>3, <1>4, <1>6, <2>1, <2>2
<1> QED BY <1>7, <1>8, <1>9, <1>10, <1>11, <1>12, <1>13, <1>14, <1>15 DEF Parse

\* Before the first item nothing is handed on.
LEMMA PipeInit == Init => PipeInv
<1> SUFFICES ASSUME Init PROVE PipeInv
    OBVIOUS
<1>1. /\ pending = <<>> /\ emitted = <<>> /\ exprs = {}
      /\ frames = <<>> \/ frames = <<NewFrame("EOF", FALSE, 0)>>
    BY DEF Init, LexInit
<1>2. received = 0
    BY <1>1 DEF received
<1>3. \A i \in 1..Len(frames) : i = 1 /\ Len(frames) = 1 /\ frames[i].from = 0 /\ frames[i].piped = <<>>
  <2> DEFINE f == NewFrame("EOF", FALSE, 0)
  <2>1. f.from = 0 /\ f.piped = <<>>
    BY DEF NewFrame
  <2> HIDE DEF f
  <2>2. frames = <<>> \/ frames = <<f>>
    BY <1>1 DEF f
  <2>3. CASE frames = <<>>
    BY <2>3
  <2>4. CASE frames = <<f>>
    <3>1. Len(frames) = 1 /\ frames[1] = f
      BY <2>4
    <3> QED BY <2>1, <3>1
  <2> QED BY <2>2, <2>3, <2>4
<1>4. Opened(frames, exprs, received)
    BY <1>1, <1>2, <1>3 DEF Opened
<1>5. ASSUME NEW i \in 1..Len(frames) PROVE Handed(emitted, exprs, frames[i], Reach(frames, i, received))
  <2>1. Reach(frames, i, received) = 0 /\ frames[i].from = 0 /\ frames[i].piped = <<>>
    BY <1>2, <1>3 DEF Reach
  <2>2. Free(emitted, exprs, 0, 0) = {}
    BY DEF Free
  <2>3. Range(<<>>) = {} /\ Descends(<<>>)
    BY DEF Range, Descends
  <2> QED BY <2>1, <2>2, <2>3 DEF Handed
<1> QED BY <1>1, <1>2, <1>4, <1>5 DEF PipeInv

\* Every step keeps the pipes where they belong.
LEMMA PipeNext == IInv /\ PipeInv /\ [NextStep]_vars => PipeInv'
<1> SUFFICES ASSUME IInv, PipeInv, [NextStep]_vars PROVE PipeInv'
    OBVIOUS
<1>1. Inside /\ Stack
    BY DEF IInv
<1>2. CASE Run /\ UNCHANGED parseVars
  <2>1. Inside' /\ Scans
    BY <1>1, <1>2, RunScans
  <2> QED BY <1>1, <1>2, <2>1, PipeScans
<1>3. CASE Parse
  <2>1. Parses
    BY <1>1, <1>3, ParseParses
  <2> QED BY <1>1, <1>3, <2>1, PipeParsed
<1>4. CASE UNCHANGED vars
    BY <1>4 DEF vars, lexVars, parseVars, PipeInv, received
<1> QED BY <1>2, <1>3, <1>4 DEF NextStep

\* Whenever ParseExpr returns, its Domly has what stood before each pipe of the
\* expression as its last arguments, the nearest first, and nothing of another
\* expression, however long the text and in whatever parentheses: "A|B === B(A)"
\* (ui.go:450) for one pipe, and C(B, A) for A|B|C.
THEOREM PipesAreHandedOn == Spec => []PipesHandOn
<1>1. PipeInv => PipesHandOn
  <2> SUFFICES ASSUME PipeInv, NEW x \in exprs
               PROVE  /\ Range(x.piped) = PipesOf(x)
                      /\ \A i, j \in 1..Len(x.piped) : i < j => x.piped[i] > x.piped[j]
    BY DEF PipesHandOn
  <2>1. Handed(emitted, exprs, x, x.at - 1)
    BY DEF PipeInv
  <2> QED BY <2>1 DEF Handed, Free, Descends, PipesOf
<1>2. Init => PipeInv
    BY PipeInit
<1> QED BY <1>1, <1>2, InvariantHolds, PipeNext, PTL DEF Spec

----------------------------------------------------------------------------
(* What the items are.                                                     *)

\* Without characters of more than two bytes an item spells what its type says.
Spelled(inp, x) ==
    LET val == SubSeq(inp, x.from + 1, x.to)
    IN  Short(inp) =>
        CASE x.typ = "LeftDelim" -> val = leftDelim
          [] x.typ = "RightDelim" -> val = rightDelim
          [] x.typ = "Text" -> \A k \in 1..Len(val) - 1 : SubSeq(val, k, k + 1) # leftDelim
          [] OTHER -> TRUE

Owns(x, b) == x.from <= b /\ b < x.to

\* The items lie one behind the other up to n, but for bangs and colons.
Tiled(inp, es, n) ==
    /\ es \in Seq(Item)
    /\ \A i \in 1..Len(es) : es[i].from <= es[i].to /\ es[i].to <= n /\ Spelled(inp, es[i])
    /\ \A i, j \in 1..Len(es) : i < j => es[i].to <= es[j].from
    /\ \A b \in 0..n - 1 : (\E i \in 1..Len(es) : Owns(es[i], b)) \/ inp[b + 1] \in {"!", ":"}

\* A delimiter begins at b.
Spells(inp, b, d) == b + 2 <= Len(inp) /\ inp[b + 1] = d[1] /\ inp[b + 2] = d[2]

Blank == {" ", "\n"}

\* In a text without characters of more than two bytes the scanner is at most one
\* byte behind the item it has begun, which then was preceded by a space; it has
\* seen that no delimiter begins in what it has read of the item, nor one byte
\* before it.
TextSeam(inp, pos, start) ==
    Short(inp) =>
    /\ start - 1 <= pos
    /\ pos < start => inp[start] \in Blank
    /\ \A b \in start..pos - 1 : ~Spells(inp, b, leftDelim)
    /\ start > 0 /\ start + 1 < Len(inp) => ~Spells(inp, start - 1, leftDelim)

\* Elsewhere the item ends where the scanner is, or before, but where a turn
\* over text may have stepped back too far.
Seam(inp, text, fn, pos, start) ==
    /\ fn = "LexTextNode" => TextSeam(inp, pos, start)
    /\ fn \notin {"LexTextNode", "LexURI", "LeftDelim", "panic", "ended"} => start <= pos
    /\ fn = "LexURI" => (Short(inp) => start <= pos)
    /\ fn = "LeftDelim" => Spells(inp, pos, leftDelim) /\ (Short(inp) => start = pos)
    /\ fn = "RightDelim" => start = pos /\ Spells(inp, pos, rightDelim)
    /\ fn = "LexURI" /\ pos + 1 < Len(inp) => inp[pos + 1] \in Blank
    /\ text /\ fn = "InsideAction" => start = pos
    /\ fn \in {"InsideAction", "LexIfExpr", "LexForExpr"} => start = pos \/ inp[start + 1] = "\n"
    /\ fn = "Identifier" => start < pos /\ (inp[start + 1] = "!" => pos = start + 1)

CoverInv == Tiled(input, emitted, Start) /\ Seam(input, isText, StateFn, Pos, Start)

\* One item more.
LEMMA TileOne ==
    ASSUME NEW inp, NEW es, NEW n \in Nat, Tiled(inp, es, n),
           NEW t \in Types, NEW from \in Nat, NEW to \in Nat, NEW m \in Nat,
           n <= from, from <= to, to <= m,
           \A b \in (n..from - 1) \cup (to..m - 1) : inp[b + 1] \in {"!", ":"},
           Spelled(inp, It(t, from, to))
    PROVE  Tiled(inp, es \o <<It(t, from, to)>>, m)
<1> DEFINE x == It(t, from, to)
           all == es \o <<x>>
<1>1. x \in Item /\ x.from = from /\ x.to = to
    BY ItemTyped DEF It
<1> HIDE DEF x
<1>2. /\ es \in Seq(Item) /\ Len(es) \in Nat
      /\ \A i \in 1..Len(es) : es[i].from <= es[i].to /\ es[i].to <= n /\ Spelled(inp, es[i])
      /\ \A i \in 1..Len(es) : es[i].from \in Nat /\ es[i].to \in Nat
  <2>1. es \in Seq(Item) /\ Len(es) \in Nat
    BY DEF Tiled
  <2>2. \A i \in 1..Len(es) : es[i] \in Item
    BY <2>1
  <2>3. \A i \in 1..Len(es) : es[i].from \in Nat /\ es[i].to \in Nat
    BY <2>2 DEF Item
  <2> QED BY <2>1, <2>3 DEF Tiled
<1>3. /\ all \in Seq(Item) /\ Len(all) = Len(es) + 1 /\ all[Len(es) + 1] = x
      /\ \A i \in 1..Len(es) : all[i] = es[i]
    BY <1>1, <1>2
<1> HIDE DEF all
<1>4. \A i \in 1..Len(all) : i = Len(es) + 1 \/ i \in 1..Len(es)
    BY <1>2, <1>3
<1>5. \A i \in 1..Len(all) : all[i].from <= all[i].to /\ all[i].to <= m /\ Spelled(inp, all[i])
    BY <1>1, <1>2, <1>3, <1>4 DEF x
<1>6. \A i, j \in 1..Len(all) : i < j => all[i].to <= all[j].from
  <2>1. SUFFICES ASSUME NEW i \in 1..Len(all), NEW j \in 1..Len(all), i < j
                 PROVE  all[i].to <= all[j].from
    OBVIOUS
  <2>2. CASE j \in 1..Len(es)
    BY <1>2, <1>3, <2>1, <2>2, SMTT(30) DEF Tiled
  <2>3. CASE j = Len(es) + 1
    BY <1>1, <1>2, <1>3, <1>4, <2>1, <2>3
  <2> QED BY <1>4, <2>2, <2>3
<1>7. ASSUME NEW b \in 0..m - 1
      PROVE  (\E i \in 1..Len(all) : Owns(all[i], b)) \/ inp[b + 1] \in {"!", ":"}
  <2>1. CASE b < n
    <3>1. (\E i \in 1..Len(es) : Owns(es[i], b)) \/ inp[b + 1] \in {"!", ":"}
      BY <2>1 DEF Tiled
    <3>2. \A i \in 1..Len(es) : Owns(es[i], b) => i \in 1..Len(all) /\ Owns(all[i], b)
      BY <1>2, <1>3
    <3> QED BY <3>1, <3>2
  <2>2. CASE from <= b /\ b < to
    <3>1. Owns(all[Len(es) + 1], b) /\ Len(es) + 1 \in 1..Len(all)
      BY <1>1, <1>2, <1>3, <2>2 DEF Owns
    <3> QED BY <3>1
  <2>3. CASE ~(b < n) /\ ~(from <= b /\ b < to)
    BY <2>3
  <2> QED BY <2>1, <2>2, <2>3
<1>8. Tiled(inp, all, m)
    BY <1>3, <1>5, <1>6, <1>7 DEF Tiled
<1> QED BY <1>8 DEF all, x

\* No item more, and no more of the input.
LEMMA TileNone ==
    ASSUME NEW inp, NEW es, NEW n, Tiled(inp, es, n)
    PROVE  Tiled(inp, es \o <<>>, n)
<1>1. es \o <<>> = es
    BY DEF Tiled
<1> QED BY <1>1

\* A rune is the end of the input, a character of more bytes or a byte.
LEMMA Runes ==
    ASSUME input \in Seq(Byte), NEW p \in 0..Len(input)
    PROVE  \/ p = Len(input) /\ Next(p) = [r |-> EOF, w |-> 0]
           \/ /\ p < Len(input) /\ Multibyte(input, p)
              /\ Next(p) = [r |-> Kind(input[p + 1]), w |-> Width(input[p + 1])]
           \/ /\ p < Len(input) /\ ~Multibyte(input, p) /\ input[p + 1] \in Byte
              /\ Next(p) = [r |-> input[p + 1], w |-> 1]
BY DEF Next

\* What is not a byte.
LEMMA NoBytes == EOF \notin Byte /\ EOF \notin Kinds /\ \A r \in Kinds : r \notin Byte
BY DEF EOF, Kinds, Byte, Letter, Decimal, Lead, Trail

\* What reading a rune tells of the input.
Reads(p, read) ==
    /\ read.w \in 0..4 /\ p + read.w \in p..Len(input)
    /\ read.w = 0 <=> p = Len(input)
    /\ read.w = 0 <=> read.r = EOF
    /\ read.w = 1 => read.r = input[p + 1] /\ read.r \in Byte
    /\ read.w > 1 => /\ read.r \in Kinds /\ input[p + 1] \in Lead
                      /\ Multibyte(input, p) /\ Width(input[p + 1]) = read.w

\* Next reads so.
LEMMA NextTells ==
    ASSUME input \in Seq(Byte), NEW p \in 0..Len(input)
    PROVE  Reads(p, Next(p))
<1> DEFINE read == Next(p)
<1> SUFFICES Reads(p, read)
    OBVIOUS
<1>1. p + read.w \in p..Len(input)
    BY NextReads
<1>2. CASE p = Len(input) /\ read = [r |-> EOF, w |-> 0]
  <2>1. read.w = 0 /\ read.r = EOF
    BY <1>2
  <2> HIDE DEF read
  <2> QED BY <1>1, <1>2, <2>1 DEF Reads
<1>3. CASE p < Len(input) /\ Multibyte(input, p) /\ read = [r |-> Kind(input[p + 1]), w |-> Width(input[p + 1])]
  <2> DEFINE c == input[p + 1]
  <2>1. c \in Lead /\ read.w = Width(c) /\ read.r = Kind(c)
    BY <1>3 DEF Multibyte
  <2>2. read.w \in 2..4 /\ read.r \in Kinds
    BY <2>1, Leads
  <2>3. read.r # EOF /\ p # Len(input)
    BY <1>3, <2>2, NoBytes
  <2> HIDE DEF read
  <2> QED BY <1>1, <1>3, <2>1, <2>2, <2>3 DEF Reads
<1>4. CASE p < Len(input) /\ input[p + 1] \in Byte /\ read = [r |-> input[p + 1], w |-> 1]
  <2>1. read.w = 1 /\ read.r = input[p + 1]
    BY <1>4
  <2>2. read.r # EOF /\ p # Len(input)
    BY <1>4, <2>1, NoBytes
  <2> HIDE DEF read
  <2> QED BY <1>1, <1>4, <2>1, <2>2 DEF Reads
<1> QED BY <1>2, <1>3, <1>4, Runes

\* Without characters of more than two bytes none is read.
LEMMA ShortReads ==
    ASSUME input \in Seq(Byte), Short(input), NEW p \in 0..Len(input), NEW read, Reads(p, read)
    PROVE  /\ read.w \in 0..2
           /\ read.w = 2 => /\ p + 2 <= Len(input)
                            /\ input[p + 1] \in Lead /\ input[p + 2] = Trail
<1>1. CASE read.w > 1
  <2>1. /\ Multibyte(input, p) /\ Width(input[p + 1]) = read.w /\ read.w \in 0..4
        /\ p + read.w \in p..Len(input)
    BY <1>1 DEF Reads
  <2>2. p \in 0..Len(input) - 1
    BY <1>1, <2>1
  <2>3. read.w = 2
    BY <2>1, <2>2 DEF Short
  <2>4. input[p + 1] \in Lead /\ \A k \in p + 2..p + 2 : input[k] = Trail
    BY <2>1, <2>3 DEF Multibyte
  <2> QED BY <2>1, <2>3, <2>4
<1>2. CASE ~(read.w > 1)
    BY <1>2 DEF Reads
<1> QED BY <1>1, <1>2

\* Two entries of a sequence.
LEMMA PairOf ==
    ASSUME NEW S, NEW s, NEW m \in Int, s[m] \in S, s[m + 1] \in S
    PROVE  SubSeq(s, m, m + 1) = <<s[m], s[m + 1]>>
<1> DEFINE t == SubSeq(s, m, m + 1)
           u == <<s[m], s[m + 1]>>
<1>1. \A i \in m..m + 1 : s[i] \in S
  <2>1. \A i \in m..m + 1 : i = m \/ i = m + 1
    OBVIOUS
  <2> QED BY <2>1
<1>2. t \in Seq(S) /\ Len(t) = 2 /\ \A i \in 1..2 : t[i] = s[m + i - 1]
  <2>1. m + 1 \in Int /\ m <= m + 1 /\ (m + 1) - m + 1 = 2
    OBVIOUS
  <2> DEFINE top == m + 1
  <2>2. t \in Seq(S) /\ Len(t) = top - m + 1 /\ \A i \in 1..top - m + 1 : t[i] = s[m + i - 1]
    <3>1. top \in Int /\ m <= top /\ t = SubSeq(s, m, top) /\ \A i \in m..top : s[i] \in S
      BY <1>1
    <3> HIDE DEF top, t
    <3> QED BY <3>1, SubSeqProperties
  <2>3. 1..top - m + 1 = 1..2
    BY <2>1, Zenon
  <2>4. Len(t) = 2
    BY <2>1, <2>2, Zenon
  <2> QED BY <2>2, <2>3, <2>4, Zenon
<1>3. u \in Seq(S) /\ Len(u) = 2 /\ u[1] = s[m] /\ u[2] = s[m + 1]
    OBVIOUS
<1> HIDE DEF t, u
<1>4. t[1] = s[m] /\ t[2] = s[m + 1]
    BY <1>2
<1>5. \A i \in 1..2 : t[i] = u[i]
  <2>1. \A i \in 1..2 : i = 1 \/ i = 2
    OBVIOUS
  <2> QED BY <1>3, <1>4, <2>1
<1>6. t = u
    BY <1>2, <1>3, <1>5, SeqEqual
<1> QED BY <1>6 DEF t, u

\* The delimiters.
LEMMA Delims ==
    ASSUME NEW d \in {leftDelim, rightDelim}
    PROVE  d = <<d[1], d[2]>> /\ Len(d) = 2 /\ \A x, y : <<x, y>> = d <=> x = d[1] /\ y = d[2]
<1>1. CASE d = leftDelim
  <2>1. d[1] = "{" /\ d[2] = "{" /\ d = <<"{", "{">>
    BY <1>1 DEF leftDelim
  <2> QED BY <2>1
<1>2. CASE d = rightDelim
  <2>1. d[1] = "}" /\ d[2] = "}" /\ d = <<"}", "}">>
    BY <1>2 DEF rightDelim
  <2> QED BY <2>1
<1> QED BY <1>1, <1>2

\* A prefix of what is left of the input spells it.
LEMMA PrefixSpells ==
    ASSUME input \in Seq(Byte), NEW p \in 0..Len(input), NEW d \in {leftDelim, rightDelim}
    PROVE  HasPrefix(p, d) <=> Spells(input, p, d)
<1> DEFINE rest == SubSeq(input, p + 1, Len(input))
<1>1. /\ Len(rest) = Len(input) - p /\ rest \in Seq(Byte) /\ Len(input) \in Nat
      /\ \A i \in 1..Len(rest) : rest[i] = input[p + i]
    BY SMTT(30)
<1> HIDE DEF rest
<1>2. IsPrefix(d, rest) <=> 2 <= Len(rest) /\ d = SubSeq(rest, 1, 2)
  <2>1. Len(d) = 2 /\ SubSeq(d, 1, Len(d)) = d
    BY Delims
  <2> QED BY <2>1, Zenon DEF IsPrefix
<1>3. ASSUME 2 <= Len(rest) PROVE SubSeq(rest, 1, 2) = <<rest[1], rest[2]>>
  <2>1. rest[1] \in Byte /\ rest[1 + 1] \in Byte /\ 1 + 1 = 2 /\ 1 \in Int
    BY <1>1, <1>3
  <2>2. SubSeq(rest, 1, 1 + 1) = <<rest[1], rest[1 + 1]>>
    BY <2>1, PairOf, Zenon
  <2> QED BY <2>1, <2>2, Zenon
<1>4. HasPrefix(p, d) <=> 2 <= Len(rest) /\ d[1] = rest[1] /\ d[2] = rest[2]
  <2>1. HasPrefix(p, d) <=> IsPrefix(d, rest)
    BY Zenon DEF HasPrefix, rest
  <2>2. <<rest[1], rest[2]>> = d <=> rest[1] = d[1] /\ rest[2] = d[2]
    <3>1. \A x, y : <<x, y>> = d <=> (x = d[1] /\ y = d[2])
      BY Delims
    <3> HIDE DEF rest
    <3> QED BY <3>1
  <2> QED BY <1>2, <1>3, <2>1, <2>2, Zenon
<1>5. 2 <= Len(rest) => rest[1] = input[p + 1] /\ rest[2] = input[p + 2]
    BY <1>1
<1>6. 2 <= Len(rest) <=> p + 2 <= Len(input)
    BY <1>1
<1> QED BY <1>4, <1>5, <1>6, Zenon DEF Spells

\* Where there is no brace no delimiter begins.
LEMMA NotSpelled ==
    ASSUME NEW inp, NEW b, inp[b + 1] # "{" \/ inp[b + 2] # "{"
    PROVE  ~Spells(inp, b, leftDelim)
<1>1. leftDelim[1] = "{" /\ leftDelim[2] = "{"
    BY DEF leftDelim
<1> QED BY <1>1, Zenon DEF Spells

\* What is emitted of a delimiter is the delimiter.
LEMMA DelimSpelled ==
    ASSUME input \in Seq(Byte), NEW p \in 0..Len(input), NEW d \in {leftDelim, rightDelim}, Spells(input, p, d)
    PROVE  SubSeq(input, p + 1, p + 2) = d
<1>1. p + 2 <= Len(input) /\ input[p + 1] = d[1] /\ input[p + 2] = d[2]
    BY DEF Spells
<1>2. p + 1 \in Int /\ (p + 1) + 1 = p + 2 /\ input[p + 1] \in Byte /\ input[p + 2] \in Byte
    BY <1>1
<1> DEFINE m == p + 1
<1>3. SubSeq(input, m, m + 1) = <<input[m], input[m + 1]>>
  <2>1. m \in Int /\ input[m] \in Byte /\ input[m + 1] \in Byte
    BY <1>2, Zenon
  <2> HIDE DEF m
  <2> QED BY <2>1, PairOf, Zenon
<1>4. SubSeq(input, p + 1, p + 2) = <<input[p + 1], input[p + 2]>>
    BY <1>2, <1>3, Zenon
<1>5. d = <<d[1], d[2]>>
    BY Delims, Zenon
<1> QED BY <1>1, <1>4, <1>5, Zenon

\* An item of text in which no delimiter begins contains none.
LEMMA TextSpelled ==
    ASSUME input \in Seq(Byte), NEW from \in 0..Len(input), NEW to \in 0..Len(input), from <= to,
           Short(input) => \A b \in from..to - 2 : ~Spells(input, b, leftDelim)
    PROVE  Spelled(input, It("Text", from, to))
<1> DEFINE val == SubSeq(input, from + 1, to)
<1>1. Len(val) = to - from /\ val \in Seq(Byte) /\ \A i \in 1..Len(val) : val[i] = input[from + i]
    BY SMTT(30)
<1> HIDE DEF val
<1>2. ASSUME Short(input), NEW k \in 1..Len(val) - 1 PROVE SubSeq(val, k, k + 1) # leftDelim
  <2>1. /\ k \in 1..Len(val) /\ k + 1 \in 1..Len(val) /\ k \in Int
        /\ from + k - 1 \in from..to - 2
        /\ (from + k - 1) + 1 = from + k /\ (from + k - 1) + 2 = from + (k + 1)
        /\ (from + k - 1) + 2 <= Len(input)
    BY <1>1
  <2>2. ~Spells(input, from + k - 1, leftDelim)
    BY <1>2, <2>1, Zenon
  <2>3. ~(input[from + k] = leftDelim[1] /\ input[from + (k + 1)] = leftDelim[2])
    BY <2>1, <2>2, Zenon DEF Spells
  <2>4. val[k] = input[from + k] /\ val[k + 1] = input[from + (k + 1)]
    BY <1>1, <2>1, Zenon
  <2>5. val[k] \in Byte /\ val[k + 1] \in Byte
    <3>1. \A i \in 1..Len(val) : val[i] \in Byte
      <4>1. val \in Seq(Byte)
        BY <1>1
      <4> QED BY <4>1
    <3> QED BY <2>1, <3>1, Zenon
  <2>6. SubSeq(val, k, k + 1) = <<val[k], val[k + 1]>>
    BY <2>1, <2>5, PairOf, Zenon
  <2> QED BY <2>3, <2>4, <2>6, Delims, Zenon
<1>3. Spelled(input, It("Text", from, to)) <=>
          (Short(input) => \A k \in 1..Len(val) - 1 : SubSeq(val, k, k + 1) # leftDelim)
    BY DEF Spelled, It, val
<1> QED BY <1>2, <1>3, Zenon

\* Items of other types need not spell anything.
LEMMA OtherSpelled ==
    ASSUME NEW t \in Types \ {"LeftDelim", "RightDelim", "Text"}, NEW from, NEW to, NEW inp
    PROVE  Spelled(inp, It(t, from, to))
BY DEF Spelled, It

----------------------------------------------------------------------------
(* The calls of the state functions.                                       *)

\* A call whose items fit behind the others.
LEMMA BecomesCovers ==
    ASSUME NEW fn, NEW pos, NEW start, NEW items, Becomes(fn, pos, start, items),
           Tiled(input, emitted \o items, start), Seam(input, isText, fn, pos, start)
    PROVE  CoverInv'
<1>1. StateFn' = fn /\ Pos' = pos /\ Start' = start /\ emitted' = emitted \o items
      /\ input' = input /\ isText' = isText
    BY DEF Becomes, input, isText
<1> QED BY <1>1, Zenon DEF CoverInv

\* What the input is made of.
LEMMA Readable ==
    ASSUME Inside
    PROVE  input \in Seq(Byte) /\ Len(input) \in Nat /\ Pos \in Nat /\ Start \in Nat
BY SourceTyped DEF Inside

\* A call that emits one item of what it read.
LEMMA EmitCovers ==
    ASSUME Inside, CoverInv, NEW fn, NEW t \in Types, NEW pos \in 0..Len(input), Start <= pos,
           Spelled(input, It(t, Start, pos)), Seam(input, isText, fn, pos, pos), Emits(fn, t, pos)
    PROVE  CoverInv'
<1>1. /\ Start \in Nat /\ pos \in Nat /\ Tiled(input, emitted, Start)
      /\ \A b \in (Start..Start - 1) \cup (pos..pos - 1) : input[b + 1] \in {"!", ":"}
    BY Readable DEF CoverInv
<1>2. Tiled(input, emitted \o <<It(t, Start, pos)>>, pos)
    BY <1>1, TileOne
<1>3. Becomes(fn, pos, pos, <<It(t, Start, pos)>>)
    BY DEF Emits
<1> QED BY <1>2, <1>3, BecomesCovers

\* A call that only moves on.
LEMMA GoCovers ==
    ASSUME CoverInv, NEW fn, NEW pos, Seam(input, isText, fn, pos, Start), Goes(fn, pos)
    PROVE  CoverInv'
<1>1. Tiled(input, emitted \o <<>>, Start)
    BY TileNone DEF CoverInv
<1>2. Becomes(fn, pos, Start, <<>>)
    BY DEF Goes
<1> QED BY <1>1, <1>2, BecomesCovers

\* A call that ends with an error.
LEMMA ErrorCovers ==
    ASSUME Inside, CoverInv, NEW pos, Errorf(pos)
    PROVE  CoverInv'
<1>1. /\ Start \in Nat /\ Tiled(input, emitted, Start) /\ "Error" \in Types
      /\ \A b \in (Start..Start - 1) \cup (Start..Start - 1) : input[b + 1] \in {"!", ":"}
    BY Readable DEF CoverInv, Types
<1>2. Spelled(input, It("Error", Start, Start))
    BY <1>1, OtherSpelled
<1>3. Tiled(input, emitted \o <<It("Error", Start, Start)>>, Start)
    BY <1>1, <1>2, TileOne
<1>4. Becomes("ended", pos, Start, <<It("Error", Start, Start)>>)
    BY DEF Errorf
<1>5. Seam(input, isText, "ended", pos, Start)
    BY DEF Seam
<1> QED BY <1>3, <1>4, <1>5, BecomesCovers

\* A state function that is none of those Seam says more of.
Plain == {"Space", "EspraURI", "Number", "String", "LoopIdentifier", "ended"}

\* For those it is enough that the item begins before the place.
LEMMA PlainSeam ==
    ASSUME NEW inp, NEW text, NEW fn \in Plain, NEW pos, NEW start, start <= pos
    PROVE  Seam(inp, text, fn, pos, start)
BY DEF Plain, Seam

\* An expression, and an attribute, goes on where the item ended.
LEMMA InnerSeam ==
    ASSUME NEW inp, NEW text, NEW fn \in Plain \cup {"InsideAction", "LexIfExpr", "LexForExpr"}, NEW pos \in Nat
    PROVE  Seam(inp, text, fn, pos, pos)
BY DEF Plain, Seam

\* A call that panics before it emits.
LEMMA PanicCovers ==
    ASSUME CoverInv, NEW pos, Becomes("panic", pos, Start, <<>>)
    PROVE  CoverInv'
<1>1. Tiled(input, emitted \o <<>>, Start)
    BY TileNone DEF CoverInv
<1>2. Seam(input, isText, "panic", pos, Start)
    BY DEF Seam
<1> QED BY <1>1, <1>2, BecomesCovers

\* URIs, and what comes at the ends of an action.
LEMMA DelimCovers ==
    ASSUME Inside, CoverInv, LexURI \/ LeftDelim \/ RightDelim
    PROVE  CoverInv'
<1> DEFINE n == Len(input)
<1>1. /\ input \in Seq(Byte) /\ n \in Nat /\ Pos \in 0..n /\ Start \in 0..n
      /\ Seam(input, isText, StateFn, Pos, Start)
    BY Readable DEF CoverInv, Inside
<1>2. CASE LexURI /\ ~(Start > Pos)
  <2>1. StateFn = "LexURI" /\ Emits("LexTextNode", "URI", Pos) /\ "URI" \in Types \ {"LeftDelim", "RightDelim", "Text"}
    BY <1>2 DEF LexURI, Runs, Types, EmitsBack
  <2>2. Start <= Pos /\ (Pos + 1 < n => input[Pos + 1] \in Blank)
    BY <1>1, <1>2, <2>1 DEF Seam
  <2>3. Pos > 0 /\ Pos + 1 < n => ~Spells(input, Pos - 1, leftDelim)
    <3>1. (Pos - 1) + 2 = Pos + 1
      BY <1>1
    <3>2. Pos + 1 < n => input[(Pos - 1) + 2] # "{"
      BY <2>2, <3>1 DEF Blank
    <3> QED BY <3>2, NotSpelled, Zenon
  <2>4. Seam(input, isText, "LexTextNode", Pos, Pos)
    BY <1>1, <2>3 DEF Seam, TextSeam
  <2> QED BY <1>1, <2>1, <2>2, <2>4, OtherSpelled, EmitCovers
<1>3. CASE LeftDelim /\ ~(Start > Pos + 2)
  <2>1. StateFn = "LeftDelim" /\ Emits("InsideAction", "LeftDelim", Pos + 2) /\ "LeftDelim" \in Types
    BY <1>3 DEF LeftDelim, Runs, Types, EmitsBack
  <2>2. (Short(input) => Start = Pos) /\ Spells(input, Pos, leftDelim)
    BY <1>1, <2>1 DEF Seam
  <2>3. Pos + 2 \in 0..n /\ Pos + 2 \in Nat /\ Start <= Pos + 2
    BY <1>1, <1>3, <2>2 DEF Spells
  <2>4. Spelled(input, It("LeftDelim", Start, Pos + 2))
    <3>1. SubSeq(input, Pos + 1, Pos + 2) = leftDelim
      BY <1>1, <2>2, DelimSpelled
    <3>2. CASE Start = Pos
      BY <3>1, <3>2 DEF Spelled, It
    <3>3. CASE ~Short(input)
      BY <3>3, Zenon DEF Spelled
    <3> QED BY <2>2, <3>2, <3>3
  <2> QED BY <2>1, <2>3, <2>4, InnerSeam, EmitCovers
<1>4. CASE RightDelim
  <2>1. StateFn = "RightDelim" /\ Emits("LexTextNode", "RightDelim", Pos + 2) /\ "RightDelim" \in Types
    BY <1>4 DEF RightDelim, Runs, Types
  <2>2. Start = Pos /\ Spells(input, Pos, rightDelim)
    BY <1>1, <2>1 DEF Seam
  <2>3. Pos + 2 \in 0..n /\ Pos + 2 \in Nat /\ Start <= Pos + 2
    BY <1>1, <2>2 DEF Spells
  <2>4. Spelled(input, It("RightDelim", Start, Pos + 2))
    BY <1>1, <2>2, DelimSpelled DEF Spelled, It
  <2>5. ~Spells(input, Pos + 1, leftDelim)
    <3>1. rightDelim[2] = "}" /\ (Pos + 1) + 1 = Pos + 2
      BY <1>1 DEF rightDelim
    <3>2. input[(Pos + 1) + 1] # "{"
      BY <2>2, <3>1 DEF Spells
    <3> QED BY <3>2, NotSpelled, Zenon
  <2>6. Seam(input, isText, "LexTextNode", Pos + 2, Pos + 2)
    BY <1>1, <2>5 DEF Seam, TextSeam
  <2> QED BY <2>1, <2>3, <2>4, <2>6, EmitCovers
<1>5. CASE (LexURI /\ Start > Pos) \/ (LeftDelim /\ Start > Pos + 2)
  <2>1. \E pos \in {Pos, Pos + 2} : Becomes("panic", pos, Start, <<>>)
    BY <1>5 DEF LexURI, LeftDelim, EmitsBack
  <2> QED BY <2>1, PanicCovers
<1> QED BY <1>2, <1>3, <1>4, <1>5

\* Expressions in an action or in an attribute.
LEMMA ActionCovers ==
    ASSUME Inside, CoverInv, InsideAction
    PROVE  CoverInv'
<1> DEFINE n == Len(input)
           read == Next(Pos)
           r == read.r
           after == Pos + read.w
           atEnd == source.name = "LexTextNode" /\ HasPrefix(Pos, rightDelim)
           single == [c \in {"(", ")", "|"} |->
                        CASE c = "(" -> "LeftParen" [] c = ")" -> "RightParen" [] c = "|" -> "Pipe"]
           depth == ParenDepth' = ParenDepth + (CASE r = "(" -> 1 [] r = ")" -> -1 [] OTHER -> 0)
<1>0. \/ atEnd /\ ParenDepth > 0 /\ Errorf(Pos)
      \/ atEnd /\ ParenDepth <= 0 /\ Goes("RightDelim", Pos)
      \/ /\ r = EOF \/ IsEndOfLine(r)
         /\ IF source.name = "LexTextNode" THEN Errorf(after) ELSE Goes(source.name, after)
      \/ Goes("Space", after)
      \/ r \in Letter \cup {"!"} /\ Goes("Identifier", after)
      \/ Goes("EspraURI", after)
      \/ Goes("Number", Pos)
      \/ Emits("String", "OpenQuote", after)
      \/ /\ r \in {"(", ")", "|"}
         /\ Becomes("InsideAction", after, after, <<It(single[r], Start, after)>>)
         /\ depth
      \/ Errorf(after)
    BY DEF InsideAction
<1>1. /\ input \in Seq(Byte) /\ n \in Nat /\ Pos \in 0..n /\ Start \in 0..n /\ StateFn = "InsideAction"
      /\ Tiled(input, emitted, Start)
    BY Readable DEF CoverInv, Inside, InsideAction, Runs
<1>2. /\ Start <= Pos /\ (isText => Start = Pos) /\ (Start = Pos \/ input[Start + 1] = "\n")
    BY <1>1 DEF CoverInv, Seam
<1>3. after \in Pos..n /\ after \in Nat /\ Start <= after
    BY <1>1, <1>2, NextReads
<1>4. /\ r = EOF => after = Pos
      /\ r # EOF => Pos < after /\ (r \notin Kinds => r = input[Pos + 1] /\ after = Pos + 1)
                   /\ (r \in Kinds => input[Pos + 1] \in Lead)
  <2>1. Reads(Pos, read)
    BY <1>1, NextTells
  <2> HIDE DEF read
  <2>2. /\ read.w = 0 <=> r = EOF
        /\ read.w \in 0..4
        /\ read.w = 1 => r = input[Pos + 1] /\ r \notin Kinds
        /\ read.w > 1 => r \in Kinds /\ input[Pos + 1] \in Lead
    BY <2>1, NoBytes DEF Reads
  <2> HIDE DEF r
  <2> QED BY <1>1, <2>2
<1> HIDE DEF after, r, read, atEnd
<1>5. CASE \E pos : Errorf(pos)
    BY <1>5, ErrorCovers
<1>6. CASE atEnd /\ Goes("RightDelim", Pos)
  <2>1. isText /\ Spells(input, Pos, rightDelim)
    BY <1>1, <1>6, PrefixSpells DEF isText, atEnd
  <2>2. Seam(input, isText, "RightDelim", Pos, Start)
    BY <1>2, <2>1 DEF Seam
  <2> QED BY <1>6, <2>2, GoCovers
<1>7. CASE (r = EOF \/ IsEndOfLine(r)) /\ source.name # "LexTextNode" /\ Goes(source.name, after)
  <2>1. Start = after \/ input[Start + 1] = "\n"
    <3>1. CASE r = EOF
      <4>1. after = Pos
        BY <1>4, <3>1
      <4> QED BY <1>2, <4>1
    <3>2. CASE IsEndOfLine(r)
      <4>1. r = "\n" /\ r # EOF /\ r \notin Kinds
        BY <3>2 DEF IsEndOfLine, EOF, Kinds
      <4> QED BY <1>2, <1>4, <4>1
    <3> QED BY <1>7, <3>1, <3>2
  <2>2. source.name \in {"LexIfExpr", "LexForExpr"} /\ ~isText
    BY <1>7, SourceTyped DEF Inside, isText, Source
  <2>3. Seam(input, isText, source.name, after, Start)
    BY <1>3, <2>1, <2>2 DEF Seam
  <2> QED BY <1>7, <2>3, GoCovers
<1>8. CASE \E fn \in {"Space", "EspraURI"} : Goes(fn, after)
  <2>1. PICK fn \in {"Space", "EspraURI"} : Goes(fn, after)
    BY <1>8
  <2>2. Seam(input, isText, fn, after, Start)
    BY <1>3, PlainSeam DEF Plain
  <2> QED BY <2>1, <2>2, GoCovers
<1>9. CASE r \in Letter \cup {"!"} /\ Goes("Identifier", after)
  <2>1. r # EOF
    BY <1>9 DEF EOF, Letter
  <2>2. Start < after
    BY <1>1, <1>2, <1>3, <1>4, <2>1
  <2>3. input[Start + 1] = "!" => after = Start + 1
    <3>1. CASE Start = Pos
      <4>1. input[Pos + 1] = "!" => r \notin Kinds
        BY <1>4, <2>1 DEF Lead
      <4> QED BY <1>4, <2>1, <3>1, <4>1
    <3>2. CASE Start # Pos
      BY <1>2, <3>2
    <3> QED BY <3>1, <3>2
  <2>4. Seam(input, isText, "Identifier", after, Start)
    BY <2>2, <2>3, <1>3 DEF Seam
  <2> QED BY <1>9, <2>4, GoCovers
<1>10. CASE Goes("Number", Pos)
  <2>1. Seam(input, isText, "Number", Pos, Start)
    BY <1>2, PlainSeam DEF Plain
  <2> QED BY <1>10, <2>1, GoCovers
<1>11. CASE Emits("String", "OpenQuote", after)
  <2>1. "OpenQuote" \in Types \ {"LeftDelim", "RightDelim", "Text"}
    BY DEF Types
  <2>2. Seam(input, isText, "String", after, after)
    BY <1>3, InnerSeam DEF Plain
  <2>3. after \in 0..n
    BY <1>3
  <2> QED BY <1>3, <1>11, <2>1, <2>2, <2>3, OtherSpelled, EmitCovers
<1>12. CASE \E t \in {"LeftParen", "RightParen", "Pipe"} :
               Becomes("InsideAction", after, after, <<It(t, Start, after)>>)
  <2>1. PICK t \in {"LeftParen", "RightParen", "Pipe"} :
               Becomes("InsideAction", after, after, <<It(t, Start, after)>>)
    BY <1>12
  <2>2. t \in Types \ {"LeftDelim", "RightDelim", "Text"}
    BY DEF Types
  <2>3. \A b \in (Start..Start - 1) \cup (after..after - 1) : input[b + 1] \in {"!", ":"}
    BY <1>1, <1>3
  <2>4. Start \in Nat /\ Start <= Start /\ after <= after /\ t \in Types
    BY <1>1, <1>3, <2>2
  <2>5. Tiled(input, emitted \o <<It(t, Start, after)>>, after)
    BY <1>1, <1>3, <2>2, <2>3, <2>4, OtherSpelled, TileOne
  <2>6. Seam(input, isText, "InsideAction", after, after)
    BY <1>3, InnerSeam
  <2> QED BY <2>1, <2>5, <2>6, BecomesCovers
<1> QED
  <2>2. r \in {"(", ")", "|"} => single[r] \in {"LeftParen", "RightParen", "Pipe"}
    OBVIOUS
  <2> HIDE DEF single, depth
  <2> QED BY <1>0, <1>5, <1>6, <1>7, <1>8, <1>9, <1>10, <1>11, <1>12, <2>2

\* The end of the input is no space, no digit and in no word.
LEMMA NoEnd == EOF \notin {" "} /\ EOF \notin Decimal /\ EOF \notin ValidIdentifierChar
<1>1. EOF \notin {" "}
    BY DEF EOF
<1>2. EOF \notin Decimal
    BY DEF EOF, Decimal
<1>3. EOF \notin ValidIdentifierChar
    BY DEF EOF, ValidIdentifierChar, Letter, Digit, Decimal
<1> QED BY <1>1, <1>2, <1>3

\* Where spaces, words and digits end.
LEMMA RunsEnd ==
    ASSUME input \in Seq(Byte), NEW p \in 0..Len(input), NEW S, EOF \notin S
    PROVE  RunEnd(p, S) \in 0..Len(input) /\ p <= RunEnd(p, S)
<1> DEFINE q == RunEnd(p, S)
<1>1. q \in p..Len(input) /\ Len(input) \in Nat
    BY RunEndInside
<1> HIDE DEF q
<1>2. q \in 0..Len(input) /\ p <= q
    BY <1>1
<1> QED BY <1>2 DEF q

\* Two items added one after the other.
LEMMA OneByOne ==
    ASSUME NEW S, NEW s \in Seq(S), NEW x \in S, NEW y \in S
    PROVE  (s \o <<x>>) \o <<y>> = s \o <<x, y>>
<1> DEFINE a == <<x>>
           b == <<y>>
           c == <<x, y>>
           d == a \o b
<1>1. a \in Seq(S) /\ Len(a) = 1 /\ a[1] = x
    OBVIOUS
<1>2. b \in Seq(S) /\ Len(b) = 1 /\ b[1] = y
    OBVIOUS
<1>3. c \in Seq(S) /\ Len(c) = 2 /\ c[1] = x /\ c[2] = y
    OBVIOUS
<1> HIDE DEF a, b, c
<1>4. d \in Seq(S) /\ Len(d) = 2 /\ d[1] = x /\ d[2] = y
  <2>1. /\ d \in Seq(S) /\ Len(d) = Len(a) + Len(b)
        /\ \A i \in 1..Len(a) + Len(b) : d[i] = IF i <= Len(a) THEN a[i] ELSE b[i - Len(a)]
    BY <1>1, <1>2, ConcatProperties
  <2> HIDE DEF d
  <2>2. Len(a) + Len(b) = 2 /\ 2 - Len(a) = 1
    BY <1>1, <1>2
  <2>3. d[1] = a[1]
    BY <1>1, <2>1, <2>2
  <2>4. d[2] = b[1]
    BY <1>1, <2>1, <2>2
  <2> QED BY <1>1, <1>2, <2>1, <2>2, <2>3, <2>4, Zenon
<1> HIDE DEF d
<1>5. \A i \in 1..2 : d[i] = c[i]
  <2>1. \A i \in 1..2 : i = 1 \/ i = 2
    OBVIOUS
  <2> QED BY <1>3, <1>4, <2>1
<1>6. d = c
    BY <1>3, <1>4, <1>5, SeqEqual
<1>7. (s \o a) \o b = s \o d
    BY <1>1, <1>2, ConcatAssociative, SMTT(30) DEF d
<1>8. (s \o a) \o b = s \o c
    BY <1>6, <1>7, Zenon
<1> QED BY <1>8 DEF a, b, c

\* A call inside an expression or an attribute that emits what it read.
LEMMA InnerCovers ==
    ASSUME Inside, CoverInv, NEW fn \in Plain \cup {"InsideAction", "LexIfExpr", "LexForExpr"},
           NEW t \in Types \ {"LeftDelim", "RightDelim", "Text"}, NEW pos \in 0..Len(input), Start <= pos,
           Emits(fn, t, pos)
    PROVE  CoverInv'
<1>1. pos \in Nat /\ t \in Types
    BY Readable
<1>2. Spelled(input, It(t, Start, pos)) /\ Seam(input, isText, fn, pos, pos)
    BY <1>1, OtherSpelled, InnerSeam
<1> QED BY <1>1, <1>2, EmitCovers

\* What follows a run of runes: spaces, links to Espra, numbers, loop variables
\* and the ends of attributes.
LEMMA RunCovers ==
    ASSUME Inside, CoverInv, Space \/ EspraURI \/ Number \/ LexIfExpr \/ LexForExpr \/ LoopIdentifier
    PROVE  CoverInv'
<1> DEFINE n == Len(input)
           after == Pos + Next(Pos).w
           from == IF Peek(Pos) = "-" THEN Pos + 1 ELSE Pos
           digits == RunEnd(from, Decimal)
           numeral == IF Peek(digits) = "i" THEN digits + 1 ELSE digits
           spaces == RunEnd(Pos, {" "})
           blanks == RunEnd(after, {" "})
           word == RunEnd(Pos, ValidIdentifierChar)
<1>1. /\ input \in Seq(Byte) /\ n \in Nat /\ Pos \in 0..n /\ Start \in 0..n
      /\ Seam(input, isText, StateFn, Pos, Start)
    BY Readable DEF CoverInv, Inside
<1>2. {"Space", "EspraURI", "Number", "Identifier", "In", "EOF"} \subseteq Types \ {"LeftDelim", "RightDelim", "Text"}
    BY DEF Types
<1>3. StateFn \in {"Space", "EspraURI", "Number", "LexIfExpr", "LexForExpr", "LoopIdentifier"}
    BY DEF Space, EspraURI, Number, LexIfExpr, LexForExpr, LoopIdentifier, Runs
<1>4. Start <= Pos
    BY <1>1, <1>3 DEF Seam
<1>5. after \in 0..n /\ Pos <= after
    BY <1>1, NextReads
<1>6. from \in 0..n /\ Pos <= from
    BY <1>1, NextReads DEF EOF
<1> HIDE DEF after, from
<1>7. spaces \in 0..n /\ Pos <= spaces /\ word \in 0..n /\ Pos <= word
    BY <1>1, RunsEnd, NoEnd
<1>8. blanks \in 0..n /\ after <= blanks
    BY <1>1, <1>5, RunsEnd, NoEnd
<1>9. numeral \in 0..n /\ from <= numeral
  <2>1. digits \in 0..n /\ from <= digits
    BY <1>1, <1>6, RunsEnd, NoEnd
  <2> HIDE DEF digits
  <2>2. Peek(digits) = "i" => digits + 1 \in 0..n
    BY <1>1, <2>1, NextReads DEF EOF
  <2> QED BY <1>1, <1>6, <2>1, <2>2
<1>a. \/ Space /\ Emits("InsideAction", "Space", spaces)
      \/ EspraURI /\ Emits("InsideAction", "EspraURI", Pos)
      \/ Number /\ ((\E pos : Errorf(pos)) \/ Emits("InsideAction", "Number", numeral))
      \/ LexIfExpr /\ (Emits("ended", "EOF", Pos) \/ Goes("InsideAction", Pos))
      \/ LexForExpr /\ \/ Emits("ended", "EOF", Pos)
                       \/ HasPrefix(Pos, <<"i", "n">>) /\ Emits("InsideAction", "In", Pos + 2)
                       \/ Emits("LexForExpr", "Space", blanks)
                       \/ Goes("LoopIdentifier", after)
                       \/ Errorf(after)
      \/ LoopIdentifier /\ Emits("LexForExpr", "Identifier", word)
    BY DEF Space, EspraURI, Number, LexIfExpr, LexForExpr, LoopIdentifier, after, from
<1> HIDE DEF spaces, blanks, digits, numeral, word
<1>b. CASE \/ Emits("InsideAction", "Space", spaces) \/ Emits("InsideAction", "EspraURI", Pos)
           \/ Emits("InsideAction", "Number", numeral) \/ Emits("ended", "EOF", Pos)
           \/ Emits("LexForExpr", "Space", blanks) \/ Emits("LexForExpr", "Identifier", word)
  <2>1. \E fn \in Plain \cup {"InsideAction", "LexIfExpr", "LexForExpr"} :
        \E t \in Types \ {"LeftDelim", "RightDelim", "Text"} : \E pos \in {spaces, Pos, numeral, blanks, word} :
            Emits(fn, t, pos)
    BY <1>2, <1>b DEF Plain
  <2>2. \A pos \in {spaces, Pos, numeral, blanks, word} : pos \in 0..n /\ Start <= pos
    BY <1>1, <1>4, <1>5, <1>6, <1>7, <1>8, <1>9
  <2> QED BY <2>1, <2>2, InnerCovers
<1>c. CASE HasPrefix(Pos, <<"i", "n">>) /\ Emits("InsideAction", "In", Pos + 2)
  <2>1. Len(<<"i", "n">>) = 2
    OBVIOUS
  <2>2. Pos + 2 <= n
    BY <1>1, <1>c, <2>1, PrefixInside
  <2>3. Pos + 2 \in 0..n /\ Start <= Pos + 2
    BY <1>1, <1>4, <2>2
  <2> QED BY <1>2, <1>c, <2>3, InnerCovers
<1>d. CASE (\E pos : Errorf(pos)) \/ Errorf(after)
    BY <1>d, ErrorCovers
<1>e. CASE LexIfExpr /\ Goes("InsideAction", Pos)
  <2>1. StateFn = "LexIfExpr" /\ ~isText
    BY <1>e DEF LexIfExpr, Runs, Inside, Home, Within, isText
  <2>2. Seam(input, isText, "InsideAction", Pos, Start)
    BY <1>1, <1>4, <2>1 DEF Seam
  <2> QED BY <1>e, <2>2, GoCovers
<1>f. CASE Goes("LoopIdentifier", after)
  <2>1. Start <= after
    BY <1>1, <1>4, <1>5
  <2>2. Seam(input, isText, "LoopIdentifier", after, Start)
    BY <2>1, PlainSeam DEF Plain
  <2> QED BY <1>f, <2>2, GoCovers
<1> QED BY <1>a, <1>b, <1>c, <1>d, <1>e, <1>f

\* Identifiers, builtins and keywords: the bytes between the items are the "!"
\* and the ":".
LEMMA IdentifierCovers ==
    ASSUME Inside, CoverInv, Identifier
    PROVE  CoverInv'
<1> DEFINE n == Len(input)
           bang == input[Start + 1] = "!"
           start == IF bang THEN Pos ELSE Start
           end == RunEnd(Pos, ValidIdentifierChar)
           key == Peek(end) = ":"
           t == CASE key -> "ArgKey" [] bang /\ ~key -> "Builtin" [] OTHER -> "Identifier"
           next == IF key THEN end + 1 ELSE end
<1>1. /\ input \in Seq(Byte) /\ n \in Nat /\ Pos \in 0..n /\ Start \in 0..n
      /\ Seam(input, isText, StateFn, Pos, Start) /\ Tiled(input, emitted, Start)
    BY Readable DEF CoverInv, Inside
<1>2. StateFn = "Identifier"
    BY DEF Identifier, Runs
<1>3. Start < Pos /\ (bang => Pos = Start + 1)
    BY <1>1, <1>2 DEF Seam
<1>4. Becomes("InsideAction", next, next, <<It(t, start, end)>>)
    BY DEF Identifier
<1>5. end \in 0..n /\ Pos <= end
    BY <1>1, RunsEnd, NoEnd
<1>6. t \in Types \ {"LeftDelim", "RightDelim", "Text"}
    BY DEF Types
<1>7. key => end < n /\ input[end + 1] = ":"
  <2> DEFINE read == Next(end)
  <2>1. Reads(end, read) /\ Peek(end) = read.r
    BY <1>1, <1>5, NextTells DEF Peek
  <2> HIDE DEF end, read
  <2>2. key => read.w = 1
    BY <2>1 DEF Reads, EOF, Kinds
  <2> QED BY <1>1, <1>5, <2>1, <2>2 DEF Reads
<1> HIDE DEF t, end, key
<1>8. start \in Nat /\ Start <= start /\ start <= end /\ next \in 0..n /\ end <= next /\ end \in Nat /\ next \in Nat
    BY <1>1, <1>3, <1>5, <1>7
<1>9. \A b \in (Start..start - 1) \cup (end..next - 1) : input[b + 1] \in {"!", ":"}
  <2>1. ASSUME NEW b \in Start..start - 1 PROVE input[b + 1] = "!"
    BY <1>1, <1>3, <2>1
  <2>2. ASSUME NEW b \in end..next - 1 PROVE input[b + 1] = ":"
    BY <1>1, <1>5, <1>7, <2>2
  <2> QED BY <2>1, <2>2
<1> HIDE DEF start, next
<1>a. Tiled(input, emitted \o <<It(t, start, end)>>, next)
  <2>1. Spelled(input, It(t, start, end)) /\ t \in Types /\ Start \in Nat
    BY <1>1, <1>6, OtherSpelled
  <2> QED BY <1>1, <1>8, <1>9, <2>1, TileOne
<1>b. Seam(input, isText, "InsideAction", next, next)
    BY <1>8, InnerSeam
<1> QED BY <1>4, <1>a, <1>b, BecomesCovers

\* A turn over a string, which ends with two items.
LEMMA StringCovers ==
    ASSUME Inside, CoverInv, String
    PROVE  CoverInv'
<1> DEFINE n == Len(input)
           after == Pos + Next(Pos).w
           over == after + Next(after).w
           x == It("String", Start, Pos)
           y == It("CloseQuote", Pos, after)
<1>1. /\ input \in Seq(Byte) /\ n \in Nat /\ Pos \in 0..n /\ Start \in 0..n
      /\ Seam(input, isText, StateFn, Pos, Start) /\ Tiled(input, emitted, Start)
    BY Readable DEF CoverInv, Inside
<1>2. StateFn = "String" /\ Start <= Pos
    BY <1>1 DEF String, Runs, Seam
<1>3. after \in 0..n /\ Pos <= after
    BY <1>1, NextReads
<1>4. over \in 0..n /\ after <= over
    BY <1>1, <1>3, NextReads
<1>5. \/ Goes("String", over) \/ Errorf(after) \/ Goes("String", after)
      \/ Becomes("InsideAction", after, after, <<x, y>>)
    BY DEF String
<1> HIDE DEF after, over, x, y
<1>6. CASE Goes("String", over) \/ Goes("String", after)
  <2>1. Start <= over /\ Start <= after
    BY <1>1, <1>2, <1>3, <1>4
  <2>2. Seam(input, isText, "String", over, Start) /\ Seam(input, isText, "String", after, Start)
    BY <2>1, PlainSeam DEF Plain
  <2> QED BY <1>6, <2>2, GoCovers
<1>7. CASE Errorf(after)
    BY <1>7, ErrorCovers
<1>8. CASE Becomes("InsideAction", after, after, <<x, y>>)
  <2>1. /\ "String" \in Types \ {"LeftDelim", "RightDelim", "Text"}
        /\ "CloseQuote" \in Types \ {"LeftDelim", "RightDelim", "Text"}
        /\ Start \in Nat /\ Pos \in Nat /\ after \in Nat
    BY <1>1, <1>3 DEF Types
  <2>2. /\ \A b \in (Start..Start - 1) \cup (Pos..Pos - 1) : input[b + 1] \in {"!", ":"}
        /\ \A b \in (Pos..Pos - 1) \cup (after..after - 1) : input[b + 1] \in {"!", ":"}
    BY <2>1
  <2>3. Spelled(input, x) /\ Spelled(input, y)
    BY <2>1, OtherSpelled DEF x, y
  <2>4. Tiled(input, emitted \o <<x>>, Pos)
    BY <1>1, <1>2, <2>1, <2>2, <2>3, TileOne DEF x
  <2>5. Tiled(input, (emitted \o <<x>>) \o <<y>>, after)
    BY <1>3, <2>1, <2>2, <2>3, <2>4, TileOne DEF y
  <2>6. (emitted \o <<x>>) \o <<y>> = emitted \o <<x, y>>
    <3>1. emitted \in Seq(Item) /\ x \in Item /\ y \in Item
      BY <2>1, ItemTyped DEF Inside, x, y
    <3> QED BY <3>1, OneByOne
  <2>7. Seam(input, isText, "InsideAction", after, after)
    BY <2>1, InnerSeam
  <2> QED BY <1>8, <2>5, <2>6, <2>7, BecomesCovers
<1> QED BY <1>5, <1>6, <1>7, <1>8

\* A word ends before a blank, or one byte before the end of the input.
LEMMA WordEnds ==
    ASSUME input \in Seq(Byte), NEW p \in 0..Len(input), p < Len(input)
    PROVE  /\ WordEnd(p) \in 0..Len(input) /\ p <= WordEnd(p)
           /\ WordEnd(p) + 1 < Len(input) => input[WordEnd(p) + 1] \in Blank
<1> DEFINE blanks == {q \in p..Len(input) - 1 : IsSpace(input[q + 1]) \/ IsEndOfLine(input[q + 1])}
<1>1. CASE blanks = {}
  <2>1. WordEnd(p) = Len(input) - 1
    BY <1>1 DEF WordEnd
  <2> QED BY <2>1
<1>2. CASE blanks # {}
  <2>1. blanks \subseteq Nat
    OBVIOUS
  <2>2. Min(blanks) \in blanks
    <3> HIDE DEF blanks
    <3>1. PICK q \in blanks : \A e \in blanks : q <= e
      BY <1>2, <2>1, LeastOf
    <3> QED BY <3>1 DEF Min
  <2>3. WordEnd(p) = Min(blanks)
    BY <1>2 DEF WordEnd
  <2> DEFINE q == WordEnd(p)
  <2>4. q \in blanks
    BY <2>2, <2>3
  <2> HIDE DEF q
  <2>5. q \in p..Len(input) - 1 /\ input[q + 1] \in Blank
    BY <2>4 DEF IsSpace, IsEndOfLine, Blank
  <2>6. q \in 0..Len(input) /\ p <= q
    BY <2>5
  <2> QED BY <2>5, <2>6 DEF q
<1> QED BY <1>1, <1>2

\* What a turn over text without longer characters has read and peeked at, in
\* numbers.  after: behind the
\* rune read; back: where the second Backup leaves it; start: the item begun.
Turn(after, back, start) ==
    \E rw, pw \in 0..2 : \E cut \in BOOLEAN :
        /\ after = Pos + rw /\ back = after - pw
        /\ after <= Len(input) /\ after + pw <= Len(input)
        /\ rw = 0 => Pos = Len(input)
        /\ pw = 0 => after = Len(input)
        /\ rw = 2 => input[Pos + 1] \in Lead /\ input[Pos + 2] = Trail
        /\ cut => rw = 1 /\ pw > 0 /\ input[Pos + 1] \in Blank
        /\ start = IF cut THEN after ELSE Start

\* The item it has begun begins behind the last one, and not behind what was read.
LEMMA TurnStarts ==
    ASSUME Inside, Short(input), TextSeam(input, Pos, Start), NEW after, NEW back, NEW start, Turn(after, back, start)
    PROVE  /\ after \in 0..Len(input) /\ back \in Int /\ back <= after
           /\ start \in 0..Len(input) /\ Start <= start /\ start <= after
           /\ start - 2 <= back
           /\ back = start - 2 => input[start] \in Blank
<1> DEFINE n == Len(input)
<1>1. input \in Seq(Byte) /\ n \in Nat /\ Pos \in 0..n /\ Start \in 0..n
    BY Readable DEF Inside
<1>2. PICK rw \in 0..2, pw \in 0..2 : \E cut \in BOOLEAN :
        /\ after = Pos + rw /\ back = after - pw
        /\ after <= n /\ after + pw <= n
        /\ rw = 0 => Pos = n
        /\ pw = 0 => after = n
        /\ rw = 2 => input[Pos + 1] \in Lead /\ input[Pos + 2] = Trail
        /\ cut => rw = 1 /\ pw > 0 /\ input[Pos + 1] \in Blank
        /\ start = IF cut THEN after ELSE Start
    BY DEF Turn
<1>3. after \in 0..n /\ back \in Int /\ back <= after
    BY <1>1, <1>2
<1>4. Start - 1 <= Pos
    BY DEF TextSeam
<1>5. Start <= after
    BY <1>1, <1>2, <1>4
<1>6. start \in 0..n /\ Start <= start /\ start <= after /\ start - 2 <= back
    BY <1>1, <1>2, <1>3, <1>5
<1>7. ASSUME back = start - 2 PROVE input[start] \in Blank
  <2>1. after = start /\ pw = 2
    BY <1>1, <1>2, <1>6, <1>7
  <2>2. CASE start = Pos + 1
    <3>1. Start <= Pos => start # Start
      BY <1>1, <2>2
    <3>2. start = Start => Pos < Start
      BY <1>1, <2>2
    <3>3. start = Start => input[start] \in Blank
      BY <3>2, Zenon DEF TextSeam
    <3>4. start # Start => input[Pos + 1] \in Blank
      BY <1>2
    <3> QED BY <2>2, <3>3, <3>4, Zenon
  <2>3. CASE start # Pos + 1
    <3>1. rw = 0 \/ rw = 2
      BY <1>1, <1>2, <2>1, <2>3
    <3>2. rw # 0
      BY <1>1, <1>2, <2>1
    <3>3. rw = 2 /\ start = Start /\ Pos = Start - 2
      BY <1>1, <1>2, <2>1, <3>1, <3>2
    <3> QED BY <1>1, <1>4, <3>3
  <2> QED BY <2>2, <2>3
<1> QED BY <1>3, <1>6, <1>7

\* No delimiter begins between the start of the item and the place the scanner
\* has gone back to, nor before the item if that place is.
LEMMA TurnSees ==
    ASSUME Inside, Short(input), TextSeam(input, Pos, Start), NEW after, NEW back, NEW start, Turn(after, back, start)
    PROVE  /\ \A b \in start..back - 1 : ~Spells(input, b, leftDelim)
           /\ back \in 0..start - 1 => ~Spells(input, back, leftDelim)
           /\ start > 0 /\ start + 1 < Len(input) => ~Spells(input, start - 1, leftDelim)
<1> DEFINE n == Len(input)
<1>1. input \in Seq(Byte) /\ n \in Nat /\ Pos \in 0..n /\ Start \in 0..n
    BY Readable DEF Inside
<1>2. PICK rw \in 0..2, pw \in 0..2 : \E cut \in BOOLEAN :
        /\ after = Pos + rw /\ back = after - pw
        /\ after <= n /\ after + pw <= n
        /\ rw = 0 => Pos = n
        /\ pw = 0 => after = n
        /\ rw = 2 => input[Pos + 1] \in Lead /\ input[Pos + 2] = Trail
        /\ cut => rw = 1 /\ pw > 0 /\ input[Pos + 1] \in Blank
        /\ start = IF cut THEN after ELSE Start
    BY DEF Turn
<1>3. PICK cut \in BOOLEAN :
        /\ cut => rw = 1 /\ pw > 0 /\ input[Pos + 1] \in Blank
        /\ start = IF cut THEN after ELSE Start
    BY <1>2
<1>4. /\ after = Pos + rw /\ back = after - pw
      /\ after <= n /\ after + pw <= n
      /\ rw = 0 => Pos = n
      /\ pw = 0 => after = n
      /\ rw = 2 => input[Pos + 1] \in Lead /\ input[Pos + 2] = Trail
    BY <1>2
<1>5. /\ Start - 1 <= Pos
      /\ Pos < Start => input[Start] \in Blank
      /\ \A b \in Start..Pos - 1 : ~Spells(input, b, leftDelim)
      /\ Start > 0 /\ Start + 1 < n => ~Spells(input, Start - 1, leftDelim)
    BY DEF TextSeam
<1>6. "{" \notin Blank /\ "{" \notin Lead /\ Trail # "{"
    BY DEF Blank, Lead, Trail
<1>7. ASSUME NEW b \in start..back - 1 PROVE ~Spells(input, b, leftDelim)
  <2>1. ~cut
    BY <1>1, <1>3, <1>4, <1>7
  <2>2. start = Start /\ b \in Int
    BY <1>1, <1>3, <2>1
  <2>3. CASE b < Pos
    BY <1>1, <1>5, <1>7, <2>2, <2>3
  <2>4. CASE b >= Pos /\ rw = 1
    <3>1. b + 2 > n
      BY <1>1, <1>4, <1>7, <2>2, <2>4
    <3> QED BY <1>1, <2>2, <3>1 DEF Spells
  <2>5. CASE b >= Pos /\ rw = 2
    <3>1. b + 1 = Pos + 1 \/ b + 1 = Pos + 2
      BY <1>1, <1>4, <1>7, <2>2, <2>5
    <3>2. input[b + 1] # "{"
      BY <1>4, <1>6, <2>5, <3>1, Zenon
    <3> QED BY <3>2, NotSpelled, Zenon
  <2>6. b >= Pos => rw # 0
    BY <1>1, <1>4, <1>7, <2>2
  <2> QED BY <1>1, <2>2, <2>3, <2>4, <2>5, <2>6
<1>8. ASSUME back \in 0..start - 1 PROVE ~Spells(input, back, leftDelim)
  <2>1. CASE cut
    <3>1. after = Pos + 1 /\ (back + 1 = after \/ back + 2 = after)
      BY <1>1, <1>3, <1>4, <2>1
    <3>2. input[after] # "{"
      BY <1>3, <1>6, <2>1, <3>1, Zenon
    <3> QED BY <3>1, <3>2, NotSpelled, Zenon
  <2>2. CASE ~cut /\ Pos < Start
    <3>1. input[Start] # "{"
      BY <1>5, <1>6, <2>2, Zenon
    <3>2. Pos + 1 = Start /\ start = Start
      BY <1>1, <1>3, <1>5, <2>2
    <3>3. back + 1 = Start \/ back + 2 = Start
      <4>1. after = Start + rw - 1 /\ rw # 0
        BY <1>1, <1>4, <3>2
      <4>2. rw # 2
        <5>1. rw = 2 => input[Start] \in Lead
          BY <1>4, <3>2, Zenon
        <5> QED BY <1>5, <2>2, <5>1 DEF Blank, Lead
      <4>3. after = Start
        BY <1>1, <4>1, <4>2
      <4> QED BY <1>1, <1>4, <1>8, <3>2, <4>3
    <3> QED BY <3>1, <3>3, NotSpelled, Zenon
  <2>3. CASE ~cut /\ Start <= Pos
    <3>1. start = Start /\ rw = 1 /\ pw = 2 /\ Pos = Start
      BY <1>1, <1>3, <1>4, <1>8, <2>3
    <3>2. back = Start - 1 /\ Start > 0 /\ Start + 1 < n
      BY <1>1, <1>4, <1>8, <3>1
    <3> QED BY <1>5, <3>2
  <2> QED BY <1>1, <2>1, <2>2, <2>3
<1>9. ASSUME start > 0, start + 1 < n PROVE ~Spells(input, start - 1, leftDelim)
  <2>1. CASE cut
    <3>1. (start - 1) + 1 = Pos + 1
      BY <1>1, <1>3, <1>4, <2>1
    <3>2. input[Pos + 1] # "{"
      BY <1>3, <1>6, <2>1, Zenon
    <3> QED BY <3>1, <3>2, NotSpelled, Zenon
  <2>2. CASE ~cut
    BY <1>3, <1>5, <1>9, <2>2
  <2> QED BY <2>1, <2>2
<1> QED BY <1>7, <1>8, <1>9

\* An item of text, if there is any.
TextOf(a, b) == IF b > a THEN <<It("Text", a, b)>> ELSE <<>>

\* Text in which no delimiter begins.
LEMMA TextTiled ==
    ASSUME input \in Seq(Byte), NEW a \in 0..Len(input), NEW b \in 0..Len(input), a <= b,
           NEW es, Tiled(input, es, a),
           Short(input) => \A k \in a..b - 2 : ~Spells(input, k, leftDelim)
    PROVE  /\ Tiled(input, es \o <<It("Text", a, b)>>, b)
           /\ Tiled(input, es \o TextOf(a, b), b)
<1>1. /\ a \in Nat /\ b \in Nat /\ "Text" \in Types
      /\ \A k \in (a..a - 1) \cup (b..b - 1) : input[k + 1] \in {"!", ":"}
    BY DEF Types
<1>2. Spelled(input, It("Text", a, b))
    BY TextSpelled
<1>3. Tiled(input, es \o <<It("Text", a, b)>>, b)
    BY <1>1, <1>2, TileOne
<1>4. CASE b > a
    BY <1>3, <1>4 DEF TextOf
<1>5. CASE b = a
  <2>1. TextOf(a, b) = <<>>
    BY <1>5 DEF TextOf
  <2> QED BY <1>3, <1>5, <2>1, TileNone
<1> QED BY <1>1, <1>3, <1>4, <1>5

\* Where a turn goes on, the seam is kept.
LEMMA TurnSeams ==
    ASSUME Inside, Short(input), TextSeam(input, Pos, Start), NEW after, NEW back, NEW start, Turn(after, back, start),
           back \in 0..Len(input), back # Len(input), ~Spells(input, back, leftDelim)
    PROVE  /\ back + Next(back).w \in 0..Len(input)
           /\ TextSeam(input, back + Next(back).w, start)
<1> DEFINE n == Len(input)
           w == Next(back).w
           pos == back + w
<1>1. /\ input \in Seq(Byte) /\ n \in Nat /\ back \in 0..n /\ start \in 0..n
      /\ start - 2 <= back /\ (back = start - 2 => input[start] \in Blank)
    BY Readable, TurnStarts
<1>2. w \in 1..2 /\ (w = 2 => input[back + 2] = Trail) /\ pos \in 0..n
  <2>1. Reads(back, Next(back))
    BY <1>1, NextTells
  <2>2. w \in 0..2 /\ (w = 2 => input[back + 2] = Trail)
    BY <1>1, <2>1, ShortReads
  <2> HIDE DEF w
  <2>3. (w = 0 <=> back = n) /\ back + w \in back..n
    BY <2>1 DEF Reads, w
  <2> QED BY <1>1, <2>2, <2>3
<1> HIDE DEF w
<1>3. start - 1 <= pos
    BY <1>1, <1>2
<1>4. pos < start => back = start - 2
    BY <1>1, <1>2
<1>5. ASSUME NEW b \in start..pos - 1 PROVE ~Spells(input, b, leftDelim)
  <2>1. b \in start..back - 1 \/ b = back \/ (b = back + 1 /\ w = 2)
    BY <1>1, <1>2, <1>5
  <2>2. CASE b \in start..back - 1
    BY <2>2, TurnSees
  <2>3. CASE b = back
    BY <2>3
  <2>4. CASE b = back + 1 /\ w = 2
    <3>1. b + 1 = back + 2
      BY <1>1, <2>4
    <3>2. input[b + 1] # "{"
      BY <1>2, <2>4, <3>1 DEF Trail
    <3> QED BY <3>2, NotSpelled, Zenon
  <2> QED BY <2>1, <2>2, <2>3, <2>4
<1>6. start > 0 /\ start + 1 < n => ~Spells(input, start - 1, leftDelim)
    BY TurnSees
<1>7. TextSeam(input, pos, start)
    BY <1>1, <1>3, <1>4, <1>5, <1>6 DEF TextSeam
<1> QED BY <1>2, <1>7 DEF w

\* A turn of the loop over text.
LEMMA TextCovers ==
    ASSUME Inside, CoverInv, LexTextNode
    PROVE  CoverInv'
<1> DEFINE n == Len(input)
           read == Next(Pos)
           after == Pos + read.w
           peeked == Next(after)
           inWord == IsAlphaNumeric(peeked.r)
           cut == inWord /\ (IsSpace(read.r) \/ IsEndOfLine(read.r))
           texts == IF cut THEN <<It("Text", Start, after)>> ELSE <<>>
           start == IF cut THEN after ELSE Start
           back == after - peeked.w
           rest == TextOf(start, back)
           last == <<It("EOF", back, back)>>
           end == WordEnd(after)
<1>1. /\ input \in Seq(Byte) /\ n \in Nat /\ Pos \in 0..n /\ Start \in 0..n /\ emitted \in Seq(Item)
      /\ Tiled(input, emitted, Start) /\ TextSeam(input, Pos, Start)
    BY Readable DEF CoverInv, Inside, Seam, LexTextNode, Runs
<1>2. \/ Becomes("panic", Pos, Start, <<>>)
      \/ /\ ~(cut /\ after < Start)
         /\ \/ Becomes("panic", Pos, start, texts)
            \/ inWord /\ Becomes("LexURI", end, start, texts)
            \/ /\ ~(back < 0) /\ HasPrefix(back, leftDelim)
               /\ Becomes("LeftDelim", back, IF back > start THEN back ELSE start, texts \o rest)
            \/ /\ ~(back < 0) /\ Peek(back) = EOF
               /\ Becomes("ended", back, back, (texts \o rest) \o last)
            \/ /\ ~(back < 0) /\ ~HasPrefix(back, leftDelim) /\ Peek(back) # EOF
               /\ Becomes("LexTextNode", back + Next(back).w, start, texts)
    BY DEF LexTextNode, TextOf
<1>3. after \in 0..n
    BY <1>1, NextReads
<1>4. Reads(Pos, read) /\ Reads(after, peeked)
    BY <1>1, <1>3, NextTells
<1>5. (cut => read.w = 1 /\ input[Pos + 1] \in Blank) /\ (inWord => peeked.w # 0)
  <2> HIDE DEF read, peeked, after
  <2>1. inWord => peeked.r # EOF
    BY DEF IsAlphaNumeric, EOF, Letter, Digit, Decimal
  <2>2. cut => read.r \in Blank /\ read.r # EOF /\ read.r \notin Kinds
    BY DEF IsSpace, IsEndOfLine, Blank, EOF, Kinds
  <2> QED BY <1>4, <2>1, <2>2 DEF Reads
<1>6. ASSUME Short(input) PROVE Turn(after, back, start)
  <2> DEFINE rw == read.w
             pw == peeked.w
             c == IF cut THEN TRUE ELSE FALSE
  <2>1. /\ rw \in 0..2 /\ pw \in 0..2 /\ c \in BOOLEAN
        /\ after = Pos + rw /\ back = after - pw
        /\ after <= n /\ after + pw <= n
        /\ rw = 0 => Pos = n
        /\ pw = 0 => after = n
        /\ rw = 2 => input[Pos + 1] \in Lead /\ input[Pos + 2] = Trail
    <3> HIDE DEF read, peeked
    <3>1. /\ rw \in 0..2 /\ pw \in 0..2 /\ after + pw \in after..n
          /\ rw = 0 => Pos = n
          /\ pw = 0 => after = n
          /\ rw = 2 => input[Pos + 1] \in Lead /\ input[Pos + 2] = Trail
      <4>1. /\ rw \in 0..2 /\ pw \in 0..2
            /\ rw = 2 => input[Pos + 1] \in Lead /\ input[Pos + 2] = Trail
        BY <1>1, <1>3, <1>4, <1>6, ShortReads
      <4> QED BY <1>4, <4>1 DEF Reads
    <3> QED BY <1>1, <1>3, <3>1
  <2>2. /\ c => rw = 1 /\ pw > 0 /\ input[Pos + 1] \in Blank
        /\ start = IF c THEN after ELSE Start
    <3> HIDE DEF read, peeked, after, inWord
    <3> QED BY <1>5, <2>1
  <2> HIDE DEF rw, pw, c, after, back, start
  <2> QED BY <2>1, <2>2 DEF Turn
<1>7. /\ back \in Int /\ back <= after
      /\ start \in 0..n /\ (cut => start = after /\ after = Pos + 1) /\ (~cut => start = Start)
      /\ Short(input) => Start <= start /\ start <= after
  <2>1. back \in Int /\ back <= after
    <3> DEFINE pw == peeked.w
    <3>1. pw \in 0..4 /\ back = after - pw
      BY <1>4 DEF Reads
    <3> HIDE DEF pw, back, after
    <3> QED BY <1>1, <1>3, <3>1
  <2>2. start \in 0..n /\ (cut => start = after /\ after = Pos + 1) /\ (~cut => start = Start)
    BY <1>1, <1>3, <1>5
  <2> QED BY <1>1, <1>6, <2>1, <2>2, TurnStarts
<1>8. Short(input) =>
      /\ \A b \in start..back - 1 : ~Spells(input, b, leftDelim)
      /\ back \in 0..start - 1 => ~Spells(input, back, leftDelim)
    BY <1>1, <1>6, TurnSees
<1>9. ASSUME ~(cut /\ after < Start)
      PROVE  Tiled(input, emitted \o texts, start) /\ texts \in Seq(Item)
  <2>1. CASE cut
    <3>1. start = after /\ after = Pos + 1 /\ ~(after < Start)
      BY <1>5, <1>9, <2>1
    <3> HIDE DEF start, after, read
    <3>2. Short(input) => \A b \in Start..after - 2 : ~Spells(input, b, leftDelim)
      BY <1>1, <3>1 DEF TextSeam
    <3>3. Tiled(input, emitted \o <<It("Text", Start, after)>>, after)
      BY <1>1, <1>3, <3>1, <3>2, TextTiled
    <3>4. <<It("Text", Start, after)>> \in Seq(Item)
      BY <1>1, <1>3, ItemTyped DEF Types
    <3> QED BY <2>1, <3>1, <3>3, <3>4
  <2>2. CASE ~cut
    <3>1. texts = <<>> /\ start = Start
      BY <2>2
    <3> HIDE DEF texts, start
    <3>2. Tiled(input, emitted \o <<>>, Start) /\ <<>> \in Seq(Item)
      BY <1>1, TileNone
    <3> QED BY <3>1, <3>2, Zenon
  <2> QED BY <2>1, <2>2
<1> HIDE DEF start, back, texts, rest, cut, inWord, peeked, after, read
<1>a. CASE Becomes("panic", Pos, Start, <<>>)
    BY <1>1, <1>a, TileNone, BecomesCovers DEF Seam
<1>b. CASE ~(cut /\ after < Start) /\ Becomes("panic", Pos, start, texts)
    BY <1>9, <1>b, BecomesCovers DEF Seam
<1>c. CASE ~(cut /\ after < Start) /\ inWord /\ Becomes("LexURI", end, start, texts)
  <2>1. after < n
    BY <1>1, <1>3, <1>4, <1>5, <1>c DEF Reads
  <2>2. end \in 0..n /\ after <= end /\ (end + 1 < n => input[end + 1] \in Blank)
    BY <1>1, <1>3, <2>1, WordEnds
  <2> HIDE DEF end
  <2>3. Short(input) => start <= end
    BY <1>1, <1>3, <1>7, <2>2
  <2>4. Seam(input, isText, "LexURI", end, start)
    BY <2>2, <2>3 DEF Seam
  <2> QED BY <1>9, <1>c, <2>4, BecomesCovers
<1>d. ASSUME ~(cut /\ after < Start), ~(back < 0), start <= back
      PROVE  Tiled(input, emitted \o (texts \o rest), back) /\ texts \o rest \in Seq(Item) /\ back \in 0..n
  <2>1. back \in 0..n
    BY <1>1, <1>3, <1>7, <1>d
  <2>2. Short(input) => \A b \in start..back - 2 : ~Spells(input, b, leftDelim)
    BY <1>1, <1>7, <1>8, <2>1
  <2>3. Tiled(input, (emitted \o texts) \o rest, back)
    BY <1>1, <1>7, <1>9, <1>d, <2>1, <2>2, TextTiled DEF rest
  <2>4. rest \in Seq(Item)
    <3>1. <<It("Text", start, back)>> \in Seq(Item)
      BY <1>1, <1>7, <2>1, ItemTyped DEF Types
    <3> QED BY <3>1 DEF rest, TextOf
  <2>5. (emitted \o texts) \o rest = emitted \o (texts \o rest)
    BY <1>1, <1>9, <2>4, ConcatAssociative, SMTT(30)
  <2>6. texts \o rest \in Seq(Item)
    BY <1>9, <1>d, <2>4, ConcatProperties
  <2> QED BY <2>1, <2>3, <2>5, <2>6
<1>e. CASE /\ ~(cut /\ after < Start) /\ ~(back < 0) /\ HasPrefix(back, leftDelim)
           /\ Becomes("LeftDelim", back, IF back > start THEN back ELSE start, texts \o rest)
  <2>1. back \in 0..n
    BY <1>1, <1>3, <1>7, <1>e
  <2>2. Spells(input, back, leftDelim)
    BY <1>1, <1>e, <2>1, PrefixSpells
  <2>3. Short(input) => start <= back
    BY <1>1, <1>7, <1>8, <2>1, <2>2
  <2>4. CASE start <= back
    <3>1. (IF back > start THEN back ELSE start) = back
      BY <1>1, <1>7, <2>1, <2>4
    <3>2. Becomes("LeftDelim", back, back, texts \o rest)
      BY <1>e, <3>1, Zenon
    <3>3. Seam(input, isText, "LeftDelim", back, back)
      BY <2>1, <2>2 DEF Seam
    <3> QED BY <1>d, <1>e, <2>4, <3>2, <3>3, BecomesCovers
  <2>5. CASE ~(start <= back)
    <3>1. ~(back > start)
      BY <1>7, <2>1, <2>5
    <3>2. rest = <<>>
      BY <3>1 DEF rest, TextOf
    <3>3. texts \o rest = texts
      BY <1>9, <1>e, <3>2
    <3>4. Becomes("LeftDelim", back, start, texts)
      BY <1>e, <3>1, <3>3, Zenon
    <3>5. Seam(input, isText, "LeftDelim", back, start)
      BY <2>2, <2>3, <2>5 DEF Seam
    <3> QED BY <1>9, <1>e, <3>4, <3>5, BecomesCovers
  <2> QED BY <2>4, <2>5
<1>f. CASE /\ ~(cut /\ after < Start) /\ ~(back < 0) /\ Peek(back) = EOF
           /\ Becomes("ended", back, back, (texts \o rest) \o last)
  <2>1. back \in 0..n
    BY <1>1, <1>3, <1>7, <1>f
  <2>2. back = n
    <3> DEFINE seen == Next(back)
    <3>1. Reads(back, seen)
      BY <1>1, <2>1, NextTells
    <3>2. seen.r = EOF
      BY <1>f, Zenon DEF Peek
    <3> HIDE DEF seen
    <3> QED BY <3>1, <3>2 DEF Reads
  <2>3. start <= back
    BY <1>1, <1>3, <1>7, <2>2
  <2>4. /\ back \in Nat /\ "EOF" \in Types
        /\ \A b \in (back..back - 1) \cup (back..back - 1) : input[b + 1] \in {"!", ":"}
    BY <1>1, <2>2 DEF Types
  <2>5. Spelled(input, It("EOF", back, back)) /\ last \in Seq(Item)
    BY <2>4, OtherSpelled, ItemTyped
  <2>6. Tiled(input, (emitted \o (texts \o rest)) \o last, back)
    BY <1>d, <1>f, <2>3, <2>4, <2>5, TileOne
  <2>7. (emitted \o (texts \o rest)) \o last = emitted \o ((texts \o rest) \o last)
    <3> DEFINE both == texts \o rest
    <3>1. both \in Seq(Item)
      BY <1>d, <1>f, <2>3
    <3> HIDE DEF last, both
    <3>2. (emitted \o both) \o last = emitted \o (both \o last)
      BY <1>1, <2>5, <3>1, ConcatAssociative, SMTT(30)
    <3> QED BY <3>2 DEF both
  <2>8. Seam(input, isText, "ended", back, back)
    BY <2>4 DEF Seam
  <2> QED BY <1>f, <2>6, <2>7, <2>8, BecomesCovers
<1>g. CASE /\ ~(cut /\ after < Start) /\ ~(back < 0) /\ ~HasPrefix(back, leftDelim) /\ Peek(back) # EOF
           /\ Becomes("LexTextNode", back + Next(back).w, start, texts)
  <2>1. back \in 0..n
    BY <1>1, <1>3, <1>7, <1>g
  <2>2. ~Spells(input, back, leftDelim) /\ back # n
    BY <1>1, <1>g, <2>1, PrefixSpells, NextReads
  <2>3. TextSeam(input, back + Next(back).w, start)
    <3>1. CASE Short(input)
      BY <1>1, <1>6, <2>1, <2>2, <3>1, TurnSeams
    <3>2. CASE ~Short(input)
      BY <3>2, Zenon DEF TextSeam
    <3> QED BY <3>1, <3>2
  <2>4. Seam(input, isText, "LexTextNode", back + Next(back).w, start)
    BY <2>3 DEF Seam
  <2> QED BY <1>9, <1>g, <2>4, BecomesCovers
<1> QED BY <1>2, <1>a, <1>b, <1>c, <1>e, <1>f, <1>g

\* Every step keeps the tiling.
LEMMA CoverNext == IInv /\ CoverInv /\ [NextStep]_vars => CoverInv'
<1> SUFFICES ASSUME IInv, CoverInv, [NextStep]_vars PROVE CoverInv'
    OBVIOUS
<1>1. Inside
    BY DEF IInv
<1>2. CASE Run
    BY <1>1, <1>2, TextCovers, DelimCovers, ActionCovers, RunCovers, IdentifierCovers, StringCovers DEF Run
<1>3. CASE Parse \/ UNCHANGED vars
  <2>1. source' = source /\ StateFn' = StateFn /\ Pos' = Pos /\ Start' = Start /\ emitted' = emitted
    <3>1. CASE Parse
      BY <3>1 DEF Parse, OpenParen, Terminal, ArgKey, Pipe, PipesInto, CloseExpr, WrongEnd, Skip, KeyVal,
         ParseTextNode, ParseForExpr, InExpr, AtTop, Receives
    <3>2. CASE UNCHANGED vars
      BY <3>2 DEF vars, lexVars
    <3> QED BY <1>3, <3>1, <3>2
  <2>2. input' = input /\ isText' = isText
    BY <2>1 DEF input, isText
  <2> QED BY <2>1, <2>2 DEF CoverInv
<1> QED BY <1>2, <1>3 DEF NextStep

\* It holds before the first.
LEMMA CoverInit == Init => CoverInv
<1> SUFFICES ASSUME Init PROVE CoverInv
    OBVIOUS
<1>1. Pos = 0 /\ Start = 0 /\ emitted = <<>> /\ StateFn = source.name
    BY DEF Init, LexInit
<1>2. source.name \in {"LexTextNode", "LexIfExpr", "LexForExpr"}
    BY SourcesAssumption DEF Init, LexInit, Source
<1>3. Tiled(input, emitted, Start)
  <2>1. emitted \in Seq(Item) /\ Len(emitted) = 0
    BY <1>1
  <2> QED BY <1>1, <2>1 DEF Tiled
<1>4. Seam(input, isText, StateFn, Pos, Start)
    BY <1>1, <1>2 DEF Seam, TextSeam
<1> QED BY <1>3, <1>4 DEF CoverInv

\* Items that lie one behind the other and own every byte share none.
LEMMA TilesCover == CoverInv => Covers
<1> SUFFICES ASSUME CoverInv PROVE Covers
    OBVIOUS
<1>1. Tiled(input, emitted, Start)
    BY DEF CoverInv
<1>2. emitted \in Seq(Item)
    BY <1>1 DEF Tiled
<1>3. ASSUME NEW b \in 0..Start - 1
      PROVE  LET owners == {i \in 1..Len(emitted) : emitted[i].from <= b /\ b < emitted[i].to}
             IN  Cardinality(owners) = 1 \/ (owners = {} /\ input[b + 1] \in {"!", ":"})
  <2> DEFINE owners == {i \in 1..Len(emitted) : emitted[i].from <= b /\ b < emitted[i].to}
  <2>1. owners # {} \/ input[b + 1] \in {"!", ":"}
    BY <1>1 DEF Tiled, Owns
  <2>2. ASSUME NEW i \in owners PROVE Cardinality(owners) = 1
    <3>1. ASSUME NEW j \in owners PROVE j = i
      <4>1. /\ i \in 1..Len(emitted) /\ j \in 1..Len(emitted) /\ i \in Int /\ j \in Int
            /\ emitted[i].from <= b /\ b < emitted[i].to /\ emitted[j].from <= b /\ b < emitted[j].to
        BY <2>2, <3>1
      <4>2. emitted[i] \in Item /\ emitted[j] \in Item
        BY <1>2, <4>1
      <4>3. /\ emitted[i].from \in Nat /\ emitted[i].to \in Nat
            /\ emitted[j].from \in Nat /\ emitted[j].to \in Nat /\ b \in Int
        BY <4>2 DEF Item
      <4>4. ~(i < j) /\ ~(j < i)
        BY <1>1, <4>1, <4>3, SMTT(30) DEF Tiled
      <4> QED BY <4>1, <4>4
    <3>2. owners = {i}
      BY <2>2, <3>1
    <3> HIDE DEF owners
    <3> QED BY <3>2, FS_Singleton
  <2> QED BY <2>1, <2>2
<1>4. ASSUME Short(input), NEW i \in 1..Len(emitted)
      PROVE  LET val == SubSeq(input, emitted[i].from + 1, emitted[i].to)
             IN  CASE emitted[i].typ = "LeftDelim" -> val = leftDelim
                   [] emitted[i].typ = "RightDelim" -> val = rightDelim
                   [] emitted[i].typ = "Text" -> \A k \in 1..Len(val) - 1 : SubSeq(val, k, k + 1) # leftDelim
                   [] OTHER -> TRUE
  <2>1. Spelled(input, emitted[i])
    BY <1>1 DEF Tiled
  <2> QED BY <1>4, <2>1, Zenon DEF Spelled
<1> QED BY <1>2, <1>3, <1>4, Zenon DEF Covers

\* Nothing of a template is lost or repeated.
THEOREM NothingIsLost == Spec => []Covers
<1>1. Spec => []CoverInv
    BY InvariantHolds, CoverInit, CoverNext, PTL DEF Spec
<1> QED BY <1>1, TilesCover, PTL

\* There is a character of more than two bytes, or one of two behind the first
\* byte.
TooWide == ~Short(input) \/ (1 < Len(input) /\ Multibyte(input, 1))

PanicInv == StateFn = "panic" => isText /\ TooWide

\* Without longer characters a turn that panics has stepped back from the second
\* rune by two bytes.
LEMMA TextPanics ==
    ASSUME Inside, CoverInv, Short(input), LexTextNode, StateFn' = "panic"
    PROVE  1 < Len(input) /\ Multibyte(input, 1)
<1> DEFINE n == Len(input)
           read == Next(Pos)
           after == Pos + read.w
           peeked == Next(after)
           cut == IsAlphaNumeric(peeked.r) /\ (IsSpace(read.r) \/ IsEndOfLine(read.r))
           back == after - peeked.w
<1>1. /\ input \in Seq(Byte) /\ n \in Nat /\ Pos \in 0..n /\ Start \in 0..n
      /\ TextSeam(input, Pos, Start) /\ StateFn = "LexTextNode"
    BY Readable DEF CoverInv, Inside, Seam, LexTextNode, Runs
<1>3. (cut /\ after < Start) \/ back < 0
    BY DEF LexTextNode, Becomes
<1>4. after \in 0..n
    BY <1>1, NextReads
<1>5. Reads(Pos, read) /\ Reads(after, peeked)
    BY <1>1, <1>4, NextTells
<1>6. ~(cut /\ after < Start)
  <2>1. cut => read.r # EOF
      BY DEF IsSpace, IsEndOfLine, EOF
  <2>2. cut => read.w \in 1..4
      BY <1>5, <2>1 DEF Reads
  <2>3. Start - 1 <= Pos
      BY <1>1 DEF TextSeam
  <2> HIDE DEF read, peeked, cut
  <2> QED BY <1>1, <2>2, <2>3
<1>7. back < 0 => after = 1 /\ peeked.w = 2
  <2> DEFINE rw == read.w
             pw == peeked.w
  <2>1. /\ rw \in 0..2 /\ pw \in 0..2 /\ after + pw \in after..n
        /\ rw = 0 <=> Pos = n
        /\ pw = 0 <=> after = n
    <3>1. rw \in 0..2 /\ pw \in 0..2
      BY <1>1, <1>4, <1>5, ShortReads
    <3> QED BY <1>5, <3>1 DEF Reads
  <2> HIDE DEF rw, pw
  <2>2. after = Pos + rw
      BY DEF rw
  <2>3. back = after - pw
      BY DEF pw
  <2> HIDE DEF after, back
  <2>4. back < 0 => after = 1 /\ pw = 2
      BY <1>1, <1>4, <2>1, <2>2, <2>3
  <2> QED BY <2>4 DEF pw
<1> HIDE DEF after, back, peeked, cut
<1>8. after = 1 /\ peeked.w = 2
    BY <1>3, <1>6, <1>7
<1>9. Multibyte(input, after) /\ after + 2 \in after..n
    BY <1>5, <1>8 DEF Reads
<1> QED BY <1>1, <1>8, <1>9

\* Only over text there is a panic, and without longer characters only in the loop.
LEMMA PanicNext == IInv /\ CoverInv /\ PanicInv /\ [NextStep]_vars => PanicInv'
<1> SUFFICES ASSUME IInv, CoverInv, PanicInv, [NextStep]_vars, StateFn' = "panic"
             PROVE  (isText /\ TooWide)'
    BY DEF PanicInv
<1>1. Inside
    BY DEF IInv
<1>2. CASE Run
  <2>1. Scans
    BY <1>1, <1>2, RunScans
  <2>2. ScansText
    <3>1. ~ScansDelim
      BY DEF ScansDelim
    <3>2. ~ScansError /\ ~ScansInner /\ ~ScansString
      BY DEF ScansError, ScansInner, ScansString, Within
    <3>3. ~ScansAttribute
      BY DEF ScansAttribute
    <3>4. source.name # "panic"
      BY <1>1, SourcesAssumption DEF Inside, Source
    <3>5. ~ScansQuietly
      BY <3>4 DEF ScansQuietly, Within
    <3> QED BY <2>1, <3>1, <3>2, <3>3, <3>5 DEF Scans
  <2>3. LexTextNode \/ LexURI \/ LeftDelim
    BY <1>2, <2>2 DEF ScansText, Home, Run, RightDelim, InsideAction, Space, Identifier,
       EspraURI, Number, String, LexIfExpr, LexForExpr, LoopIdentifier, Runs
  <2>4. ASSUME Short(input) PROVE LexTextNode
    <3>1. Pos \in Nat /\ Start \in Nat /\ Seam(input, isText, StateFn, Pos, Start)
      BY <1>1, Readable DEF CoverInv
    <3>2. LexURI => StateFn' = "LexTextNode"
      BY <2>4, <3>1 DEF LexURI, Runs, Seam, EmitsBack, Emits, Becomes
    <3>3. LeftDelim => StateFn' = "InsideAction"
      BY <2>4, <3>1 DEF LeftDelim, Runs, Seam, EmitsBack, Emits, Becomes
    <3> QED BY <2>3, <3>2, <3>3
  <2>5. isText /\ TooWide
    BY <1>1, <2>2, <2>4, TextPanics DEF ScansText, TooWide
  <2>6. isText' = isText /\ input' = input
    BY <2>1 DEF Scans, isText, input
  <2> QED BY <2>5, <2>6 DEF TooWide
<1>3. CASE Parse \/ UNCHANGED vars
  <2>1. source' = source /\ StateFn' = StateFn
    <3>1. CASE Parse
      BY <3>1 DEF Parse, OpenParen, Terminal, ArgKey, Pipe, PipesInto, CloseExpr, WrongEnd, Skip, KeyVal,
         ParseTextNode, ParseForExpr, InExpr, AtTop, Receives
    <3>2. CASE UNCHANGED vars
      BY <3>2 DEF vars, lexVars
    <3> QED BY <1>3, <3>1, <3>2
  <2>2. isText' = isText /\ input' = input
    BY <2>1 DEF isText, input
  <2> QED BY <2>1, <2>2 DEF PanicInv, TooWide
<1> QED BY <1>2, <1>3 DEF NextStep

\* The scanner panics on no text but those with a character of three or four
\* bytes, or with one of two behind the first byte (ui.go:322-357, lex.go:94-103):
\* stepping back over it leads before the beginning of the text, or of the item.
THEOREM OnlyWideTextsPanic == Spec => [](StateFn = "panic" => source.name = "LexTextNode" /\ TooWide)
<1>1. Init => PanicInv
  <2> SUFFICES ASSUME Init PROVE PanicInv
    OBVIOUS
  <2>1. StateFn = source.name
    BY DEF Init, LexInit
  <2>2. source.name \in {"LexTextNode", "LexIfExpr", "LexForExpr"}
    BY SourcesAssumption DEF Init, LexInit, Source
  <2> QED BY <2>1, <2>2 DEF PanicInv
<1>2. Spec => []CoverInv
    BY InvariantHolds, CoverInit, CoverNext, PTL DEF Spec
<1>3. Spec => []PanicInv
    BY <1>1, <1>2, InvariantHolds, PanicNext, PTL DEF Spec
<1>4. PanicInv => (StateFn = "panic" => source.name = "LexTextNode" /\ TooWide)
    BY DEF PanicInv, isText
<1> QED BY <1>3, <1>4, PTL

----------------------------------------------------------------------------
(* How far a parse is.  No call of a state function and no receive is in   *)
(* vain, so that a parse takes no more of them than the text has room for. *)

\* No character of more than one byte.
Narrow == \A p \in 0..Len(input) - 1 : ~Multibyte(input, p)

\* The state functions, in the order in which one may follow the other without
\* reading.  Those of the attributes come before an expression, and at the end of
\* the input after it.
Rank(fn, pos, n) ==
    IF fn \in {"Space", "Identifier", "EspraURI", "LexURI", "LoopIdentifier"} THEN 0
    ELSE IF fn = "LexTextNode" \/ (fn \in {"LexIfExpr", "LexForExpr"} /\ pos < n) THEN 1
    ELSE IF fn = "InsideAction" THEN 2
    ELSE IF fn \in {"ended", "panic"} THEN 4
    ELSE 3

\* Each byte has room for five calls, and each call for what it may emit.
Calls == 5 * Pos + Rank(StateFn, Pos, Len(input))
Work == 4 * Calls - Len(pending)

\* Number is called where there is a number.
Numeral == StateFn = "Number" => Pos < Len(input) /\ (Peek(Pos) = "-" \/ Peek(Pos) \in Digit)

\* A call reads something, or hands over to a later state function.
Advances ==
    /\ Pos' >= Pos
    /\ Pos' = Pos => Rank(StateFn', Pos', Len(input)) > Rank(StateFn, Pos, Len(input))

\* Each rune of such a text is a byte.
LEMMA NarrowReads ==
    ASSUME input \in Seq(Byte), Narrow, NEW p \in 0..Len(input)
    PROVE  Next(p).w \in 0..1 /\ (Next(p).w = 0 <=> p = Len(input))
<1> DEFINE read == Next(p)
<1>1. Reads(p, read) /\ Len(input) \in Nat
    BY NextTells
<1> HIDE DEF read
<1>2. ~(read.w > 1)
  <2> SUFFICES ASSUME read.w > 1 PROVE FALSE
    OBVIOUS
  <2>1. Multibyte(input, p) /\ p + read.w \in p..Len(input) /\ read.w \in 0..4
    BY <1>1 DEF Reads
  <2>2. p \in 0..Len(input) - 1
    BY <1>1, <2>1
  <2> QED BY <2>1, <2>2 DEF Narrow
<1>3. read.w \in 0..1 /\ (read.w = 0 <=> p = Len(input))
    BY <1>1, <1>2 DEF Reads
<1> QED BY <1>3 DEF read

\* A turn over text does not step back behind where it began.
LEMMA TextAdvancesOn ==
    ASSUME Inside, Narrow, LexTextNode
    PROVE  Advances /\ Len(pending') <= 3
<1> DEFINE n == Len(input)
           read == Next(Pos)
           after == Pos + read.w
           peeked == Next(after)
           inWord == IsAlphaNumeric(peeked.r)
           cut == inWord /\ (IsSpace(read.r) \/ IsEndOfLine(read.r))
           texts == IF cut THEN <<It("Text", Start, after)>> ELSE <<>>
           start == IF cut THEN after ELSE Start
           back == after - peeked.w
           rest == TextOf(start, back)
           last == <<It("EOF", back, back)>>
           end == WordEnd(after)
<1>1. input \in Seq(Byte) /\ n \in Nat /\ Pos \in 0..n /\ Rank(StateFn, Pos, n) = 1
  <2>1. StateFn = "LexTextNode"
    BY DEF LexTextNode, Runs
  <2>2. Rank("LexTextNode", Pos, n) = 1
    BY DEF Rank
  <2> QED BY <2>1, <2>2, Readable DEF Inside
<1>2. \/ StateFn' = "panic" /\ Pos' = Pos /\ (pending' = <<>> \/ pending' = texts)
      \/ inWord /\ StateFn' = "LexURI" /\ Pos' = end /\ pending' = texts
      \/ StateFn' = "LeftDelim" /\ Pos' = back /\ pending' = texts \o rest
      \/ StateFn' = "ended" /\ Pos' = back /\ pending' = (texts \o rest) \o last
      \/ Peek(back) # EOF /\ Pos' = back + Next(back).w /\ pending' = texts
    BY ZenonT(40) DEF LexTextNode, Becomes, TextOf
<1>3. after \in 0..n
    BY <1>1, NextReads
<1>4. /\ read.w \in 0..1 /\ (read.w = 0 <=> Pos = n)
      /\ peeked.w \in 0..1 /\ (peeked.w = 0 <=> after = n)
    BY <1>1, <1>3, NarrowReads
<1>5. inWord => after < n
  <2>1. Reads(after, peeked)
    BY <1>1, <1>3, NextTells
  <2> HIDE DEF peeked, after
  <2>2. inWord => peeked.r # EOF
    BY DEF IsAlphaNumeric, EOF, Letter, Digit, Decimal
  <2> QED BY <1>1, <1>3, <2>1, <2>2 DEF Reads
<1>6. back \in Pos..n /\ (inWord => Pos < after)
  <2> DEFINE rw == read.w
             pw == peeked.w
  <2>1. /\ rw \in 0..1 /\ (rw = 0 <=> Pos = n) /\ pw \in 0..1 /\ (pw = 0 <=> after = n)
        /\ after = Pos + rw /\ back = after - pw
    BY <1>4
  <2> HIDE DEF rw, pw, after, back, inWord
  <2> QED BY <1>1, <1>3, <1>5, <2>1
<1>7. /\ texts \in Seq(Item) /\ Len(texts) <= 1 /\ rest \in Seq(Item) /\ Len(rest) <= 1
      /\ last \in Seq(Item) /\ Len(last) = 1
  <2>1. Start \in Nat /\ after \in Nat /\ start \in Nat /\ back \in Nat /\ {"Text", "EOF"} \subseteq Types
    BY <1>1, <1>3, <1>6, Readable DEF Types
  <2> HIDE DEF start, after, back, cut
  <2>2. /\ It("Text", Start, after) \in Item /\ It("Text", start, back) \in Item
        /\ It("EOF", back, back) \in Item
    BY <2>1, ItemTyped
  <2> QED BY <2>2 DEF TextOf
<1>8. inWord => end \in 0..n /\ Pos < end
  <2> HIDE DEF after, inWord
  <2> SUFFICES ASSUME inWord PROVE end \in 0..n /\ Pos < end
    OBVIOUS
  <2>1. after < n /\ Pos < after
    BY <1>5, <1>6
  <2>2. end \in 0..n /\ after <= end
    BY <1>1, <1>3, <2>1, WordEnds
  <2> HIDE DEF end
  <2> QED BY <1>1, <1>3, <2>1, <2>2
<1>9. Peek(back) # EOF => back + Next(back).w > Pos
  <2> DEFINE w == Next(back).w
  <2>1. back \in 0..n
    BY <1>1, <1>6
  <2> HIDE DEF back
  <2>2. w \in 0..1 /\ (w = 0 <=> back = n) /\ (back = n => Peek(back) = EOF)
    BY <1>1, <2>1, NarrowReads, NextReads
  <2> HIDE DEF w
  <2>3. Peek(back) # EOF => back + w > Pos
    BY <1>1, <1>6, <2>2
  <2> QED BY <2>3 DEF w
<1> HIDE DEF after, back, texts, rest, last, end, inWord
<1>a. Len(pending') <= 3
  <2> DEFINE both == texts \o rest
             all == both \o last
  <2>1. both \in Seq(Item) /\ Len(both) <= 2
    BY <1>7
  <2>2. Len(all) <= 3
    <3> HIDE DEF both
    <3>1. Len(both \o last) = Len(both) + Len(last)
      BY <1>7, <2>1, ConcatProperties, Zenon
    <3>2. Len(both) \in Nat
      BY <2>1
    <3> QED BY <1>7, <2>1, <3>1, <3>2
  <2>3. Len(texts) <= 3 /\ Len(both) <= 3 /\ Len(<<>>) <= 3
    BY <1>7, <2>1
  <2> HIDE DEF both, all
  <2>4. pending' \in {<<>>, texts, both, all}
    BY <1>2 DEF both, all
  <2> QED BY <2>2, <2>3, <2>4
<1>b. Advances
  <2>1. Rank("panic", Pos, n) = 4 /\ \A p : Rank("ended", p, n) = 4 /\ Rank("LeftDelim", p, n) = 3
    BY DEF Rank
  <2>2. CASE StateFn' = "panic" /\ Pos' = Pos
    BY <1>1, <2>1, <2>2 DEF Advances
  <2>3. CASE StateFn' \in {"LeftDelim", "ended"} /\ Pos' = back
    BY <1>1, <1>6, <2>1, <2>3 DEF Advances
  <2>4. CASE Pos' > Pos /\ Pos' \in Int
    BY <1>1, <2>4 DEF Advances
  <2>5. Peek(back) # EOF => back + Next(back).w \in Int
    BY <1>1, <1>6, NextReads
  <2> QED BY <1>1, <1>2, <1>8, <1>9, <2>2, <2>3, <2>4, <2>5
<1> QED BY <1>a, <1>b

\* How calls end, as far as they advance.
LEMMA MovesOn ==
    ASSUME Inside, NEW fn, NEW pos \in 0..Len(input), NEW start, NEW items, Becomes(fn, pos, start, items),
           Pos < pos \/ (Pos = pos /\ Rank(fn, pos, Len(input)) > Rank(StateFn, Pos, Len(input)))
    PROVE  Advances
<1>1. StateFn' = fn /\ Pos' = pos
    BY DEF Becomes
<1> QED BY <1>1, Readable DEF Advances

\* An error ends the scanner.
LEMMA ErrorAdvances ==
    ASSUME Inside, NEW pos \in 0..Len(input), Pos <= pos, StateFn \notin {"ended", "panic"}, Errorf(pos)
    PROVE  Advances
<1>1. Becomes("ended", pos, Start, <<It("Error", Start, Start)>>)
    BY DEF Errorf
<1>2. Rank("ended", pos, Len(input)) = 4 /\ Rank(StateFn, Pos, Len(input)) \in 0..3
    BY DEF Rank
<1>3. Pos < pos \/ Pos = pos
    BY Readable
<1> QED BY <1>1, <1>2, <1>3, MovesOn

\* A call of a state function that comes first needs to read nothing.
LEMMA DelimAdvances ==
    ASSUME Inside, LexURI \/ LeftDelim \/ RightDelim
    PROVE  Advances
<1> DEFINE n == Len(input)
<1>1. n \in Nat /\ Pos \in 0..n
    BY Readable DEF Inside
<1>2. CASE LexURI
  <2>1. StateFn = "LexURI" /\ \E fn \in {"LexTextNode", "panic"} :
            \E start, items : Becomes(fn, Pos, start, items)
    BY <1>2 DEF LexURI, Runs, EmitsBack, Emits
  <2>2. Rank("LexTextNode", Pos, n) = 1 /\ Rank("panic", Pos, n) = 4 /\ Rank("LexURI", Pos, n) = 0
    BY DEF Rank
  <2> QED BY <1>1, <2>1, <2>2, MovesOn
<1>3. CASE LeftDelim \/ RightDelim
  <2>1. /\ StateFn \in {"LeftDelim", "RightDelim"}
        /\ \E fn, start, items : Becomes(fn, Pos + 2, start, items)
    BY <1>3 DEF LeftDelim, RightDelim, Runs, EmitsBack, Emits
  <2>2. Pos + 2 \in 0..n /\ Pos < Pos + 2
    BY <1>1, <2>1 DEF Inside
  <2> QED BY <2>1, <2>2, MovesOn
<1> QED BY <1>2, <1>3

\* An action: what comes next is Number or the delimiter at its end, or something
\* is read, or the attribute has ended.
LEMMA ActionAdvances ==
    ASSUME Inside, InsideAction
    PROVE  Advances /\ Numeral'
<1> DEFINE n == Len(input)
           read == Next(Pos)
           r == read.r
           after == Pos + read.w
           single == [c \in {"(", ")", "|"} |->
                        CASE c = "(" -> "LeftParen" [] c = ")" -> "RightParen" [] c = "|" -> "Pipe"]
<1>1. /\ input \in Seq(Byte) /\ n \in Nat /\ Pos \in 0..n /\ StateFn = "InsideAction"
      /\ source.name \in {"LexTextNode", "LexIfExpr", "LexForExpr"}
    BY SourceTyped, Readable DEF Inside, InsideAction, Runs
<1>2. after \in 0..n /\ Pos <= after
    BY <1>1, NextReads
<1>3. (r = EOF => Pos = n /\ after = n) /\ (r # EOF => Pos < after)
  <2> DEFINE w == read.w
  <2>1. Reads(Pos, read)
    BY <1>1, NextTells
  <2> HIDE DEF read
  <2>2. w \in 0..4 /\ (w = 0 <=> Pos = n) /\ (w = 0 <=> r = EOF) /\ after = Pos + w
    BY <2>1 DEF Reads
  <2> HIDE DEF w, r, after
  <2> QED BY <1>1, <2>2
<1>4. /\ Rank("InsideAction", Pos, n) = 2 /\ Rank("RightDelim", Pos, n) = 3 /\ Rank("Number", Pos, n) = 3
      /\ Rank("LexIfExpr", n, n) = 3 /\ Rank("LexForExpr", n, n) = 3
    BY <1>1 DEF Rank
<1>5. \/ Errorf(Pos) \/ Errorf(after) \/ Goes("RightDelim", Pos)
      \/ (r = EOF \/ IsEndOfLine(r)) /\ source.name # "LexTextNode" /\ Goes(source.name, after)
      \/ r # EOF /\ (Goes("Space", after) \/ Goes("Identifier", after) \/ Goes("EspraURI", after))
      \/ (r = "-" \/ r \in Digit) /\ Goes("Number", Pos)
      \/ r # EOF /\ Emits("String", "OpenQuote", after)
      \/ r # EOF /\ Becomes("InsideAction", after, after, <<It(single[r], Start, after)>>)
    BY DEF InsideAction, IsSpace, IsQuote, EOF, Letter
<1>6. r = Peek(Pos)
    BY DEF Peek
<1> HIDE DEF r, after, single, read
<1>7. CASE Errorf(Pos) \/ Errorf(after)
  <2>1. Advances
    BY <1>1, <1>2, <1>7, ErrorAdvances
  <2>2. StateFn' = "ended"
    BY <1>7 DEF Errorf, Becomes
  <2> QED BY <2>1, <2>2 DEF Numeral
<1>8. CASE Goes("RightDelim", Pos)
  <2>1. Becomes("RightDelim", Pos, Start, <<>>)
    BY <1>8 DEF Goes
  <2>2. Advances
    BY <1>1, <1>4, <2>1, MovesOn
  <2> QED BY <2>1, <2>2 DEF Numeral, Becomes
<1>9. CASE (r = EOF \/ IsEndOfLine(r)) /\ source.name # "LexTextNode" /\ Goes(source.name, after)
  <2>1. Becomes(source.name, after, Start, <<>>) /\ source.name \in {"LexIfExpr", "LexForExpr"}
    BY <1>1, <1>9 DEF Goes
  <2>2. Rank(source.name, n, n) = 3
    BY <1>4, <2>1
  <2>3. IsEndOfLine(r) => r # EOF
    BY DEF IsEndOfLine, EOF
  <2>4. Pos < after \/ (Pos = after /\ after = n)
    BY <1>3, <1>9, <2>3
  <2>5. Pos < after \/ (Pos = after /\ Rank(source.name, after, n) > Rank(StateFn, Pos, n))
    BY <1>1, <1>4, <2>2, <2>4
  <2>6. Advances
    BY <1>2, <2>1, <2>5, MovesOn
  <2> QED BY <2>1, <2>6 DEF Numeral, Becomes
<1>a. CASE /\ r # EOF
           /\ \/ Goes("Space", after) \/ Goes("Identifier", after) \/ Goes("EspraURI", after)
              \/ Emits("String", "OpenQuote", after)
              \/ Becomes("InsideAction", after, after, <<It(single[r], Start, after)>>)
  <2>1. \E fn \in {"Space", "Identifier", "EspraURI", "String", "InsideAction"} : \E start, items :
            Becomes(fn, after, start, items)
    BY <1>a DEF Goes, Emits
  <2>2. Advances
    BY <1>2, <1>3, <1>a, <2>1, MovesOn
  <2> QED BY <2>1, <2>2 DEF Numeral, Becomes
<1>b. CASE (r = "-" \/ r \in Digit) /\ Goes("Number", Pos)
  <2>1. Becomes("Number", Pos, Start, <<>>)
    BY <1>b DEF Goes
  <2>2. Advances
    BY <1>1, <1>4, <2>1, MovesOn
  <2>3. Pos < n
    <3>1. r # EOF
      BY <1>b DEF EOF, Digit, Decimal
    <3> QED BY <1>1, <1>2, <1>3, <3>1
  <2>4. Pos' = Pos /\ source' = source
    BY <2>1 DEF Becomes
  <2> QED BY <1>6, <1>b, <2>2, <2>3, <2>4 DEF Numeral, Peek, Next, input
<1> QED BY <1>5, <1>7, <1>8, <1>9, <1>a, <1>b

\* Spaces, words, numbers and links to Espra: an expression goes on after them.
LEMMA WordAdvances ==
    ASSUME Inside, Numeral, Space \/ EspraURI \/ Identifier \/ Number
    PROVE  Advances
<1> DEFINE n == Len(input)
           word == RunEnd(Pos, ValidIdentifierChar)
           spaces == RunEnd(Pos, {" "})
           from == IF Peek(Pos) = "-" THEN Pos + 1 ELSE Pos
           digits == RunEnd(from, Decimal)
           end == IF Peek(digits) = "i" THEN digits + 1 ELSE digits
           over == end + Next(end).w
<1>1. input \in Seq(Byte) /\ n \in Nat /\ Pos \in 0..n
    BY Readable DEF Inside
<1>2. Rank("InsideAction", Pos, n) = 2 /\ \A fn \in {"Space", "EspraURI", "Identifier"} : Rank(fn, Pos, n) = 0
    BY DEF Rank
<1>3. CASE Space \/ EspraURI \/ Identifier
  <2>1. spaces \in 0..n /\ Pos <= spaces /\ word \in 0..n /\ Pos <= word
    <3>1. word \in 0..n /\ Pos <= word
      BY <1>1, RunsEnd, NoEnd
    <3>2. spaces \in 0..n /\ Pos <= spaces
      BY <1>1, RunsEnd, NoEnd
    <3> QED BY <3>1, <3>2
  <2>2. Peek(word) = ":" => word + 1 \in 0..n
    <3> HIDE DEF word, spaces
    <3>1. word = n => Peek(word) = EOF
      BY <1>1, <2>1, NextReads
    <3>2. Peek(word) = ":" => word # n
      BY <3>1 DEF EOF
    <3>3. word # n => word + 1 \in 0..n
      BY <1>1, <2>1
    <3> QED BY <3>2, <3>3
  <2> DEFINE next == IF Peek(word) = ":" THEN word + 1 ELSE word
  <2>3. next \in 0..n /\ Pos <= next
    <3> HIDE DEF word, spaces
    <3> QED BY <1>1, <2>1, <2>2
  <2>4. StateFn \in {"Space", "EspraURI", "Identifier"}
        /\ \E pos \in {spaces, Pos, next} : \E start, items : Becomes("InsideAction", pos, start, items)
    BY <1>3 DEF Space, EspraURI, Identifier, Runs, Emits
  <2> HIDE DEF spaces, word, next
  <2>5. PICK pos \in {spaces, Pos, next} : \E start, items : Becomes("InsideAction", pos, start, items)
    BY <2>4
  <2>6. pos \in 0..n /\ (Pos < pos \/ Pos = pos)
    BY <1>1, <2>1, <2>3
  <2>7. Rank(StateFn, Pos, n) = 0
    BY <1>2, <2>4
  <2>8. Pos < pos \/ (Pos = pos /\ Rank("InsideAction", pos, n) > Rank(StateFn, Pos, n))
    BY <1>2, <2>6, <2>7
  <2> QED BY <2>5, <2>6, <2>8, MovesOn
<1>4. CASE Number
  <2>1. Pos < n /\ (Peek(Pos) = "-" \/ Peek(Pos) \in Digit)
    BY <1>4 DEF Numeral, Number, Runs
  <2>2. from \in 0..n /\ Pos <= from /\ EOF \notin Decimal
    <3>1. from \in 0..n /\ Pos <= from
      BY <1>1, <2>1
    <3> QED BY <3>1, NoEnd
  <2>3. digits \in from..n /\ Peek(digits) \notin Decimal
    BY <1>1, <2>2, RunEndInside
  <2>4. digits = Pos => Peek(digits) = "Numeral"
    <3>1. CASE Peek(Pos) = "-"
      BY <1>1, <2>3, <3>1
    <3>2. CASE Peek(Pos) \in Digit
      BY <2>3, <3>2 DEF Digit
    <3> QED BY <2>1, <3>1, <3>2
  <2>5. digits \in 0..n /\ Pos <= digits
    <3> HIDE DEF digits, from
    <3> QED BY <1>1, <2>2, <2>3
  <2> HIDE DEF digits
  <2>6. /\ end \in 0..n /\ Pos <= end
        /\ end = Pos => Peek(end) = "Numeral"
    <3>1. Peek(digits) = "i" => digits # n
      BY <1>1, <2>5, NextReads DEF EOF
    <3> QED BY <1>1, <2>4, <2>5, <3>1
  <2> HIDE DEF end
  <2>7. /\ over \in 0..n /\ Pos <= over
        /\ \/ Errorf(over)
           \/ Pos < end /\ Becomes("InsideAction", end, end, <<It("Number", Start, end)>>)
    <3>1. over \in 0..n /\ Pos <= over
      BY <1>1, <2>6, NextReads
    <3>2. end = Pos => IsAlphaNumeric(Peek(end))
      BY <2>6 DEF IsAlphaNumeric, Digit
    <3>3. Errorf(over) \/ (~IsAlphaNumeric(Peek(end)) /\ Becomes("InsideAction", end, end, <<It("Number", Start, end)>>))
      BY <1>4 DEF Number, Emits, digits, end
    <3> HIDE DEF over
    <3>4. end # Pos => Pos < end
      BY <1>1, <2>6
    <3> QED BY <3>1, <3>2, <3>3, <3>4
  <2>8. StateFn \notin {"ended", "panic"}
    BY <1>4 DEF Number, Runs
  <2> HIDE DEF over
  <2>9. CASE Errorf(over)
    BY <2>7, <2>8, <2>9, ErrorAdvances
  <2>a. CASE Pos < end /\ Becomes("InsideAction", end, end, <<It("Number", Start, end)>>)
    BY <2>6, <2>a, MovesOn
  <2> QED BY <2>7, <2>9, <2>a
<1> QED BY <1>3, <1>4

\* A turn over a string reads a rune, or ends the string or the scanner.
LEMMA StringAdvances ==
    ASSUME Inside, String
    PROVE  Advances
<1> DEFINE n == Len(input)
           r == Peek(Pos)
           after == Pos + Next(Pos).w
           over == after + Next(after).w
           items == <<It("String", Start, Pos), It("CloseQuote", Pos, after)>>
<1>1. input \in Seq(Byte) /\ n \in Nat /\ Pos \in 0..n /\ StateFn = "String"
    BY Readable DEF Inside, String, Runs
<1>2. after \in 0..n /\ Pos <= after /\ (r # EOF => Pos < after)
  <2> DEFINE w == Next(Pos).w
  <2>1. w \in 0..4 /\ Pos + w \in Pos..n /\ (Pos = n => r = EOF) /\ (Pos # n => w # 0)
    BY <1>1, NextReads
  <2> HIDE DEF w, r
  <2>2. Pos + w \in 0..n /\ Pos <= Pos + w /\ (r # EOF => Pos < Pos + w)
    BY <1>1, <2>1
  <2> QED BY <2>2 DEF w
<1>3. over \in 0..n /\ after <= over
  <2> HIDE DEF after
  <2>1. after + Next(after).w \in after..n
    BY <1>1, <1>2, NextReads
  <2> HIDE DEF over
  <2> QED BY <1>1, <1>2, <2>1 DEF over
<1>4. \/ Errorf(after)
      \/ r # EOF /\ (Goes("String", over) \/ Goes("String", after) \/ Becomes("InsideAction", after, after, items))
    BY DEF String, IsQuote, EOF
<1> HIDE DEF r, after, over, items
<1>5. CASE Errorf(after)
    BY <1>1, <1>2, <1>5, ErrorAdvances
<1>6. CASE r # EOF /\ (Goes("String", over) \/ Goes("String", after) \/ Becomes("InsideAction", after, after, items))
  <2>1. Pos < after /\ Pos < over
    BY <1>1, <1>2, <1>3, <1>6
  <2>2. \E fn, start, es : \E pos \in {after, over} : Becomes(fn, pos, start, es)
    BY <1>6 DEF Goes
  <2> QED BY <1>2, <1>3, <2>1, <2>2, MovesOn
<1> QED BY <1>4, <1>5, <1>6

\* The attributes: at the end of the input the scanner ends, elsewhere it reads or
\* goes on to an expression.
LEMMA AttributeAdvances ==
    ASSUME Inside, LexIfExpr \/ LexForExpr \/ LoopIdentifier
    PROVE  Advances
<1> DEFINE n == Len(input)
           after == Pos + Next(Pos).w
           blank == RunEnd(after, {" "})
           word == RunEnd(Pos, ValidIdentifierChar)
<1>1. /\ input \in Seq(Byte) /\ n \in Nat /\ Pos \in 0..n
      /\ StateFn \in {"LexIfExpr", "LexForExpr", "LoopIdentifier"}
    BY Readable DEF Inside, LexIfExpr, LexForExpr, LoopIdentifier, Runs
<1>2. after \in 0..n /\ (Pos < n => Pos < after) /\ Pos <= after
  <2> DEFINE w == Next(Pos).w
  <2>1. w \in 0..4 /\ Pos + w \in Pos..n /\ (Pos # n => w # 0)
    BY <1>1, NextReads
  <2> HIDE DEF w
  <2>2. Pos + w \in 0..n /\ (Pos < n => Pos < Pos + w) /\ Pos <= Pos + w
    BY <1>1, <2>1
  <2> QED BY <2>2 DEF w
<1>3. word \in 0..n /\ Pos <= word
    BY <1>1, RunsEnd, NoEnd
<1> HIDE DEF after, word
<1>4. blank \in 0..n /\ after <= blank
    BY <1>1, <1>2, RunsEnd, NoEnd
<1> HIDE DEF blank
<1>5. /\ \A p : Rank("ended", p, n) = 4 /\ Rank("InsideAction", p, n) = 2 /\ Rank("LoopIdentifier", p, n) = 0
      /\ \A p : Rank("LexIfExpr", p, n) = Rank("LexForExpr", p, n) /\ Rank("LexForExpr", p, n) \in {1, 3}
      /\ \A p : p < n => Rank("LexForExpr", p, n) = 1
    BY DEF Rank
<1>6. CASE Emits("ended", "EOF", Pos)
  <2>1. Becomes("ended", Pos, Pos, <<It("EOF", Start, Pos)>>)
    BY <1>6 DEF Emits
  <2>2. Rank("ended", Pos, n) > Rank(StateFn, Pos, n)
    BY <1>1, <1>5
  <2> QED BY <1>1, <2>1, <2>2, MovesOn
<1>7. CASE LexIfExpr /\ ~(Pos >= n) /\ Goes("InsideAction", Pos)
  <2>1. Becomes("InsideAction", Pos, Start, <<>>) /\ StateFn = "LexIfExpr"
    BY <1>7 DEF Goes, LexIfExpr, Runs
  <2>2. Rank("InsideAction", Pos, n) > Rank(StateFn, Pos, n)
    BY <1>1, <1>5, <1>7, <2>1
  <2> QED BY <1>1, <2>1, <2>2, MovesOn
<1>8. CASE LoopIdentifier /\ Emits("LexForExpr", "Identifier", word)
  <2>1. Becomes("LexForExpr", word, word, <<It("Identifier", Start, word)>>) /\ StateFn = "LoopIdentifier"
    BY <1>8 DEF Emits, LoopIdentifier, Runs
  <2>2. Pos < word \/ (Pos = word /\ Rank("LexForExpr", word, n) > Rank(StateFn, Pos, n))
    BY <1>1, <1>3, <1>5, <2>1
  <2> QED BY <1>3, <2>1, <2>2, MovesOn
<1>9. CASE /\ ~(Pos >= n)
           /\ \/ Emits("LexForExpr", "Space", blank) \/ Goes("LoopIdentifier", after) \/ Errorf(after)
              \/ HasPrefix(Pos, <<"i", "n">>) /\ Emits("InsideAction", "In", Pos + 2)
  <2>1. HasPrefix(Pos, <<"i", "n">>) => Pos + 2 <= n
    <3>1. Len(<<"i", "n">>) = 2
      OBVIOUS
    <3> QED BY <1>1, <3>1, PrefixInside
  <2>2. \E pos \in {blank, after, Pos + 2} : pos \in 0..n /\ \E fn, start, es : Becomes(fn, pos, start, es)
    BY <1>1, <1>2, <1>4, <1>9, <2>1 DEF Emits, Goes, Errorf
  <2>3. Pos < blank /\ Pos < after /\ Pos < Pos + 2
    BY <1>1, <1>2, <1>4, <1>9
  <2> QED BY <2>2, <2>3, MovesOn
<1> QED BY <1>6, <1>7, <1>8, <1>9 DEF LexIfExpr, LexForExpr, LoopIdentifier, after, blank, word

\* Only in an action is Number called, where a number begins.
LEMMA NumeralKept ==
    ASSUME Inside, Run
    PROVE  Numeral'
<1>1. CASE InsideAction
    BY <1>1, ActionAdvances
<1>2. CASE LexTextNode
  <2>1. Inside' /\ Scans
    BY <1>2, TextScans
  <2>2. StateFn = "LexTextNode"
    BY <1>2 DEF LexTextNode, Runs
  <2>3. "Number" \notin Home("LexTextNode") \cup {"ended"}
    BY DEF Home
  <2>4. StateFn' # "Number"
    BY <2>1, <2>2, <2>3 DEF Scans, ScansText, ScansDelim, ScansError, ScansAttribute, ScansQuietly,
       ScansInner, ScansString, Within
  <2> QED BY <2>4 DEF Numeral
<1>3. CASE ~InsideAction /\ ~LexTextNode
  <2>1. StateFn' # "Number"
    BY <1>3, SourceTyped DEF Run, LexURI, LeftDelim, RightDelim, Space, Identifier, EspraURI, Number,
       String, LexIfExpr, LexForExpr, LoopIdentifier, Goes, Emits, EmitsBack, Errorf, Becomes
  <2> QED BY <2>1 DEF Numeral
<1> QED BY <1>1, <1>2, <1>3

\* No call is in vain, and it emits three items at most.
LEMMA RunAdvances ==
    ASSUME Inside, Numeral, isText => Narrow, Run
    PROVE  Advances /\ Len(pending') \in 0..3
<1> DEFINE k == Len(pending')
<1>1. Scans /\ Inside'
    BY RunScans
<1>2. k \in Nat
  <2>1. pending' \in Seq(Item)
    BY <1>1 DEF Inside
  <2> QED BY <2>1
<1>3. CASE LexTextNode
  <2>1. isText
    BY <1>3, SourceTyped DEF LexTextNode, Runs, Inside, Home, Within, isText
  <2>2. Advances /\ k <= 3
    BY <1>3, <2>1, TextAdvancesOn
  <2> HIDE DEF k
  <2>3. k \in 0..3
    BY <1>2, <2>2
  <2> QED BY <2>2, <2>3, Zenon DEF k
<1>4. CASE ~LexTextNode
  <2>1. StateFn # "LexTextNode"
    BY <1>4 DEF Run, Runs, LexURI, LeftDelim, RightDelim, InsideAction, Space, Identifier, EspraURI, Number,
       String, LexIfExpr, LexForExpr, LoopIdentifier
  <2>2. k <= 2
    <3>1. CASE LexURI \/ LeftDelim
      <4>1. \E it : pending' \in {<<>>, <<it>>}
        BY <3>1 DEF LexURI, LeftDelim, EmitsBack, Emits, Becomes
      <4> QED BY <4>1
    <3>2. CASE ~(LexURI \/ LeftDelim)
      <4>1. StateFn \notin Home("LexTextNode")
        BY <1>4, <3>2 DEF Run, Home, Runs, RightDelim, InsideAction, Space, Identifier, EspraURI, Number,
           String, LexIfExpr, LexForExpr, LoopIdentifier
      <4>2. ~ScansText
        BY <4>1 DEF ScansText
      <4> QED BY <1>1, <4>2 DEF Scans, ScansDelim, ScansError, ScansAttribute, ScansQuietly, ScansInner, ScansString
    <3> QED BY <3>1, <3>2
  <2>3. Advances
    BY <1>4, ActionAdvances, DelimAdvances, WordAdvances, StringAdvances, AttributeAdvances DEF Run
  <2> HIDE DEF k
  <2>4. k \in 0..3
    BY <1>2, <2>2
  <2> QED BY <2>3, <2>4, Zenon DEF k
<1> QED BY <1>3, <1>4

\* A receive takes one item from those on offer and leaves the scanner alone.
LEMMA ReceiveTakes ==
    ASSUME Parse
    PROVE  /\ pending # <<>> /\ pending' = Tail(pending)
           /\ source' = source /\ StateFn' = StateFn /\ Pos' = Pos /\ emitted' = emitted
BY DEF Parse, OpenParen, Terminal, ArgKey, Pipe, PipesInto, CloseExpr, WrongEnd, Skip, KeyVal,
       ParseTextNode, ParseForExpr, InExpr, AtTop, Receives

\* A call that advances makes up for what it emits.
LEMMA WorkGrows ==
    ASSUME NEW p \in Int, NEW q \in Int, NEW r \in 0..4, NEW s \in 0..4, NEW k \in 0..3,
           q > p \/ (q = p /\ s > r)
    PROVE  4 * (5 * q + s) - k > 4 * (5 * p + r)
<1>1. 5 * q + s >= 5 * p + r + 1
  <2>1. CASE q >= p + 1
    <3>1. 5 * q >= 5 * p + 5
      BY <2>1
    <3> QED BY <3>1
  <2>2. CASE q = p /\ s >= r + 1
    BY <2>2
  <2> QED BY <2>1, <2>2
<1> DEFINE x == 5 * q + s
           y == 5 * p + r
<1>2. x \in Int /\ y \in Int /\ x >= y + 1
    BY <1>1
<1> HIDE DEF x, y
<1>3. 4 * x - k > 4 * y
    BY <1>2
<1> QED BY <1>3 DEF x, y

\* Each step of either side does some of the work.
LEMMA StepWorks ==
    ASSUME Inside, Inside', Numeral, isText => Narrow, NextStep
    PROVE  Work' > Work
<1> DEFINE n == Len(input)
           rank == Rank(StateFn, Pos, n)
<1>1. n \in Nat /\ Pos \in 0..n /\ rank \in 0..4 /\ Len(pending) \in Nat /\ Len(pending') \in Nat /\ Pos' \in Int
  <2>1. rank \in 0..4
    BY DEF Rank
  <2>2. pending \in Seq(Item) /\ pending' \in Seq(Item) /\ Pos' \in Int
    <3>1. Pos' \in 0..Len(input') /\ pending' \in Seq(Item) /\ pending \in Seq(Item)
      BY DEF Inside
    <3>2. Pos' \in Int
      BY <3>1
    <3> QED BY <3>1, <3>2
  <2> QED BY <2>1, <2>2, Readable DEF Inside
<1>2. CASE Run
  <2>1. Advances
    BY <1>2, RunAdvances
  <2>2. pending = <<>> /\ source' = source
    BY <1>2, RunScans DEF Scans
  <2> DEFINE rank2 == Rank(StateFn', Pos', n)
  <2>3. rank2 \in 0..4
    BY DEF Rank
  <2>4. Pos' > Pos \/ (Pos' = Pos /\ rank2 > rank)
    BY <1>1, <2>1 DEF Advances
  <2>5. Work = 4 * (5 * Pos + rank) /\ Work' = 4 * (5 * Pos' + rank2) - Len(pending')
    BY <1>1, <2>2 DEF Work, Calls, input
  <2> DEFINE k == Len(pending')
  <2>6. k \in 0..3
    BY <1>2, RunAdvances
  <2>7. Pos \in Int /\ Pos' \in Int
    BY <1>1
  <2>8. rank \in 0..4
    BY <1>1
  <2> HIDE DEF rank, rank2, n, k
  <2>9. 4 * (5 * Pos' + rank2) - k > 4 * (5 * Pos + rank)
    BY <2>3, <2>4, <2>6, <2>7, <2>8, WorkGrows
  <2> QED BY <2>5, <2>9 DEF k
<1>3. CASE Parse
  <2>1. Len(pending') = Len(pending) - 1
    BY <1>3, ReceiveTakes DEF Inside
  <2>2. Work = 4 * (5 * Pos + rank) - Len(pending) /\ Work' = 4 * (5 * Pos + rank) - Len(pending')
    BY <1>3, ReceiveTakes DEF Work, Calls, input
  <2> HIDE DEF rank
  <2> QED BY <1>1, <2>1, <2>2
<1> QED BY <1>2, <1>3 DEF NextStep

\* Every step of a parse brings it nearer to its end (ui.go:315-760,
\* lex.go:94-130): whatever the two goroutines do next, on an attribute and on a
\* text without characters of more than one byte, a quantity grows that the length of the input
\* bounds.  So no parse goes on for ever, which TextAdvances would ask of every text.
THEOREM ParsesWearOut ==
    Spec => /\ [](Work \in Int /\ Work <= 20 * Len(input) + 16)
            /\ [][(isText => Narrow) => Work' > Work]_vars
<1>1. Init => Numeral
  <2> SUFFICES ASSUME Init PROVE Numeral
    OBVIOUS
  <2>1. StateFn = source.name
    BY DEF Init, LexInit
  <2>2. source.name \in {"LexTextNode", "LexIfExpr", "LexForExpr"}
    BY SourcesAssumption DEF Init, LexInit, Source
  <2> QED BY <2>1, <2>2 DEF Numeral
<1>2. IInv /\ Numeral /\ [NextStep]_vars => Numeral'
  <2> SUFFICES ASSUME IInv, Numeral, [NextStep]_vars PROVE Numeral'
    OBVIOUS
  <2>1. CASE Run
    BY <2>1, NumeralKept DEF IInv
  <2>2. CASE Parse \/ UNCHANGED vars
    <3>1. source' = source /\ StateFn' = StateFn /\ Pos' = Pos
      BY <2>2, ReceiveTakes DEF vars, lexVars
    <3> QED BY <3>1 DEF Numeral, Peek, Next, input
  <2> QED BY <2>1, <2>2 DEF NextStep
<1>3. IInv => Work \in Int /\ Work <= 20 * Len(input) + 16
  <2> DEFINE n == Len(input)
             rank == Rank(StateFn, Pos, n)
  <2> SUFFICES ASSUME IInv PROVE Work \in Int /\ Work <= 20 * n + 16
    OBVIOUS
  <2>1. n \in Nat /\ Pos \in 0..n /\ rank \in 0..4 /\ Len(pending) \in Nat
    BY Readable DEF IInv, Inside, Rank
  <2>2. Work = 4 * (5 * Pos + rank) - Len(pending)
    BY DEF Work, Calls
  <2> HIDE DEF rank, n
  <2> QED BY <2>1, <2>2
<1>4. IInv /\ IInv' /\ Numeral /\ [NextStep]_vars => [(isText => Narrow) => Work' > Work]_vars
    BY StepWorks DEF IInv
<1> QED BY <1>1, <1>2, <1>3, <1>4, InvariantHolds, PTL DEF Spec
=============================================================================
