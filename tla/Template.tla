------------------------------ MODULE Template ------------------------------
(***************************************************************************)
(* The parsers of src/espra/ui/ui.go, ParseTextNode, ParseIfExpr and       *)
(* ParseForExpr, each the receiver of the items of a scanner (Lexer).      *)
(* One action receives one item and runs until the next receive.           *)
(*                                                                         *)
(* A call of ParseExpr is a frame on a stack.  A pipe calls ParseExpr for  *)
(* the rest with the same end, and afterwards only appends its own Domly   *)
(* to the result; so the frame starts over and keeps what is to append.    *)
(***************************************************************************)
EXTENDS Lexer

VARIABLES
    parser,  \* "run", or how the call ended
    frames,  \* the calls of ParseExpr in progress
    nodes,   \* the Domly of ParseTextNode, by kind of element, or the loopVars
    exprs    \* history: every Domly ParseExpr completed

parseVars == <<parser, frames, nodes, exprs>>
vars == <<lexVars, parseVars>>

Terminals == {"String", "Number", "Identifier", "Builtin", "EspraURI", "HashTag", "URI"}
isTerminal(typ) == typ \in Terminals

\* A call of ParseExpr.  end: endDelimToken; elems: the elements, a terminal by
\* its type or "expr" in parentheses; first, seen_argkey: the locals; inKeyVal:
\* in ParseArgKeyVal; isVal: the call was made by ParseArgKeyVal; from: the
\* number of the item that opened the expression; piped: the Domly to append to
\* the result, in that order, each by the number of the pipe that ended it.
NewFrame(end, isVal, from) ==
    [end |-> end, elems |-> <<>>, first |-> TRUE, seen_argkey |-> FALSE,
     inKeyVal |-> FALSE, isVal |-> isVal, from |-> from, piped |-> <<>>]

Init ==
    /\ LexInit
    /\ parser = "run"
    /\ frames = IF source.name = "LexIfExpr" THEN <<NewFrame("EOF", FALSE, 0)>> ELSE <<>>
    /\ nodes = <<>> /\ exprs = {}

----------------------------------------------------------------------------

item == Head(pending)
typ == item.typ
frame == Last(frames)

\* Items are numbered from 1; `number` is that of the item received.
received == Len(emitted) - Len(pending)
number == received + 1

\* The receive, common to all that follows.
Receives ==
    /\ parser = "run" /\ pending # <<>>
    /\ pending' = Tail(pending)
    /\ UNCHANGED <<source, StateFn, Pos, Start, ParenDepth, emitted>>

\* An error is handed up through every call.
Fail ==
    /\ parser' = "error"
    /\ frames' = <<>>
    /\ UNCHANGED <<nodes, exprs>>

SetFrame(f) ==
    /\ frames' = Append(Front(frames), f)
    /\ UNCHANGED <<parser, nodes, exprs>>

Call(end, isVal) ==
    /\ frames' = Append(frames, NewFrame(end, isVal, number))
    /\ UNCHANGED <<parser, nodes, exprs>>

----------------------------------------------------------------------------
(* ParseExpr.                                                              *)

InExpr == Receives /\ frames # <<>> /\ ~frame.inKeyVal

OpenParen == InExpr /\ typ = "LeftParen" /\ Call("RightParen", FALSE)

\* The assertion that domly[2][0] is an ItemType panics on an expression.
Terminal ==
    /\ InExpr /\ isTerminal(typ)
    /\ IF ~frame.first /\ frame.elems[1] = "expr"
       THEN parser' = "panic" /\ UNCHANGED <<frames, nodes, exprs>>
       ELSE IF frame.seen_argkey \/ (~frame.first /\ frame.elems[1] \in {"String", "Number"})
       THEN Fail
       ELSE SetFrame([frame EXCEPT !.first = FALSE, !.elems = Append(@, typ)])

ArgKey ==
    /\ InExpr /\ typ = "ArgKey"
    /\ IF frame.first THEN Fail
       ELSE SetFrame([frame EXCEPT !.seen_argkey = TRUE, !.inKeyVal = TRUE])

\* What follows a pipe is parsed by a call with the same end, to whose result
\* this call only appends its own Domly: the frame starts over.
PipesInto(end, piped) ==
    /\ InExpr /\ typ = "Pipe"
    /\ SetFrame([NewFrame(end, frame.isVal, frame.from) EXCEPT !.piped = piped])

\* MUTANT: what follows a pipe ends with the action.
PipeToDelim == PipesInto("RightDelim", <<number>> \o frame.piped)

\* MUTANT: what was handed on before goes first.
PipeLast == PipesInto(frame.end, Append(frame.piped, number))

Pipe == PipesInto(frame.end, <<number>> \o frame.piped)

\* What the caller does with it: another ParseExpr appends it, ParseArgKeyVal
\* has its value, ParseTextNode appends it and goes on, the others return it.
CloseExpr ==
    LET callers == Front(frames)
        caller == Last(callers)
    IN
    /\ InExpr /\ typ = frame.end
    /\ exprs' = exprs \cup {[from |-> frame.from, at |-> number, piped |-> frame.piped]}
    /\ \/ /\ callers # <<>> /\ frame.isVal
          /\ frames' = Append(Front(callers), [caller EXCEPT !.inKeyVal = FALSE])
          /\ UNCHANGED <<parser, nodes>>
       \/ /\ callers # <<>> /\ ~frame.isVal
          /\ frames' = Append(Front(callers), [caller EXCEPT !.elems = Append(@, "expr")])
          /\ UNCHANGED <<parser, nodes>>
       \/ /\ callers = <<>> /\ source.name = "LexTextNode"
          /\ frames' = <<>>
          /\ nodes' = Append(nodes, "expr")
          /\ UNCHANGED parser
       \/ /\ callers = <<>> /\ source.name # "LexTextNode"
          /\ frames' = <<>>
          /\ parser' = "ok"
          /\ UNCHANGED nodes

WrongEnd ==
    /\ InExpr
    /\ typ # frame.end
    /\ typ \in {"RightDelim", "RightParen", "EOF", "LeftDelim", "Text", "Error"}
    /\ Fail

\* MUTANT: a closing parenthesis too many is skipped.
SkipParen ==
    /\ InExpr /\ typ \in {"Space", "OpenQuote", "CloseQuote", "In", "RightParen"}
    /\ typ # frame.end
    /\ UNCHANGED parseVars

Skip ==
    /\ InExpr /\ typ \in {"Space", "OpenQuote", "CloseQuote", "In"}
    /\ UNCHANGED parseVars

\* ParseArgKeyVal.
KeyVal ==
    /\ Receives /\ frames # <<>> /\ frame.inKeyVal
    /\ \/ typ = "LeftParen" /\ Call("RightParen", TRUE)
       \/ isTerminal(typ) /\ SetFrame([frame EXCEPT !.inKeyVal = FALSE])
       \/ typ = "Space" /\ UNCHANGED parseVars
       \/ typ \notin Terminals \cup {"LeftParen", "Space"} /\ Fail

----------------------------------------------------------------------------
(* ParseTextNode and ParseForExpr outside ParseExpr.                       *)

AtTop == Receives /\ frames = <<>>

\* ParseURI depends on the spelling of the scheme.
ParseTextNode ==
    /\ AtTop /\ source.name = "LexTextNode"
    /\ \/ typ = "Text" /\ nodes' = Append(nodes, "text") /\ UNCHANGED <<parser, frames, exprs>>
       \/ /\ typ = "URI"
          /\ \E added \in {<<"uri">>, <<"text", "empty">>} : nodes' = nodes \o added
          /\ UNCHANGED <<parser, frames, exprs>>
       \/ typ = "LeftDelim" /\ Call("RightDelim", FALSE)
       \/ typ = "EOF" /\ parser' = "ok" /\ UNCHANGED <<frames, nodes, exprs>>
       \/ typ = "Error" /\ Fail

ParseForExpr ==
    /\ AtTop /\ source.name = "LexForExpr"
    /\ \/ typ = "Identifier" /\ nodes' = Append(nodes, "var") /\ UNCHANGED <<parser, frames, exprs>>
       \/ typ = "In" /\ Call("EOF", FALSE)
       \/ typ = "Space" /\ UNCHANGED parseVars
       \/ typ \in {"EOF", "Error"} /\ Fail

Parse ==
    \/ OpenParen \/ Terminal \/ ArgKey \/ Pipe \/ CloseExpr \/ WrongEnd \/ Skip \/ KeyVal
    \/ ParseTextNode \/ ParseForExpr

----------------------------------------------------------------------------

NextStep == (Run /\ UNCHANGED parseVars) \/ Parse

Spec == Init /\ [][NextStep]_vars

\* Both goroutines run whenever they can.
FairSpec == Spec /\ WF_vars(Run /\ UNCHANGED parseVars) /\ WF_vars(Parse)
----------------------------------------------------------------------------
(* Properties.                                                             *)

\* No character of more than two bytes.
Short(s) == \A p \in 0..Len(s) - 1 : Multibyte(s, p) => Width(s[p + 1]) = 2

\* Nothing of a template is lost or repeated: every byte behind the scanner is
\* in one item, except the "!" of a builtin and the ":" of a keyword.  Without
\* characters of three or four bytes, a delimiter item spells a delimiter, and
\* no text item contains the left one.
Covers ==
    /\ emitted \in Seq(Item)
    /\ \A b \in 0..Start - 1 :
         LET owners == {i \in 1..Len(emitted) : emitted[i].from <= b /\ b < emitted[i].to}
         IN  Cardinality(owners) = 1 \/ (owners = {} /\ input[b + 1] \in {"!", ":"})
    /\ Short(input) => \A i \in 1..Len(emitted) :
         LET val == SubSeq(input, emitted[i].from + 1, emitted[i].to)
         IN  CASE emitted[i].typ = "LeftDelim" -> val = leftDelim
               [] emitted[i].typ = "RightDelim" -> val = rightDelim
               [] emitted[i].typ = "Text" -> \A k \in 1..Len(val) - 1 : SubSeq(val, k, k + 1) # leftDelim
               [] OTHER -> TRUE

\* The scanner counts the parentheses the parser has open, so that its own
\* "unmatched parentheses" and the parser's check agree.
DepthAgrees ==
    parser = "run" /\ pending = <<>> =>
        ParenDepth = Cardinality({i \in 1..Len(frames) : frames[i].end = "RightParen"})

Count(t) == Cardinality({i \in 1..Len(emitted) : emitted[i].typ = t})

\* A text is accepted only if its delimiters and its parentheses pair up and
\* each action became one expression of the result.
AcceptedBalanced ==
    parser = "ok" /\ source.name = "LexTextNode" =>
        /\ Count("LeftDelim") = Count("RightDelim")
        /\ Count("LeftParen") = Count("RightParen")
        /\ Count("LeftDelim") = Cardinality({i \in 1..Len(nodes) : nodes[i] = "expr"})

\* The goroutine of the scanner has nothing left to send after a successful
\* parse: it does not stay blocked for ever.
NoLeakOnSuccess == parser = "ok" => StateFn = "ended" /\ pending = <<>>

\* Every template is parsed or refused: neither side waits for the other.
ParseEnds == <>(parser # "run")

\* "Backup steps back one rune": a turn of the loop over text consumes input,
\* unless it ends the text.
TextAdvances ==
    [][StateFn = "LexTextNode" /\ pending = <<>>
          => Pos' > Pos \/ StateFn' \in {"LeftDelim", "ended"}]_vars

\* The pipes of an expression itself, not of one inside it.
PipesOf(x) ==
    {p \in x.from + 1..x.at - 1 :
        emitted[p].typ = "Pipe" /\ \A y \in exprs : x.from < y.from => ~(y.from <= p /\ p <= y.at)}

\* What stands before a pipe is handed to what follows ("A|B === B(A)"): when
\* ParseExpr returns, its Domly has as its last arguments what stood before each
\* pipe of the expression, the nearest first, and nothing of an expression
\* around it or inside it.  A|B|C is C(B, A) and not C(B(A)), as reading "B(A)"
\* twice would have it: the code appends both to what stands last.
PipesHandOn ==
    \A x \in exprs :
        /\ Range(x.piped) = PipesOf(x)
        /\ \A i, j \in 1..Len(x.piped) : i < j => x.piped[i] > x.piped[j]
=============================================================================
