------------------------------- MODULE Domly -------------------------------
(***************************************************************************)
(* GenDomly of src/espra/ui/ui.go: an HTML fragment becomes a Domly, the   *)
(* nested lists from which the browser builds the page.  A fragment is a   *)
(* function from places to nodes: its own place is <<>>, and that of the   *)
(* child k of the node at p is Append(p, k).  The calls in progress are    *)
(* those for the node at hand and for all it is in.  The texts of the      *)
(* fragment stand for how ParseTextNode, ParseIfExpr and ParseForExpr,     *)
(* which are in Template, fare on them.                                    *)
(***************************************************************************)
EXTENDS Naturals, Sequences, FiniteSets, SequencesExt

\* Texts: nothing, plain text, text with an action, an action alone, an error.
Texts == {"", "plain", "mixed", "action", "broken"}

Parses(text) == text # "broken"

ParsedText(text) ==
    CASE text \in {"", "broken"} -> <<>>
      [] text = "plain" -> <<<<"text", "plain">>>>
      [] text = "mixed" -> <<<<"text", "head ">>, <<"expr", "action">>>>
      [] text = "action" -> <<<<"expr", "action">>>>

\* A text of its own is not left in a list.
extractVal(parsed) ==
    IF Len(parsed) = 1 /\ parsed[1][1] = "text" THEN parsed[1] ELSE <<"list", parsed>>

replacements == [class |-> "className", readonly |-> "readOnly"]

\* A label's attribute "for" is no loop.
KeyOf(tag, key) ==
    IF key \in DOMAIN replacements THEN replacements[key]
    ELSE IF tag = "label" /\ key = "for" THEN "htmlFor" ELSE key

\* The data of an element is its tag, that of a text the text.
Node == [type : {"fragment", "element", "text", "comment"}, data : STRING,
         attrs : Seq(STRING \X Texts), kids : Nat]

IsFragment(frag) ==
    /\ <<>> \in DOMAIN frag
    /\ \A p \in DOMAIN frag :
        /\ p \in Seq(Nat) /\ frag[p] \in Node
        /\ frag[p].type = "fragment" <=> p = <<>>
        /\ frag[p].type = "text" => frag[p].data \in Texts
        /\ frag[p].type \in {"text", "comment"} => frag[p].kids = 0 /\ frag[p].attrs = <<>>
        /\ \A k \in 1..frag[p].kids : Append(p, k) \in DOMAIN frag
        /\ \A n \in 1..Len(p) :
            SubSeq(p, 1, n - 1) \in DOMAIN frag /\ p[n] \in 1..frag[SubSeq(p, 1, n - 1)].kids

Nothing == [p \in {<<>>} |-> [type |-> "fragment", data |-> "", attrs |-> <<>>, kids |-> 0]]

VARIABLES
    dom,       \* the fragment
    at,        \* the place of the node at hand
    phase,     \* what is done with it: "idle" outside GenDomly
    next,      \* the attribute, the child or the wrapper that comes next
    attrs,     \* its attributes so far
    wrappers,  \* place -> data_wrappers
    lists,     \* place -> the lists made for the node, the outermost last
    err        \* of the last call of GenDomlyNode to return

domlyVars == <<dom, at, phase, next, attrs, wrappers, lists, err>>

DomlyInit ==
    /\ dom = Nothing /\ at = <<>> /\ phase = "idle" /\ next = 1 /\ attrs = {}
    /\ wrappers = [p \in {<<>>} |-> <<>>] /\ lists = [p \in {<<>>} |-> <<<<>>>>] /\ err = FALSE

GenDomly(frag) ==
    /\ dom' = frag /\ at' = <<>> /\ phase' = "kids" /\ next' = 1 /\ attrs' = {}
    /\ wrappers' = [p \in DOMAIN frag |-> <<>>]
    /\ lists' = [p \in DOMAIN frag |-> IF p = <<>> THEN <<<<>>>> ELSE <<>>]
    /\ err' = FALSE

----------------------------------------------------------------------------
(* GenDomlyNode: the attributes of an element.                             *)

IsWrapper(tag, attr) == KeyOf(tag, attr[1]) \in {"if", "for"}

Attribute(attr) ==
    /\ phase = "attrs" /\ next <= Len(dom[at].attrs) /\ attr = dom[at].attrs[next]
    /\ UNCHANGED <<dom, at>>

\* What the parser returns along with an error is not told apart.
Broken == <<<<"broken", "">>>>

\* It is returned in place of the element.
AttributeFails(attr) ==
    /\ Attribute(attr) /\ ~Parses(attr[2])
    /\ lists' = [lists EXCEPT ![at] = <<Broken>>]
    /\ phase' = "return" /\ err' = TRUE
    /\ UNCHANGED <<next, attrs, wrappers>>

Wrapper(tag, attr) == <<KeyOf(tag, attr[1]), attr[2]>>

AddWrapper(attr) ==
    /\ Attribute(attr) /\ Parses(attr[2]) /\ IsWrapper(dom[at].data, attr)
    /\ wrappers' = [wrappers EXCEPT ![at] = Append(@, Wrapper(dom[at].data, attr))]
    /\ next' = next + 1
    /\ UNCHANGED <<phase, attrs, lists, err>>

AttrOf(tag, attr) == <<KeyOf(tag, attr[1]), extractVal(ParsedText(attr[2]))>>

AddAttribute(attr) ==
    /\ Attribute(attr) /\ Parses(attr[2]) /\ ~IsWrapper(dom[at].data, attr)
    /\ attrs' = attrs \cup {AttrOf(dom[at].data, attr)}
    /\ next' = next + 1
    /\ UNCHANGED <<phase, wrappers, lists, err>>

\* An item is appended to the first list made for the node at p.
AppendTo(p, item) == lists' = [lists EXCEPT ![p][1] = Append(@, item)]

\* Those that wrap are left out of the list even if there are no others.
EndAttributes ==
    /\ phase = "attrs" /\ next > Len(dom[at].attrs)
    /\ IF dom[at].attrs = <<>> THEN UNCHANGED lists ELSE AppendTo(at, <<"attrs", attrs>>)
    /\ phase' = "kids" /\ next' = 1
    /\ UNCHANGED <<dom, at, attrs, wrappers, err>>

----------------------------------------------------------------------------
(* Its children, and those of the fragment in GenDomly.                    *)

Kid(type) ==
    /\ phase = "kids" /\ next <= dom[at].kids /\ dom[Append(at, next)].type = type
    /\ UNCHANGED dom

EnterElement ==
    /\ Kid("element")
    /\ at' = Append(at, next) /\ phase' = "attrs" /\ next' = 1 /\ attrs' = {}
    /\ wrappers' = [wrappers EXCEPT ![at'] = <<>>]
    /\ lists' = [lists EXCEPT ![at'] = <<<<<<"tag", dom[at'].data>>>>>>]
    /\ UNCHANGED err

\* Texts at the top are left out.
SkipKid ==
    /\ Kid("comment") \/ (Kid("text") /\ at = <<>>)
    /\ next' = next + 1
    /\ UNCHANGED <<at, phase, attrs, wrappers, lists, err>>

AddText ==
    /\ Kid("text") /\ at # <<>> /\ Parses(dom[Append(at, next)].data)
    /\ AppendTo(at, extractVal(ParsedText(dom[Append(at, next)].data)))
    /\ next' = next + 1
    /\ UNCHANGED <<at, phase, attrs, wrappers, err>>

\* The element is returned as far as it is, without wrappers.
TextFails ==
    /\ Kid("text") /\ at # <<>> /\ ~Parses(dom[Append(at, next)].data)
    /\ phase' = "return" /\ err' = TRUE
    /\ UNCHANGED <<at, next, attrs, wrappers, lists>>

EndKids ==
    /\ phase = "kids" /\ at # <<>> /\ next > dom[at].kids
    /\ phase' = "wrap" /\ next' = Len(wrappers[at])
    /\ UNCHANGED <<dom, at, attrs, wrappers, lists, err>>

----------------------------------------------------------------------------
(* The wrappers, and the way back.                                         *)

\* What stands for the node at p in another list: the last list made for it.
ListOf(p) == <<"node", p, Len(lists[p])>>

\* The last wrapper is put round the element first.
Wrap ==
    /\ phase = "wrap" /\ next > 0
    /\ lists' = [lists EXCEPT ![at] = Append(@, <<wrappers[at][next], ListOf(at)>>)]
    /\ next' = next - 1
    /\ UNCHANGED <<dom, at, phase, attrs, wrappers, err>>

ReturnNode ==
    /\ phase = "wrap" /\ next = 0
    /\ phase' = "return" /\ err' = FALSE
    /\ UNCHANGED <<dom, at, next, attrs, wrappers, lists>>

\* An error is returned in its turn, except by GenDomly, in which that of the
\* next element takes its place.
AddElement ==
    /\ phase = "return" /\ (Len(at) = 1 \/ ~err)
    /\ AppendTo(Front(at), ListOf(at))
    /\ at' = Front(at) /\ phase' = "kids" /\ next' = Last(at) + 1
    /\ UNCHANGED <<dom, attrs, wrappers, err>>

ElementFails ==
    /\ phase = "return" /\ Len(at) > 1 /\ err
    /\ at' = Front(at)
    /\ UNCHANGED <<dom, phase, next, attrs, wrappers, lists, err>>

AtAttribute(attr) == AttributeFails(attr) \/ AddWrapper(attr) \/ AddAttribute(attr)
AtKid == EnterElement \/ SkipKid \/ AddText \/ TextFails

DomlyNext ==
    \/ phase = "attrs" /\ next <= Len(dom[at].attrs) /\ AtAttribute(dom[at].attrs[next])
    \/ EndAttributes \/ AtKid \/ EndKids \/ Wrap \/ ReturnNode \/ AddElement \/ ElementFails

\* GenDomly has come to the end of the fragment.
Generated == phase = "kids" /\ at = <<>> /\ next > dom[<<>>].kids

----------------------------------------------------------------------------
(* What the lists of a fragment are to be.                                 *)

Breaks(node) ==
    \/ node.type = "text" /\ ~Parses(node.data)
    \/ \E i \in 1..Len(node.attrs) : ~Parses(node.attrs[i][2])

\* Nothing is in error in the node at p or below.
Clean(frag, p) == \A q \in DOMAIN frag : IsPrefix(p, q) => ~Breaks(frag[q])

\* The text a value was made of.
TextOf(val) == CHOOSE text \in Texts \ {"broken"} : extractVal(ParsedText(text)) = val

Elements(frag) == {k \in 1..frag[<<>>].kids : frag[<<k>>].type = "element"}

\* Of the children of the node at p, those that are to be in its list, and of
\* its attributes those that wrap it.
KidsIn(frag, p) ==
    {k \in 1..frag[p].kids : frag[Append(p, k)].type \in IF p = <<>> THEN {"element"} ELSE {"element", "text"}}
WrappersOf(frag, p) == {i \in 1..Len(frag[p].attrs) : IsWrapper(frag[p].data, frag[p].attrs[i])}

UpTo(S, n) == Cardinality({i \in S : i <= n})

\* Its list has, in order and after what comes at its head, a text for each
\* text and the outermost list of each element.
ListsKids(frag, ls, p, head) ==
    LET list == ls[p][1] kids == KidsIn(frag, p)
    IN  /\ Len(list) = head + Cardinality(kids)
        /\ \A k \in kids :
            LET item == list[head + UpTo(kids, k)] q == Append(p, k)
            IN  IF frag[q].type = "text" THEN TextOf(item) = frag[q].data
                ELSE item = <<"node", q, Len(ls[q])>> /\ ls[q] # <<>>

\* The head of an element's list.
HeadOf(frag, p) == IF frag[p].attrs = <<>> THEN 1 ELSE 2

ListsHead(frag, ls, p) ==
    LET list == ls[p][1] node == frag[p]
        plain == {node.attrs[i] : i \in (1..Len(node.attrs)) \ WrappersOf(frag, p)}
    IN  /\ list[1] = <<"tag", node.data>>
        /\ node.attrs # <<>> =>
            /\ list[2][1] = "attrs"
            /\ {<<a[1], TextOf(a[2])>> : a \in list[2][2]} = {<<KeyOf(node.data, a[1]), a[2]>> : a \in plain}

\* It is wrapped in as many lists, the first wrapper outermost.
ListsWrappers(frag, ls, p) ==
    LET node == frag[p] wraps == WrappersOf(frag, p) n == Cardinality(wraps)
    IN  /\ Len(ls[p]) = n + 1
        /\ \A i \in wraps :
            LET m == n + 1 - UpTo(wraps, i)
            IN  ls[p][m + 1] = <<Wrapper(node.data, node.attrs[i]), <<"node", p, m>>>>

\* The Domly of a fragment has each of its elements without an error, whole.
Faithful(frag, ls) ==
    /\ ListsKids(frag, ls, <<>>, 0)
    /\ \A p \in DOMAIN frag :
        frag[p].type = "element" /\ Clean(frag, <<p[1]>>) =>
            ListsHead(frag, ls, p) /\ ListsKids(frag, ls, p, HeadOf(frag, p)) /\ ListsWrappers(frag, ls, p)

\* The last of its elements is without an error, if it has any.
EndsClean(frag) ==
    \A k \in Elements(frag) : (\A j \in Elements(frag) : j <= k) => Clean(frag, <<k>>)
=============================================================================
