----------------------------- MODULE MCPrograms -----------------------------
(***************************************************************************)
(* The programs that share nothing with the others: the App Engine         *)
(* application, MatchDB, html2domly with the build that calls it, and      *)
(* genapi.  One of them runs, chosen at the start.                         *)
(***************************************************************************)
EXTENDS App, MatchDB, Html2Domly, GenApi

VARIABLE program

----------------------------------------------------------------------------
(* Instances.                                                              *)

\* A username in two spellings and another that only begins like it, an email
\* address, and what is refused: nothing, one letter, a dash at the end.  The
\* Kelvin sign is three bytes and becomes one letter.
MCSpellings == {<<"a", "n">>, <<"A", "n">>, <<"a", "@", "n">>, <<>>, <<"a">>, <<"n", "-">>, <<KelvinSign>>}

MCUsernames == {<<"A", "n">>, <<"a", "-", "1">>}

\* The second peer's port does not fit in two bytes.
MCHostOf == "p1" :> "10.0.0.1" @@ "p2" :> "10.0.0.2"
MCPortOf == "p1" :> 8090 @@ "p2" :> 65537
MCClockOf == "p1" :> 3 @@ "p2" :> 3

Elem(tag, attributes, kids) == [type |-> "element", data |-> tag, attrs |-> attributes, kids |-> kids]
Text(text) == [type |-> "text", data |-> text, attrs |-> <<>>, kids |-> <<>>]
Comment == [type |-> "comment", data |-> "", attrs |-> <<>>, kids |-> <<>>]
b(text) == Elem("b", <<>>, <<Text(text)>>)

\* Each kind of attribute and child; wrappers in both orders; errors in an
\* attribute, in a text, in a grandchild, in the first and in the last element.
MCTrees == {
    <<>>,
    <<Elem("div", <<<<"class", "mixed">>, <<"for", "plain">>, <<"if", "action">>>>, <<Text("plain"), Comment, b("action")>>), Text("plain"),
      Elem("label", <<<<"if", "plain">>, <<"for", "plain">>, <<"id", "">>>>,
           <<b(""), Text("mixed"), Elem("p", <<<<"if", "plain">>, <<"for", "mixed">>>>, <<>>)>>)>>,
    <<b("broken"), Elem("p", <<<<"readonly", "broken">>>>, <<>>), b("plain")>>,
    <<b("plain"), Elem("div", <<>>, <<Elem("p", <<>>, <<b("broken")>>), Text("plain")>>), Comment>>}

\* A tree as a function from places.
RECURSIVE Places(_, _)
Places(p, node) ==
    p :> [node EXCEPT !.kids = Len(@)]
    @@ FoldFunction(LAMBDA f, g : f @@ g, <<>>, [k \in 1..Len(node.kids) |-> Places(Append(p, k), node.kids[k])])

MCFragments == {Places(<<>>, [type |-> "fragment", data |-> "", attrs |-> <<>>, kids |-> t]) : t \in MCTrees}

Function(name, doc, context, spaced, call, opens, closed, opts) ==
    [name |-> name, doc |-> doc, context |-> context, spaced |-> spaced,
     call |-> call, opens |-> opens, closed |-> closed, opts |-> opts]
method(name, opts) == Function(name, TRUE, TRUE, FALSE, TRUE, 1, <<"opts", "">>, opts)

An(kind, name) == [kind |-> kind, name |-> name, decls |-> <<>>]
GoFile(name, decls) == [kind |-> "file", name |-> name, decls |-> decls]

MCFiles == {
    GoFile("a.go", <<method("a.get", <<<<"anon", "">>, <<"cache", "">>>>), Function("helper", FALSE, TRUE, FALSE, FALSE, 0, <<>>, <<>>)>>),
    GoFile("b.go", <<Function("b.set", TRUE, TRUE, FALSE, FALSE, 0, <<>>, <<>>), Function("note", TRUE, FALSE, FALSE, FALSE, 0, <<>>, <<>>),
                     Function("b ", TRUE, TRUE, TRUE, FALSE, 0, <<>>, <<>>)>>),
    GoFile("c.go", <<method("c.get", <<<<"cache=", "3600">>, <<"auth", "">>>>), Function("c.two", TRUE, TRUE, FALSE, TRUE, 2, <<>>, <<>>),
                     Function("c.end", TRUE, TRUE, FALSE, TRUE, 1, <<"", "", "">>, <<>>),
                     Function("c.mid", TRUE, TRUE, FALSE, TRUE, 1, <<"opts", "mid", "">>, <<>>)>>),
    An("broken", "d.go"), GoFile("api.go", <<method("api", <<>>)>>), An("other", "readme"), An("link", "e")}

\* Up to two entries in each of two directories, one inside the other or not;
\* a directory, or the root, may not be readable.
MCEntries == {<<>>} \cup {<<e>> : e \in MCFiles} \cup {<<d, e>> : d \in MCFiles, e \in MCFiles}
MCDistinct == {s \in MCEntries : Len(s) = 2 => s[1] # s[2]}

Two(e, s) == Root :> <<e, An("dir", "x"), GoFile("m.go", <<method("m", <<>>)>>)>> @@ Append(Root, "x") :> s
Four(e, s) ==
    Root :> <<An("dir", "x"), An("dir", "z")>> @@ Append(Root, "x") :> <<e, An("dir", "y")>>
    @@ Append(Root, "z") :> <<e>> @@ (Root \o <<"x", "y">>) :> s
Without(t, p) == [q \in DOMAIN t \ {p} |-> t[q]]

MCPackages ==
    {Two(e, s) : e \in MCFiles, s \in MCDistinct} \cup {Four(e, s) : e \in MCFiles, s \in MCDistinct}
    \cup {Without(Two(e, <<>>), p) : e \in MCFiles, p \in {Root, Append(Root, "x")}}

MCIgnore == {<<"espra", "api.go">>, <<"espra", "z">>}

----------------------------------------------------------------------------

\* The programs that do not run start in one way.
Idle ==
    /\ IF program = "app" THEN TRUE
       ELSE /\ devServer = FALSE /\ sessions = <<>>
            /\ index = [key \in Keys |-> 0]
            /\ logins = [id \in LoginIDs |-> [username |-> CHOOSE name \in Usernames : TRUE,
                                              passphrase |-> CHOOSE secret \in Secrets : TRUE]]
            /\ current = CHOOSE key \in KeyIDs : TRUE
    /\ IF program = "matchdb" THEN TRUE ELSE options = CHOOSE o \in Options : TRUE
    /\ IF program = "html2domly" THEN TRUE ELSE templates = [n \in Names |-> NoFile]
    /\ IF program = "genapi" THEN TRUE ELSE tree = CHOOSE t \in Packages : TRUE

MCInit ==
    /\ program \in {"app", "matchdb", "html2domly", "genapi"}
    /\ Idle /\ Init /\ DBInit /\ H2DInit /\ APIInit

MCNext ==
    /\ UNCHANGED program
    /\ \/ program = "app" /\ Next /\ UNCHANGED <<dbVars, h2dVars, apiVars>>
       \/ program = "matchdb" /\ DBNext /\ UNCHANGED <<vars, h2dVars, apiVars>>
       \/ program = "html2domly" /\ H2DNext /\ UNCHANGED <<vars, dbVars, apiVars>>
       \/ program = "genapi" /\ APINext /\ UNCHANGED <<vars, dbVars, h2dVars>>

MCSpec == MCInit /\ [][MCNext]_<<program, vars, dbVars, h2dVars, apiVars>>

=============================================================================
