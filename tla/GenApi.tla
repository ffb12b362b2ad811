------------------------------- MODULE GenApi -------------------------------
(***************************************************************************)
(* src/genapi: from a tree of Go packages, the methods of the API.  A tree *)
(* is a function from the path of a directory to what the system lists in  *)
(* it, in that order: directories, Go files with their declarations, other *)
(* files, and links that lead nowhere, on which Stat fails.  A directory   *)
(* that is not in the tree cannot be opened.                               *)
(***************************************************************************)
EXTENDS Naturals, Sequences, SequencesExt

CONSTANTS
    RootName,   \* the last name in the path of the root
    Packages,   \* trees
    Ignore      \* the ignore list, paths with the root in front

\* A declaration: whether it is a function with a comment and with *rpc.Context
\* for its first parameter, and the first line of the comment, "name" or
\* "name(opt, opt)": whether there is a space or comma in the name, whether the
\* line ends with ")", its number of "(", what follows, split at ")", and the
\* options as <<name, value>>.
Decl == [name : STRING, doc : BOOLEAN, context : BOOLEAN, spaced : BOOLEAN, call : BOOLEAN,
         opens : Nat, closed : Seq(STRING), opts : Seq(STRING \X STRING)]

Entry == [kind : {"dir", "file", "broken", "other", "link"}, name : STRING, decls : Seq(Decl)]

Injective(s) == \A i, j \in 1..Len(s) : s[i] = s[j] => i = j

ASSUME NameAssumption == RootName \in STRING

ASSUME TreeAssumption ==
    \A t \in Packages : \A p \in DOMAIN t :
        /\ p \in Seq(STRING) /\ t[p] \in Seq(Entry)
        /\ Injective([i \in 1..Len(t[p]) |-> t[p][i].name])

VARIABLES
    tree,
    methods,
    calls,      \* the calls of parseDirectory in progress, the innermost last
    apiState

apiVars == <<tree, methods, calls, apiState>>

\* Something between two ")" is let through, nothing between them is refused.
DefOk(f) ==
    /\ ~f.spaced
    /\ f.call => f.opens = 1 /\ ~(Len(f.closed) # 2 /\ f.closed[2] = "")

\* The last option about it counts.
Cache(f) ==
    LET caches == SelectSeq(f.opts, LAMBDA o : o[1] \in {"cache", "cache="})
    IN  IF caches = <<>> THEN ""
        ELSE IF Last(caches)[1] = "cache" THEN "rpc.LongCache" ELSE Last(caches)[2]

Listed(f) == f.doc /\ f.context /\ DefOk(f)

\* The method of the declaration d in the file k of the directory p.
Method(p, k, d) ==
    LET f == tree[p][k].decls[d]
    IN  [pkgpath |-> p, file |-> k, decl |-> d,
         name |-> f.name, anon |-> <<"anon", "">> \in ToSet(f.opts), cache |-> Cache(f)]

----------------------------------------------------------------------------

Root == <<RootName>>

APIInit == tree \in Packages /\ methods = <<>> /\ calls = <<>> /\ apiState = "start"

\* A call: the entry that comes next, the Go files found so far that are not
\* parsed, as numbers of entries, and the declaration that comes next.
Call(path) == [path |-> path, next |-> 1, files |-> {}, decl |-> 1]

GenerateAPI ==
    /\ apiState = "start"
    /\ calls' = <<Call(Root)>> /\ apiState' = "parsing"
    /\ UNCHANGED <<tree, methods>>

Top == calls[Len(calls)]
SetTop(call) == calls' = [calls EXCEPT ![Len(calls)] = call] /\ UNCHANGED <<tree, apiState>>

\* MUTANT: the error of a subdirectory is returned.
LeaveStrict(err) ==
    /\ calls' = IF err THEN <<>> ELSE SubSeq(calls, 1, Len(calls) - 1)
    /\ apiState' = IF calls' # <<>> THEN "parsing" ELSE IF err THEN "failed" ELSE "logged"
    /\ UNCHANGED tree

\* The error of a subdirectory is dropped.  That of the root ends the process
\* before the methods are logged.
Leave(err) ==
    /\ calls' = SubSeq(calls, 1, Len(calls) - 1)
    /\ apiState' = IF Len(calls) > 1 THEN "parsing" ELSE IF err THEN "failed" ELSE "logged"
    /\ UNCHANGED tree

OpenFails ==
    /\ calls # <<>> /\ Top.path \notin DOMAIN tree
    /\ Leave(TRUE) /\ UNCHANGED methods

\* The entry i of the directory p.
Sub(p, i) == Append(p, tree[p][i].name)
Ignored(p, i) == Sub(p, i) \in Ignore
Is(p, i, kind) == ~Ignored(p, i) /\ tree[p][i].kind = kind

\* The directory is read as far as its next entry i.
Reads(i) ==
    /\ calls # <<>> /\ Top.path \in DOMAIN tree
    /\ i = Top.next /\ i <= Len(tree[Top.path])

SkipEntry(i) ==
    /\ Reads(i) /\ (Ignored(Top.path, i) \/ Is(Top.path, i, "other"))
    /\ SetTop([Top EXCEPT !.next = i + 1]) /\ UNCHANGED methods

StatFails(i) ==
    /\ Reads(i) /\ Is(Top.path, i, "link")
    /\ Leave(TRUE) /\ UNCHANGED methods

\* Subdirectories are parsed as they are met, the files at the end.
EnterDirectory(i) ==
    /\ Reads(i) /\ Is(Top.path, i, "dir")
    /\ calls' = Append([calls EXCEPT ![Len(calls)] = [Top EXCEPT !.next = i + 1]], Call(Sub(Top.path, i)))
    /\ UNCHANGED <<tree, methods, apiState>>

AddFile(i) ==
    /\ Reads(i) /\ (Is(Top.path, i, "file") \/ Is(Top.path, i, "broken"))
    /\ SetTop([Top EXCEPT !.next = i + 1, !.files = @ \cup {i}]) /\ UNCHANGED methods

\* parsePackage has come to the file k.
Parsing(k) ==
    /\ calls # <<>> /\ Top.path \in DOMAIN tree /\ Top.next > Len(tree[Top.path])
    /\ k \in Top.files /\ \A j \in Top.files : k <= j

ParseFails(k) ==
    /\ Parsing(k) /\ tree[Top.path][k].kind = "broken"
    /\ Leave(TRUE) /\ UNCHANGED methods

ParseDecl(k) ==
    LET decls == tree[Top.path][k].decls IN
    /\ Parsing(k) /\ tree[Top.path][k].kind = "file" /\ Top.decl <= Len(decls)
    /\ methods' = IF Listed(decls[Top.decl]) THEN Append(methods, Method(Top.path, k, Top.decl)) ELSE methods
    /\ SetTop([Top EXCEPT !.decl = @ + 1])

NextFile(k) ==
    /\ Parsing(k) /\ tree[Top.path][k].kind = "file" /\ Top.decl > Len(tree[Top.path][k].decls)
    /\ SetTop([Top EXCEPT !.files = @ \ {k}, !.decl = 1]) /\ UNCHANGED methods

ReturnNil ==
    /\ calls # <<>> /\ Top.path \in DOMAIN tree /\ Top.next > Len(tree[Top.path]) /\ Top.files = {}
    /\ Leave(FALSE) /\ UNCHANGED methods

Read(i) == SkipEntry(i) \/ StatFails(i) \/ EnterDirectory(i) \/ AddFile(i)
Parse(k) == ParseFails(k) \/ ParseDecl(k) \/ NextFile(k)

APINext ==
    \/ GenerateAPI \/ OpenFails \/ ReturnNil
    \/ calls # <<>> /\ (Read(Top.next) \/ \E k \in Top.files : Parse(k))

APISpec == APIInit /\ [][APINext]_apiVars

----------------------------------------------------------------------------

\* Past no dead link the directory p leads to its subdirectory n.
Leads(p, n) ==
    \E j \in 1..Len(tree[p]) :
        /\ tree[p][j].name = n /\ Is(p, j, "dir")
        /\ \A i \in 1..j : ~Is(p, i, "link")

Entered(p) ==
    /\ p # <<>> /\ p[1] = Root[1]
    /\ \A k \in 1..Len(p) - 1 : SubSeq(p, 1, k) \in DOMAIN tree /\ Leads(SubSeq(p, 1, k), p[k + 1])
Reached == {p \in DOMAIN tree : Entered(p)}

\* What is declared in a package, and what it offers: all that, unless an entry
\* is in error.
DeclaredIn(p, k) == {d \in 1..Len(tree[p][k].decls) : Listed(tree[p][k].decls[d])}
Declares(p) ==
    UNION {{Method(p, k, d) : d \in DeclaredIn(p, k)} : k \in {k \in 1..Len(tree[p]) : Is(p, k, "file")}}
InError(p) == \E i \in 1..Len(tree[p]) : Is(p, i, "broken") \/ Is(p, i, "link")
Offers(p) == IF InError(p) THEN {} ELSE Declares(p)

\* Whatever is broken in one package, the others have every method listed, and
\* each once, unless it is the root, whose error leaves the API without any.
ApiKept ==
    apiState \in {"failed", "logged"} =>
        /\ UNION {Offers(p) : p \in Reached} \subseteq ToSet(methods)
        /\ ToSet(methods) \subseteq UNION {Declares(p) : p \in Reached}
        /\ Injective(methods)
        /\ apiState = "failed" <=> Root \notin DOMAIN tree \/ InError(Root)
=============================================================================
