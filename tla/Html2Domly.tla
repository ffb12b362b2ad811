----------------------------- MODULE Html2Domly -----------------------------
(***************************************************************************)
(* src/html2domly, which compiles a directory of templates into            *)
(* templates.coffee, and the part of src/build that decides when it must   *)
(* run.  People change the templates meanwhile and may interrupt it.  Time *)
(* is counted in changes of templates: what is written has the time of the *)
(* last change.                                                            *)
(***************************************************************************)
EXTENDS Domly

CONSTANTS
    Names,       \* files in the directory of templates
    HtmlNames,   \* those that end in .html
    Fragments,   \* what templates may contain
    MaxEdits     \* bound: changes of templates

ASSUME EditAssumption == HtmlNames \subseteq Names /\ MaxEdits \in Nat

ASSUME FragmentAssumption == \A frag \in Fragments : IsFragment(frag)

VARIABLES
    templates,   \* name -> its file, missing if it has none
    coffee,      \* templates.coffee
    h2d,         \* where build and html2domly are
    todo,        \* names still to compile
    reading,     \* the name, if any, of the template in GenDomly
    now,
    disturbed    \* history: see Change, Interrupt

h2dVars == <<templates, coffee, h2d, todo, reading, now, disturbed, domlyVars>>

NoFile == [exists |-> FALSE, time |-> 0, frag |-> Nothing]
Contents(name) == IF name \in HtmlNames THEN Fragments ELSE {Nothing}
File(frag, time) == [exists |-> TRUE, time |-> time, frag |-> frag]
Listing == {n \in Names : templates[n].exists}

NoData == [err |-> TRUE, data |-> <<>>]
NoCoffee == [exists |-> FALSE, time |-> 0, exports |-> [n \in Names |-> NoData]]

H2DInit ==
    /\ templates \in [Names -> {NoFile} \cup {File(frag, 0) : frag \in Fragments \cup {Nothing}}]
    /\ \A n \in Names : templates[n].exists => templates[n].frag \in Contents(n)
    /\ coffee = NoCoffee
    /\ h2d = "build" /\ todo = {} /\ reading = {} /\ now = 0 /\ disturbed = TRUE
    /\ DomlyInit

\* MUTANT: the loop looks at one file only.
StaleFirstOnly ==
    coffee.exists => Listing # {} /\ templates[CHOOSE n \in Listing : TRUE].time > coffee.time

\* rebuild_domly_templates
Stale == coffee.exists => \E n \in Listing : templates[n].time > coffee.time

Decide ==
    /\ h2d = "build"
    /\ h2d' = IF Stale THEN "create" ELSE "fresh"
    /\ UNCHANGED <<templates, coffee, todo, now, disturbed, reading, domlyVars>>

\* The file is emptied before the names are read.
CreateFile ==
    /\ h2d = "create"
    /\ coffee' = [NoCoffee EXCEPT !.exists = TRUE, !.time = now]
    /\ h2d' = "list" /\ disturbed' = FALSE
    /\ UNCHANGED <<templates, todo, now, reading, domlyVars>>

List ==
    /\ h2d = "list"
    /\ todo' = Listing
    /\ h2d' = "compile"
    /\ UNCHANGED <<templates, coffee, now, disturbed, reading, domlyVars>>

\* The names come in any order.
SkipName(name) ==
    /\ h2d = "compile" /\ reading = {} /\ name \in todo \ HtmlNames
    /\ todo' = todo \ {name}
    /\ UNCHANGED <<templates, coffee, h2d, now, disturbed, reading, domlyVars>>

\* A file that is gone by now has no nodes to walk: that it cannot be read is
\* printed and no more.
ParseTemplate(name) ==
    /\ h2d = "compile" /\ reading = {} /\ name \in todo \cap HtmlNames
    /\ reading' = {name}
    /\ GenDomly(templates[name].frag)
    /\ UNCHANGED <<templates, coffee, h2d, todo, now, disturbed>>

Walk ==
    /\ reading # {} /\ DomlyNext
    /\ UNCHANGED <<templates, coffee, h2d, todo, reading, now, disturbed>>

\* The variables of GenDomly are its own.
Forget ==
    /\ dom' = Nothing /\ at' = <<>> /\ phase' = "idle" /\ next' = 1 /\ attrs' = {}
    /\ wrappers' = [p \in {<<>>} |-> <<>>] /\ lists' = [p \in {<<>>} |-> <<<<>>>>] /\ err' = FALSE

\* A template with an error is left out.
Export(name) ==
    /\ reading = {name} /\ Generated
    /\ coffee' = IF err THEN coffee
                 ELSE [coffee EXCEPT !.time = now, !.exports = [@ EXCEPT ![name] = [err |-> FALSE, data |-> lists]]]
    /\ todo' = todo \ {name} /\ reading' = {}
    /\ Forget
    /\ UNCHANGED <<templates, h2d, now, disturbed>>

Return ==
    /\ h2d = "compile" /\ todo = {}
    /\ coffee' = [coffee EXCEPT !.time = now]
    /\ h2d' = "build"
    /\ UNCHANGED <<templates, todo, now, disturbed, reading, domlyVars>>

\* The error of a directory that cannot be read ends the process too.
Interrupt ==
    /\ h2d \in {"list", "compile"}
    /\ h2d' = "build" /\ todo' = {} /\ reading' = {} /\ disturbed' = TRUE
    /\ Forget
    /\ UNCHANGED <<templates, coffee, now>>

BuildAgain ==
    /\ h2d = "fresh"
    /\ h2d' = "build"
    /\ UNCHANGED <<templates, coffee, todo, now, disturbed, reading, domlyVars>>

\* A template that is removed makes no file newer.  A change is no disturbance
\* before html2domly runs or before the build looks.
Change(name) ==
    /\ now < MaxEdits
    /\ now' = now + 1
    /\ \/ \E frag \in Contents(name) : templates' = [templates EXCEPT ![name] = File(frag, now')]
       \/ templates[name].exists /\ templates' = [templates EXCEPT ![name] = NoFile]
    /\ disturbed' = (disturbed \/ h2d \in {"list", "compile", "fresh"} \/ ~templates'[name].exists)
    /\ UNCHANGED <<coffee, h2d, todo, reading, domlyVars>>

H2DNext ==
    \/ Decide \/ CreateFile \/ List \/ Walk \/ Return \/ Interrupt \/ BuildAgain
    \/ \E name \in Names : SkipName(name) \/ ParseTemplate(name) \/ Export(name) \/ Change(name)

----------------------------------------------------------------------------

\* templates.coffee exports the template if its last element is without an
\* error, and of what it exports each element without an error, whole.
Current(name) ==
    LET frag == templates[name].frag
        export == coffee.exports[name]
        clean == templates[name].exists /\ EndsClean(frag)
    IN  /\ ~export.err <=> clean
        /\ clean => Faithful(frag, export.data)

\* When the build leaves templates.coffee as it is, the file exports just the
\* templates whose last element is sound, each with all of its sound elements:
\* unless templates were removed, or changed while html2domly ran or since, or
\* it was interrupted.
TemplatesCurrent == h2d = "fresh" /\ ~disturbed => \A n \in HtmlNames : Current(n)

H2DSpec == H2DInit /\ [][H2DNext]_h2dVars
=============================================================================
