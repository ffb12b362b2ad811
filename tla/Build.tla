------------------------------- MODULE Build -------------------------------
(***************************************************************************)
(* The `app` task of the build script: a process that renders assets.json, *)
(* config.yaml and the templates into src/espra/html.go, once or in a      *)
(* watch loop, while the files are being edited.  It decides by            *)
(* modification times, of the files and of html.go.                        *)
(*                                                                         *)
(* The clock counts changes of files.  A file has the time of its last     *)
(* change, which also stands for its contents; html.go has the time of the *)
(* last change before it was written, so that a file is newer than html.go *)
(* exactly if it changed afterwards.  No two changes have the same time.   *)
(***************************************************************************)
EXTENDS Naturals

CONSTANTS
    Templates,  \* the names a template may have
    MaxClock,   \* bound: the time of the last change
    MaxStarts   \* bound: how often `build app` is run

ASSUME BuildAssumption ==
    /\ Templates \cap {"assets", "config", "none"} = {}
    /\ MaxClock \in Nat \ {0} /\ MaxStarts \in Nat

Files == Templates \cup {"assets", "config"}

VARIABLES
    clock, mtime,
    present,      \* the files that exist
    html,         \* html.go: its time, 0 if there is none, and what was rendered
    pc,
    watch,
    html_mtime,
    cache,        \* file -> time in info.cache, 0 if it has none
    contents,     \* file -> contents in info, 0 if it has none
    todo,         \* files of this round still to be looked at
    looked,       \* the file to be read next, if any, and the time stat gave it
    changed,
    starts,       \* counter for the bound
    began,        \* history: file -> its time when the round began, 0 if removed since
    good          \* history: html.go lacked no older change when the process started

fileVars == <<clock, mtime, present>>
infoVars == <<watch, html_mtime, starts, good>>
vars == <<fileVars, html, pc, infoVars, cache, contents, todo, looked, changed, began>>

Time == 0..MaxClock

Values ==
    /\ clock \in Time /\ mtime \in [Files -> Time] /\ present \subseteq Files
    /\ html \in [time : Time, rendered : [Files -> Time]]
    /\ pc \in {"off", "files", "templates", "write", "close", "sleep"}
    /\ html_mtime \in Time /\ starts \in 0..MaxStarts
    /\ cache \in [Files -> Time] /\ contents \in [Files -> Time] /\ began \in [Files -> Time]
    /\ todo \subseteq Files
    /\ looked \in [file : Files \cup {"none"}, time : Time]

Flags == watch \in BOOLEAN /\ changed \in BOOLEAN /\ good \in BOOLEAN

TypeOK == Values /\ Flags

Nothing == [f \in Files |-> 0]

NoFile == [file |-> "none", time |-> 0]

Idle == looked.file = "none"

\* html.go is missing or the rendering of what is there.
Init ==
    /\ clock = 1
    /\ \E there \in SUBSET Templates : present = there \cup {"assets", "config"}
    /\ mtime = [f \in Files |-> 1]
    /\ html \in {[time |-> 0, rendered |-> Nothing], [time |-> 1, rendered |-> mtime]}
    /\ pc = "off" /\ watch = FALSE /\ html_mtime = 0
    /\ cache = Nothing /\ contents = Nothing
    /\ todo = {} /\ looked = NoFile /\ changed = FALSE
    /\ starts = 0 /\ began = Nothing /\ good = TRUE

----------------------------------------------------------------------------
(* The files: assetgen writes assets.json, people everything else.         *)

Edit(f) ==
    /\ clock < MaxClock
    /\ clock' = clock + 1
    /\ mtime' = [mtime EXCEPT ![f] = clock']
    /\ present' = present \cup {f}
    /\ UNCHANGED <<html, pc, infoVars, cache, contents, todo, looked, changed, began>>

Remove(t) ==
    /\ clock < MaxClock
    /\ t \in present \cap Templates
    /\ clock' = clock + 1
    /\ present' = present \ {t}
    /\ began' = [began EXCEPT ![t] = 0]
    /\ UNCHANGED <<mtime, html, pc, infoVars, cache, contents, todo, looked, changed>>

----------------------------------------------------------------------------
(* The process.                                                            *)

BeginRound ==
    /\ pc' = "files"
    /\ todo' = {"assets", "config"}
    /\ changed' = FALSE
    /\ began' = [f \in Files |-> IF f \in present THEN mtime[f] ELSE 0]

\* app, up to the first call of build.
Start ==
    /\ pc = "off" /\ starts < MaxStarts
    /\ starts' = starts + 1
    /\ watch' \in BOOLEAN
    /\ html_mtime' = html.time
    /\ cache' = Nothing /\ contents' = Nothing
    /\ looked' = NoFile
    /\ good' = \A f \in present : mtime[f] > html.time \/ html.rendered[f] = mtime[f]
    /\ BeginRound
    /\ UNCHANGED <<fileVars, html>>

\* Ctrl-C, or an exception: assetgen fails, a file does not parse, a template
\* refers to what is not there.
Exit ==
    /\ pc # "off"
    /\ pc' = "off"
    /\ UNCHANGED <<fileVars, html, infoVars, cache, contents, todo, looked, changed, began>>

\* A template is cached under its name but looked up by its path: never found.
InCache(f) == f \notin Templates /\ cache[f] > 0

\* stat, and whether the file is to be read: assets.json, config.yaml, then the
\* templates in the order of listdir.  A template that is gone is an exception.
Look(f) ==
    /\ pc \in {"files", "templates"} /\ Idle
    /\ f \in todo /\ (f = "config" => "assets" \notin todo)
    /\ todo' = todo \ {f}
    /\ IF f \notin present THEN pc' = "off" /\ UNCHANGED looked
       ELSE /\ looked' = IF InCache(f) /\ cache[f] >= mtime[f] THEN looked
                         ELSE [file |-> f, time |-> mtime[f]]
            /\ UNCHANGED pc
    /\ UNCHANGED <<fileVars, html, infoVars, cache, contents, changed, began>>

\* MUTANT: the contents are read before the time.
ReadBeforeStat ==
    /\ pc \in {"files", "templates"} /\ ~Idle
    /\ LET f == looked.file IN
       /\ contents' = [contents EXCEPT ![f] = looked.time]
       /\ cache' = [cache EXCEPT ![f] = mtime[f]]
    /\ changed' = TRUE /\ looked' = NoFile
    /\ UNCHANGED <<fileVars, html, pc, infoVars, todo, began>>

\* The contents are those of now, the cached time is that of the stat.
Read ==
    /\ pc \in {"files", "templates"} /\ ~Idle
    /\ LET f == looked.file IN
       IF f \notin present THEN pc' = "off" /\ UNCHANGED <<cache, contents, changed>>
       ELSE /\ contents' = [contents EXCEPT ![f] = mtime[f]]
            /\ cache' = [cache EXCEPT ![f] = looked.time]
            /\ changed' = TRUE
            /\ UNCHANGED pc
    /\ looked' = NoFile
    /\ UNCHANGED <<fileVars, html, infoVars, todo, began>>

List ==
    /\ pc = "files" /\ todo = {} /\ Idle
    /\ pc' = "templates"
    /\ todo' = present \cap Templates
    /\ UNCHANGED <<fileVars, html, infoVars, cache, contents, looked, changed, began>>

\* build returns: the loop sleeps, a single build is over.
Done == IF watch THEN "sleep" ELSE "off"

\* MUTANT: html.go is looked at again before it is compared.
DecideByNow ==
    /\ pc = "templates" /\ todo = {} /\ Idle
    /\ pc' = IF changed /\ (html.time = 0 \/ \E f \in Files : cache[f] > html.time)
             THEN "write" ELSE Done
    /\ UNCHANGED <<fileVars, html, infoVars, cache, contents, todo, looked, changed, began>>

\* html_mtime is the time html.go had when the process started.
Decide ==
    /\ pc = "templates" /\ todo = {} /\ Idle
    /\ pc' = IF changed /\ (html_mtime = 0 \/ \E f \in Files : cache[f] > html_mtime)
             THEN "write" ELSE Done
    /\ UNCHANGED <<fileVars, html, infoVars, cache, contents, todo, looked, changed, began>>

\* open(..., 'wb') leaves an empty file.
Truncate ==
    /\ pc = "write"
    /\ html' = [time |-> clock, rendered |-> Nothing]
    /\ pc' = "close"
    /\ UNCHANGED <<fileVars, infoVars, cache, contents, todo, looked, changed, began>>

\* MUTANT: html.go is stamped by a clock that runs ahead.
WriteLate ==
    /\ pc = "close"
    /\ html' = [time |-> clock + 1, rendered |-> contents]
    /\ pc' = Done
    /\ UNCHANGED <<fileVars, infoVars, cache, contents, todo, looked, changed, began>>

Write ==
    /\ pc = "close"
    /\ html' = [time |-> clock, rendered |-> contents]
    /\ pc' = Done
    /\ UNCHANGED <<fileVars, infoVars, cache, contents, todo, looked, changed, began>>

Wake ==
    /\ pc = "sleep"
    /\ BeginRound
    /\ UNCHANGED <<fileVars, html, infoVars, cache, contents, looked>>

Process ==
    \/ \E f \in Files : Look(f)
    \/ Read \/ List \/ Decide \/ Truncate \/ Write \/ Wake

Next ==
    \/ \E f \in Files : Edit(f)
    \/ \E t \in Templates : Remove(t)
    \/ Start \/ Exit
    \/ Process

Spec == Init /\ [][Next]_vars

\* A process that is running goes on.
FairSpec == Spec /\ WF_vars(Process)

----------------------------------------------------------------------------
(* Properties.                                                             *)

\* What a round renders is no older than the files were when the round began,
\* whether it read them or took them from the cache, and whatever is edited
\* between a stat and a read.
RoundIsFresh ==
    pc \in {"write", "close"} => \A f \in present : contents[f] >= began[f]

\* Once nobody edits any more, the html.go a watching process leaves between
\* its writes renders every file as it is, if the process did not start on an
\* html.go that lacks a change older than itself.
Converges ==
    <>[](watch /\ good /\ pc \notin {"off", "close"} =>
            \A f \in present : html.rendered[f] = mtime[f])
=============================================================================
