------------------------------- MODULE Loader -------------------------------
(***************************************************************************)
(* The loading screen of the page: coffee/init.coffee, with the part of    *)
(* coffee/client.coffee it calls.  An action is one callback of the        *)
(* browser's event loop.  Widths count steps of the bar: step, which is a  *)
(* tenth of its 240 pixels, and the 24 that progress adds are one each.    *)
(***************************************************************************)
EXTENDS Integers

CONSTANTS
    width,     \* the steps from the beginning of the bar to its end, 10 in the code
    MaxEvents  \* bound: how often a browser announces one script

\* The bar starts at its first step, and Google Analytics and the client move it
\* by three before finish: with no more steps than these it would be full too soon.
ASSUME WidthAssumption == width \in Nat /\ width > 4

ASSUME EventsAssumption == MaxEvents \in Nat

Scripts == {"ga", "client", "test"}

VARIABLES
    bar,      \* the variables target, finishReq and finished
    curwidth,
    repeats,  \* a timer will call progress again
    css,      \* the stylesheet
    script,   \* script -> "absent", "loading" or "loaded"
    events,   \* script -> times it was announced, the first sets _l
    runs,     \* calls of espra.run
    screen    \* the loading screen, and what espra.focus() found when it ended

vars == <<bar, curwidth, repeats, css, script, events, runs, screen>>

\* The page's first script.  Google Analytics is left out on localhost.  A
\* browser that lacks a feature only gets the upgrade page; otherwise progress
\* has been called once.
Init ==
    /\ bar = [target |-> 1, finishReq |-> 1, finished |-> FALSE]
    /\ \E ga, client \in {"absent", "loading"} :
         /\ script = [[s \in Scripts |-> "absent"] EXCEPT !["ga"] = ga, !["client"] = client]
         /\ IF client = "absent"
            THEN curwidth = 0 /\ repeats = FALSE /\ css = "upgrade" /\ screen = "upgrade"
            ELSE curwidth = 1 /\ repeats = TRUE /\ css = "loading" /\ screen = "shown"
    /\ events = [s \in Scripts |-> 0]
    /\ runs = 0

----------------------------------------------------------------------------

\* MUTANT: a step is a quarter of the bar.
incrQuarter(b) == [b EXCEPT !.target = IF @ + 3 > width THEN width ELSE @ + 3]

incr(b) == [b EXCEPT !.target = IF @ + 1 > width THEN width ELSE @ + 1]

\* MUTANT: finishReq is looked at before it is counted down.
finishLate(b) ==
    IF b.finishReq = 0 THEN [b EXCEPT !.target = width, !.finished = TRUE, !.finishReq = @ - 1]
    ELSE incr([b EXCEPT !.finishReq = @ - 1])

finish(b) ==
    LET less == [b EXCEPT !.finishReq = @ - 1]
    IN  IF less.finishReq = 0 THEN [target |-> width, finishReq |-> less.finishReq, finished |-> TRUE]
        ELSE incr(less)

\* The timer of progress.  espra is there when the client's script has run.
progress ==
    /\ repeats
    /\ curwidth' = IF bar.target > curwidth THEN curwidth + 1 ELSE curwidth
    /\ IF curwidth' < width THEN UNCHANGED <<repeats, screen>>
       ELSE /\ repeats' = FALSE
            /\ screen' = IF ~bar.finished THEN screen
                         ELSE IF script["client"] = "loaded" THEN "focused" ELSE "broken"
    /\ UNCHANGED <<bar, css, script, events, runs>>

----------------------------------------------------------------------------
(* The stylesheet.                                                         *)

\* The browser has it; the rules of one from another origin cannot be read.
CSSArrives ==
    /\ css = "loading"
    /\ css' \in {"visible", "hidden"}
    /\ UNCHANGED <<bar, curwidth, repeats, script, events, runs, screen>>

\* The timer of check that finds the rules; before, it only sets another timer.
check ==
    /\ css = "visible"
    /\ css' = "seen"
    /\ bar' = finish(bar)
    /\ UNCHANGED <<curwidth, repeats, script, events, runs, screen>>

----------------------------------------------------------------------------
(* The scripts.                                                            *)

\* espra.run: without CSS transitions it throws, which skips finish.  It asks
\* for test.js, because loading the client has set local['auth'] to 1.
run ==
    /\ runs' = runs + 1
    /\ \/ /\ bar' = incr(incr(bar))
          /\ script' = [script EXCEPT !["client"] = "loaded"]
       \/ /\ bar' = finish(incr(incr(bar)))
          /\ script' = [script EXCEPT !["client"] = "loaded", !["test"] = "loading"]

\* MUTANT: _l is not looked at.
JSTwice(s) ==
    /\ script[s] # "absent" /\ events[s] < MaxEvents
    /\ events' = [events EXCEPT ![s] = @ + 1]
    /\ IF s = "client" THEN run
       ELSE bar' = incr(bar) /\ script' = [script EXCEPT ![s] = "loaded"] /\ UNCHANGED runs
    /\ UNCHANGED <<curwidth, repeats, css, screen>>

\* onload or onreadystatechange; a script that has run is announced by either
\* or by both.
JS(s) ==
    /\ script[s] # "absent" /\ events[s] < MaxEvents
    /\ events' = [events EXCEPT ![s] = @ + 1]
    /\ IF events[s] > 0 THEN UNCHANGED <<bar, script, runs>>
       ELSE IF s = "client" THEN run
       ELSE bar' = incr(bar) /\ script' = [script EXCEPT ![s] = "loaded"] /\ UNCHANGED runs
    /\ UNCHANGED <<curwidth, repeats, css, screen>>

----------------------------------------------------------------------------

Next == progress \/ CSSArrives \/ check \/ \E s \in Scripts : JS(s)

Spec == Init /\ [][Next]_vars

\* Timers fire; the network may never answer.
FairSpec == Spec /\ WF_vars(progress) /\ WF_vars(check)

----------------------------------------------------------------------------
(* Properties.                                                             *)

\* While the loading screen is shown progress will be called again: the bar
\* cannot fill up before finish, where it would stop for ever.
NeverStalls == screen = "shown" => repeats

\* The client is started once, although two events may announce its script.
StartsOnce == runs <= 1

\* The loading screen ends once the stylesheet can be seen or the client is up
\* and has asked for test.js, whatever becomes of the rest.
LoadingEnds == (css = "visible" \/ script["test"] # "absent") ~> screen # "shown"
=============================================================================
