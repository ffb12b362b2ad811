----------------------------- MODULE LiveServer -----------------------------
(***************************************************************************)
(* The Live Server of src/matchweb/main.go and http.go: publishing with    *)
(* its acknowledgement to the upstream, retried with growing pauses, the   *)
(* maintenance mode that two signals turn on and off, and the pages, which *)
(* a visitor asks for at the server or at the redirector beside it.  A     *)
(* crash loses everything the process knows, since nothing is stored.      *)
(***************************************************************************)
EXTENDS Naturals, Sequences

CONSTANTS
    Items,        \* the items publishers send, once each (a bound)
    PublishKey,   \* the configured publish-key, a sequence of characters
    Newline,      \* the character "\n"
    Keys,         \* the keys publishers send, sequences without "\n"
    ClusterID,    \* the publish-cluster-id
    Maintenance,  \* the "maintenance" option: start up in maintenance mode
    Redirects,    \* there is a redirect-url
    MaxSignals,   \* bound: the signals an operator sends
    MaxCrashes    \* bound: the crashes of the process

ASSUME KeyAssumption ==
    /\ PublishKey \in Seq(STRING \cup {Newline}) /\ PublishKey # <<>>
    /\ Keys \subseteq Seq(STRING)

\* setUpstreamInfo ends the process otherwise, as main does without a key.
ASSUME ClusterAssumption == \E k \in 0..30 : ClusterID = 2 ^ k

ASSUME BoundAssumption ==
    /\ Maintenance \in BOOLEAN /\ Redirects \in BOOLEAN
    /\ MaxSignals \in Nat /\ MaxCrashes \in Nat

\* powerOfTwos, in units of 100 ms; tries is its index.
powerOfTwos == [i \in 0..10 |-> 2 ^ i]
LastTry == 10

VARIABLES
    publish,      \* item -> where its publish request stands
    ack,          \* item -> where the goroutine of Publish stands
    tries,        \* item -> argument of AckPublish
    posts,        \* item -> acknowledgements the upstream received, by answer
    slept,        \* item -> history: time spent asleep, in units of 100 ms
    inMaintenance,
    pending,      \* signals the process has not been given yet: SIGUSR1 is TRUE, SIGUSR2 FALSE
    handling,     \* the signal whose handler runs
    ch,           \* the channel of handleMaintenance
    applying,     \* what its goroutine took from ch
    wanted,       \* history: the mode of the last signal the process was given
    visitor,      \* what a visitor asks for, and the last answer
    sent, crashes \* counters for the bounds

publishVars == <<publish, ack, tries, posts, slept>>
modeVars == <<inMaintenance, pending, handling, ch, applying, wanted, sent>>
vars == <<publishVars, modeVars, visitor, crashes>>

\* An answer: its status, and the status that is logged.
Page(status, logged) == [status |-> status, logged |-> logged]

NoPage == Page("none", "none")
NoRequest == <<"none", "none">>

Init ==
    /\ publish = [i \in Items |-> "new"]
    /\ ack = [i \in Items |-> "none"]
    /\ tries = [i \in Items |-> 0]
    /\ posts = [i \in Items |-> [ok |-> 0, failed |-> 0]]
    /\ slept = [i \in Items |-> 0]
    /\ inMaintenance = Maintenance /\ wanted = Maintenance
    /\ pending = {} /\ handling = <<>> /\ ch = <<>> /\ applying = <<>>
    /\ visitor = [asks |-> NoRequest, got |-> NoPage]
    /\ sent = 0 /\ crashes = 0

----------------------------------------------------------------------------
(* Publishing.                                                             *)

\* ServeHTTP looks at the mode under the read lock and lets go of the lock
\* before the request is handled.
Admit(i) ==
    /\ publish[i] = "new"
    /\ publish' = [publish EXCEPT ![i] = IF inMaintenance THEN "503" ELSE "admitted"]
    /\ UNCHANGED <<ack, tries, posts, slept, modeVars, visitor, crashes>>

\* What bufio.Reader.ReadBytes('\n') returns for a first line.
ReadLine(line) == Append(line, Newline)

\* The answer to a publish request: its method, whether Content-Length is there
\* and within maxPublishSize, whether a first line ends, the key on that line,
\* and whether the rest decodes as an Item.
Reply(request) ==
    CASE request.method # "POST" -> "404"
      [] request.method = "POST" /\ (~request.length \/ ~request.line) -> "400"
      [] request.method = "POST" /\ request.length /\ request.line
            /\ ReadLine(request.key) # PublishKey -> "401"
      [] request.method = "POST" /\ request.length /\ request.line
            /\ ReadLine(request.key) = PublishKey /\ ~request.gob -> "400"
      [] OTHER -> "200"

Requests == [method : {"POST", "GET"}, length : BOOLEAN, line : BOOLEAN,
             key : Keys, gob : BOOLEAN]

\* The goroutine of Publish starts before the answer is written.
HandlePublish(i) ==
    /\ publish[i] = "admitted"
    /\ \E request \in Requests :
         /\ publish' = [publish EXCEPT ![i] = Reply(request)]
         /\ ack' = [ack EXCEPT ![i] = IF Reply(request) = "200" THEN "post" ELSE "none"]
    /\ UNCHANGED <<tries, posts, slept, modeVars, visitor, crashes>>

\* The upstream is outside src/matchweb: "failed" is any other answer than 200
\* and no answer at all, whether or not the acknowledgement reached it.
PostResults == {"ok", "failed"}

\* MUTANT: tries is compared after one more post.
PostAckOnceMore(i) ==
    /\ ack[i] = "post"
    /\ \E r \in PostResults :
         /\ posts' = [posts EXCEPT ![i][r] = @ + 1]
         /\ ack' = [ack EXCEPT ![i] = IF r = "ok" THEN "done"
                                      ELSE IF tries[i] = LastTry /\ posts[i].failed > LastTry THEN "gaveup"
                                      ELSE IF tries[i] = LastTry THEN "post" ELSE "sleep"]
    /\ UNCHANGED <<publish, tries, slept, modeVars, visitor, crashes>>

\* AckPublish from the return of Post to the pause or its own return.  Until
\* then the goroutine waits, for ever if there is no answer: the client it posts
\* with has no timeout.
PostAck(i) ==
    /\ ack[i] = "post"
    /\ \E r \in PostResults :
         /\ posts' = [posts EXCEPT ![i][r] = @ + 1]
         /\ ack' = [ack EXCEPT ![i] = IF r = "ok" THEN "done"
                                      ELSE IF tries[i] = LastTry THEN "gaveup" ELSE "sleep"]
    /\ UNCHANGED <<publish, tries, slept, modeVars, visitor, crashes>>

\* MUTANT: every round is taken for the first, tries never grows.
WakeAckSameTry(i) ==
    /\ ack[i] = "sleep"
    /\ ack' = [ack EXCEPT ![i] = "post"]
    /\ posts' = [posts EXCEPT ![i].failed = 0]
    /\ UNCHANGED <<publish, tries, slept, modeVars, visitor, crashes>>

WakeAck(i) ==
    /\ ack[i] = "sleep"
    /\ slept' = [slept EXCEPT ![i] = @ + powerOfTwos[tries[i]]]
    /\ tries' = [tries EXCEPT ![i] = @ + 1]
    /\ ack' = [ack EXCEPT ![i] = "post"]
    /\ UNCHANGED <<publish, posts, modeVars, visitor, crashes>>

----------------------------------------------------------------------------
(* Visitors.                                                               *)

serveIndex == Page("200", "200")
servePong == Page("200", "200")
serve404 == Page("404", "404")
serve503 == Page("503", "503")

\* It is logged as a page that was not found.
serve400 == Page("400", "404")

Redirect == Page("301", "301")

\* The opening handshake succeeds, or fails with the connection closed or open.
Upgrades == {Page("101", "200"), Page("closed", "none"), serve400}

Paths == {"/", "/connect", "/ping", "/other"}

Ask(at, path) ==
    /\ visitor.asks = NoRequest
    /\ at = "redirector" => Redirects
    /\ visitor' = [asks |-> <<at, path>>, got |-> NoPage]
    /\ UNCHANGED <<publishVars, modeVars, crashes>>

\* Every path is closed for maintenance, "/ping" too.
Answer ==
    /\ visitor.asks[1] = "live"
    /\ \E page \in IF inMaintenance THEN {serve503}
                   ELSE CASE visitor.asks[2] = "/" -> {serveIndex}
                          [] visitor.asks[2] = "/connect" -> Upgrades
                          [] visitor.asks[2] = "/ping" -> {servePong}
                          [] OTHER -> {serve404} :
         visitor' = [asks |-> NoRequest, got |-> page]
    /\ UNCHANGED <<publishVars, modeVars, crashes>>

\* The redirector knows of no maintenance.
RedirectAnswer ==
    /\ visitor.asks[1] = "redirector"
    /\ visitor' = [asks |-> NoRequest, got |-> IF visitor.asks[2] = "/ping" THEN servePong ELSE Redirect]
    /\ UNCHANGED <<publishVars, modeVars, crashes>>

----------------------------------------------------------------------------
(* Maintenance.                                                            *)

\* A signal that is pending already is not pending twice.
OperatorSignals(enable) ==
    /\ sent < MaxSignals
    /\ sent' = sent + 1
    /\ pending' = pending \cup {enable}
    /\ UNCHANGED <<inMaintenance, handling, ch, applying, wanted, publishVars, visitor, crashes>>

\* Of two pending signals either may come first; one handler runs at a time.
DeliverSignal(enable) ==
    /\ enable \in pending /\ handling = <<>>
    /\ pending' = pending \ {enable}
    /\ handling' = <<enable>>
    /\ wanted' = enable
    /\ UNCHANGED <<inMaintenance, ch, applying, sent, publishVars, visitor, crashes>>

\* MUTANT: the signal is dropped when the channel is full.
SignalHandlerDrops ==
    /\ handling # <<>>
    /\ ch' = (IF ch = <<>> THEN handling ELSE ch)
    /\ handling' = <<>>
    /\ UNCHANGED <<inMaintenance, pending, applying, wanted, sent, publishVars, visitor, crashes>>

\* The handlers of SIGUSR1 and SIGUSR2: ch <- blocks while ch is full.
SignalHandler ==
    /\ handling # <<>> /\ ch = <<>>
    /\ ch' = handling
    /\ handling' = <<>>
    /\ UNCHANGED <<inMaintenance, pending, applying, wanted, sent, publishVars, visitor, crashes>>

TakeSignal ==
    /\ applying = <<>> /\ ch # <<>>
    /\ applying' = ch
    /\ ch' = <<>>
    /\ UNCHANGED <<inMaintenance, pending, handling, wanted, sent, publishVars, visitor, crashes>>

\* MUTANT: the mode is only ever turned on.
SetMaintenanceOn ==
    /\ applying # <<>>
    /\ inMaintenance' = (inMaintenance \/ applying[1])
    /\ applying' = <<>>
    /\ UNCHANGED <<pending, handling, ch, wanted, sent, publishVars, visitor, crashes>>

SetMaintenance ==
    /\ applying # <<>>
    /\ inMaintenance' = applying[1]
    /\ applying' = <<>>
    /\ UNCHANGED <<pending, handling, ch, wanted, sent, publishVars, visitor, crashes>>

----------------------------------------------------------------------------
(* The process dies and is started again with the same options.            *)

Crash ==
    /\ crashes < MaxCrashes
    /\ crashes' = crashes + 1
    /\ publish' = [i \in Items |-> IF publish[i] = "admitted" THEN "dropped" ELSE publish[i]]
    /\ ack' = [i \in Items |-> IF ack[i] \in {"post", "sleep"} THEN "crashed" ELSE ack[i]]
    /\ inMaintenance' = Maintenance /\ wanted' = Maintenance
    /\ pending' = {} /\ handling' = <<>> /\ ch' = <<>> /\ applying' = <<>>
    /\ visitor' = [asks |-> NoRequest, got |-> NoPage]
    /\ UNCHANGED <<tries, posts, slept, sent>>

----------------------------------------------------------------------------

Work(i) == PostAck(i) \/ WakeAck(i)

Next ==
    \/ \E i \in Items : Admit(i) \/ HandlePublish(i) \/ Work(i)
    \/ \E enable \in BOOLEAN : OperatorSignals(enable) \/ DeliverSignal(enable)
    \/ SignalHandler \/ TakeSignal \/ SetMaintenance
    \/ \E at \in {"live", "redirector"}, path \in Paths : Ask(at, path)
    \/ Answer \/ RedirectAnswer
    \/ Crash

Spec == Init /\ [][Next]_vars

\* A goroutine that has slept, a handler of a signal and the goroutine behind
\* it run when they can, and a pending signal is delivered.  That the upstream
\* answers a post is nobody's promise: PostAck is without fairness.
FairSpec ==
    /\ Spec
    /\ \A i \in Items : WF_vars(WakeAck(i))
    /\ WF_vars(\E enable \in BOOLEAN : DeliverSignal(enable))
    /\ WF_vars(SignalHandler) /\ WF_vars(TakeSignal) /\ WF_vars(SetMaintenance)

----------------------------------------------------------------------------
(* Properties.                                                             *)

\* An accepted item is acknowledged by at most 11 posts, none of them after one
\* that succeeded, and an item that was not accepted is never acknowledged.  The
\* pauses double from 100 ms; giving up means 11 failures and 102.3 s of pauses,
\* with the last entry of powerOfTwos never used.
AcksBounded ==
    \A i \in Items :
        /\ posts[i].ok + posts[i].failed <= 11
        /\ posts[i].ok <= 1
        /\ posts[i].ok = 1 => ack[i] = "done"
        /\ posts[i].ok + posts[i].failed > 0 => publish[i] = "200"
        /\ slept[i] + 1 = 2 ^ tries[i]
        /\ ack[i] = "gaveup" => posts[i].failed = 11 /\ slept[i] = 1023

\* What is answered OK is acknowledged in the end, but for three losses that
\* nothing makes good: eleven posts that fail, a crash, and a post that is never
\* answered, at which the goroutine then waits for ever.
AckEnds ==
    \A i \in Items : publish[i] = "200" ~>
        \/ posts[i].ok = 1
        \/ ack[i] = "gaveup" /\ posts[i].failed = 11
        \/ ack[i] = "crashed"
        \/ [](ack[i] = "post")

\* The last signal the process was given, and has not forgotten by a crash, is
\* the last one that will be applied, wherever it is on its way: a handler that
\* waits, the channel of capacity one and the goroutine behind it neither lose
\* nor reorder signals.
SignalsInOrder ==
    LET coming == applying \o ch \o handling
    IN  wanted = IF coming = <<>> THEN inMaintenance ELSE coming[Len(coming)]

\* Once no more signals are sent none stays pending, the server is in the mode
\* of the last one it was given, and so are the answers visitors get from it.
ModeSettles ==
    /\ <>[](pending = {} /\ inMaintenance = wanted)
    /\ <>[][visitor.asks[1] = "live" /\ visitor'.got # NoPage => (visitor'.got = serve503 <=> wanted)]_vars
=============================================================================
