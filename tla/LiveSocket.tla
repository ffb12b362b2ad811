----------------------------- MODULE LiveSocket -----------------------------
(***************************************************************************)
(* One WebSocket of the Live Server, src/matchweb/main.go: the goroutine   *)
(* of HandleWebSocket, whose select loop pings the client and writes back  *)
(* what it reads, and the goroutine of readWebSocket.  They share three    *)
(* channels of capacity one.  The client and the network are the           *)
(* environment.                                                            *)
(***************************************************************************)
EXTENDS Naturals, Sequences

CONSTANTS
    MaxMsgs,  \* bound: the messages a client sends, numbered from 1
    Windows,  \* how many messages a client may have unanswered
    Control,  \* a control frame, such as the answer to a ping
    TooBig    \* a message longer than SetReadMaxSize allows

ASSUME BoundsAssumption == MaxMsgs \in Nat /\ Windows \subseteq Nat \ {0}

ASSUME FramesAssumption == Control \notin Nat /\ TooBig \notin Nat /\ Control # TooBig

VARIABLES
    window,    \* how many messages this client has unanswered at most
    sent,      \* messages the client has sent
    inbox,     \* frames on their way to the server
    echoed,    \* messages the client has received
    up,        \* the connection works
    closed,    \* the server has closed it
    reader,    \* where readWebSocket stands
    data,      \* its local variable data
    handler,   \* where HandleWebSocket stands
    item,      \* its local variable read
    tick,      \* the ticker's channel is ready
    reads, writes, quit   \* the channels

envVars == <<window, sent, inbox, up>>
readerVars == <<reader, data>>
handlerVars == <<handler, item, closed>>
vars == <<envVars, readerVars, handlerVars, echoed, tick, reads, writes, quit>>

Init ==
    /\ window \in Windows
    /\ sent = 0 /\ inbox = <<>> /\ echoed = <<>> /\ up = TRUE /\ closed = FALSE
    /\ reader = "read" /\ data = 0
    /\ handler = "select" /\ item = 0 /\ tick = FALSE
    /\ reads = <<>> /\ writes = <<>> /\ quit = <<>>

----------------------------------------------------------------------------
(* The environment.                                                        *)

ClientSends ==
    /\ up /\ sent < MaxMsgs
    /\ sent - Len(echoed) < window
    /\ sent' = sent + 1
    /\ inbox' = Append(inbox, sent + 1)
    /\ UNCHANGED <<window, up, readerVars, handlerVars, echoed, tick, reads, writes, quit>>

\* At most one frame of this kind is on its way (a bound).
ClientSendsOther ==
    /\ up
    /\ \E f \in {Control, TooBig} :
         /\ \A i \in 1..Len(inbox) : inbox[i] # f
         /\ inbox' = Append(inbox, f)
    /\ UNCHANGED <<window, sent, up, readerVars, handlerVars, echoed, tick, reads, writes, quit>>

LinkFails ==
    /\ up
    /\ up' = FALSE
    /\ UNCHANGED <<window, sent, inbox, readerVars, handlerVars, echoed, tick, reads, writes, quit>>

\* A tick that finds the channel full is dropped by the ticker.
TickerFires ==
    /\ handler # "done" /\ ~tick
    /\ tick' = TRUE
    /\ UNCHANGED <<envVars, readerVars, handlerVars, echoed, reads, writes, quit>>

----------------------------------------------------------------------------
(* readWebSocket.                                                          *)

\* MUTANT: control frames are passed on like messages.
ReadAnyFrame ==
    /\ reader = "read" /\ ~closed
    /\ inbox # <<>> /\ Head(inbox) # TooBig
    /\ inbox' = Tail(inbox)
    /\ data' = IF Head(inbox) = Control THEN 1 ELSE Head(inbox)
    /\ reader' = "send"
    /\ UNCHANGED <<window, sent, up, handlerVars, echoed, tick, reads, writes, quit>>

ReadFrame ==
    /\ reader = "read" /\ ~closed
    /\ inbox # <<>> /\ Head(inbox) # TooBig
    /\ inbox' = Tail(inbox)
    /\ \/ /\ Head(inbox) = Control
          /\ UNCHANGED readerVars
       \/ /\ Head(inbox) # Control
          /\ data' = Head(inbox)
          /\ reader' = "send"
    /\ UNCHANGED <<window, sent, up, handlerVars, echoed, tick, reads, writes, quit>>

\* NextReader or ReadAll fails: the link is down, at once or with frames still
\* unread, the server closed it, or the message is too big.
ReadFails ==
    /\ reader = "read"
    /\ ~up \/ closed \/ (inbox # <<>> /\ Head(inbox) = TooBig)
    /\ reader' = "quit"
    /\ UNCHANGED <<envVars, data, handlerVars, echoed, tick, reads, writes, quit>>

ReaderSends ==
    /\ reader = "send" /\ reads = <<>>
    /\ reads' = <<data>>
    /\ reader' = "read"
    /\ data' = 0
    /\ UNCHANGED <<envVars, handlerVars, echoed, tick, writes, quit>>

\* MUTANT: the goroutine ends without a word.
ReaderEndsSilently ==
    /\ reader = "quit"
    /\ reader' = "done"
    /\ UNCHANGED <<envVars, data, handlerVars, echoed, tick, reads, writes, quit>>

ReaderQuits ==
    /\ reader = "quit" /\ quit = <<>>
    /\ quit' = <<TRUE>>
    /\ reader' = "done"
    /\ UNCHANGED <<envVars, data, handlerVars, echoed, tick, reads, writes>>

Reader == ReadFrame \/ ReadFails \/ ReaderSends \/ ReaderQuits

----------------------------------------------------------------------------
(* HandleWebSocket: the cases of its select and the deferred function.     *)

\* MUTANT: the connection is left open.
ReturnOpen == handler' = "done" /\ tick' = FALSE /\ UNCHANGED <<closed, item>>

Return == handler' = "done" /\ closed' = TRUE /\ tick' = FALSE /\ UNCHANGED item

\* Writing may fail at any time, and when the link is down it may also seem to
\* succeed; what is written then reaches nobody.
SelectTick ==
    /\ handler = "select" /\ tick
    /\ \/ tick' = FALSE /\ UNCHANGED handlerVars
       \/ Return
    /\ UNCHANGED <<envVars, readerVars, echoed, reads, writes, quit>>

\* MUTANT: case <-reads, without the value.
SelectReadIgnore ==
    /\ handler = "select" /\ reads # <<>>
    /\ reads' = <<>>
    /\ UNCHANGED <<envVars, readerVars, handlerVars, echoed, tick, writes, quit>>

SelectRead ==
    /\ handler = "select" /\ reads # <<>>
    /\ item' = Head(reads)
    /\ reads' = <<>>
    /\ handler' = "forward"
    /\ UNCHANGED <<envVars, readerVars, closed, echoed, tick, writes, quit>>

\* MUTANT: what does not fit is dropped.
ForwardOrDrop ==
    /\ handler = "forward"
    /\ writes' = (IF writes = <<>> THEN <<item>> ELSE writes)
    /\ item' = 0
    /\ handler' = "select"
    /\ UNCHANGED <<envVars, readerVars, closed, echoed, tick, reads, quit>>

\* writes <- read blocks while the channel is full.
Forward ==
    /\ handler = "forward" /\ writes = <<>>
    /\ writes' = <<item>>
    /\ item' = 0
    /\ handler' = "select"
    /\ UNCHANGED <<envVars, readerVars, closed, echoed, tick, reads, quit>>

SelectWrite ==
    /\ handler = "select" /\ writes # <<>>
    /\ writes' = <<>>
    /\ \/ echoed' = (IF up THEN Append(echoed, Head(writes)) ELSE echoed)
          /\ UNCHANGED <<handlerVars, tick>>
       \/ Return /\ UNCHANGED echoed
    /\ UNCHANGED <<envVars, readerVars, reads, quit>>

SelectQuit ==
    /\ handler = "select" /\ quit # <<>>
    /\ quit' = <<>>
    /\ Return
    /\ UNCHANGED <<envVars, readerVars, echoed, reads, writes>>

----------------------------------------------------------------------------

Next ==
    \/ ClientSends \/ ClientSendsOther \/ LinkFails \/ TickerFires
    \/ Reader
    \/ SelectTick \/ SelectRead \/ Forward \/ SelectWrite \/ SelectQuit

Spec == Init /\ [][Next]_vars

\* Goroutines run when they can.  select picks at random among the cases that
\* are ready, so that a case that stays ready is taken.
FairSpec ==
    /\ Spec
    /\ WF_vars(Reader)
    /\ WF_vars(SelectRead) /\ WF_vars(Forward) /\ WF_vars(SelectWrite) /\ WF_vars(SelectQuit)

----------------------------------------------------------------------------
(* Properties.                                                             *)

\* The select loop never waits for itself: only its own next iteration empties
\* writes.  True of a client that waits for each answer.
NeverSelfBlocked == window = 1 => ~(handler = "forward" /\ writes # <<>>)

\* A message of a client that waits for each answer comes back, unless the
\* connection ends.
Echoes == \A k \in 1..MaxMsgs : window = 1 /\ sent >= k ~> (Len(echoed) >= k \/ ~up \/ handler = "done")

\* "case <-quit: return": once the reader has seen the connection end, the
\* handler returns, stops its ticker and closes the connection.
HandlerReturns == reader \in {"quit", "done"} ~> handler = "done" /\ closed

\* So it is with a client that waits for each answer.
LockstepReturns == window = 1 => HandlerReturns

\* Nor does the reader of such a client outlive the handler.
ReaderEnds == window = 1 /\ handler = "done" ~> reader = "done"

opt(v) == IF v = 0 THEN <<>> ELSE <<v>>
isMessage(f) == f \notin {Control, TooBig}

\* The messages in the inbox are those after n, in order, each once.
OnTheWire(n) ==
    /\ n <= sent
    /\ \A m \in n + 1..sent : \E i \in 1..Len(inbox) : inbox[i] = m
    /\ \A i \in 1..Len(inbox) :
          isMessage(inbox[i]) =>
              /\ inbox[i] \in n + 1..sent
              /\ \A j \in 1..i - 1 : isMessage(inbox[j]) => inbox[j] < inbox[i]

\* Messages that have been taken off the wire and not been lost by the end of
\* the connection are in the channels and locals, in order, exactly once, and
\* after them come those that are still on the wire.
InFlight ==
    LET taken == echoed \o writes \o opt(item) \o reads \o opt(data)
    IN  up /\ handler # "done"
            => taken = [i \in 1..Len(taken) |-> i] /\ OnTheWire(Len(taken))
=============================================================================
