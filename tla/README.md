# A verification project for Espra

Espra (`src/README.md`) is a prototype of several programs: an App Engine
application in Go, a "Live Server", a key-value store, a few small services in
Python and Java, a build script and a browser client.  This directory keeps
TLA+ models of the parts that have behaviour, the TLC configurations that check
them and, in eight modules, TLAPS proofs about most of them.  Each definition is a translation of
the lines `PROJECT.json` names for it under `map`.

Several Go files do not compile at this commit (`matchweb/main.go` uses
`server.hsts` and an `initHashKey` that nobody declares, `matchdb/client.go`
misspells a parameter and `matchdb.go` swaps two arguments, `ui/message.go` has
parameters without a type, `item.go` calls `ui.parseMsg`, `rpc.go` imports
`espra/session`, which is not in the tree).  Where a file's logic is complete
it is modelled as written; what is missing is an operator marked external.

## Inventory

| Part | State | Operations | What is hard | What makes it correct |
|---|---|---|---|---|
| **JSON-RPC dispatcher** `src/espra/rpc/rpc.go` | the registry, the linked free list of Contexts and its mutex, in each Context the user, header, request and reply buffer | `Handle`, `HandleGet`, `getContext`, `freeContext`, `register` | requests are goroutines that share recycled Contexts; a panic may end a request at a dozen places; the reply is a slice of a recycled buffer | no Context is shared or lost; a request runs under its own user and gets its own reply; every request is answered |
| **Live Server WebSocket** `matchweb/main.go:114-181` | three channels of capacity one, a ticker, the locals of two goroutines | `HandleWebSocket`, `readWebSocket` | two goroutines and the network; one of them both sends to and receives from a channel | order; both goroutines and the connection end |
| **Live Server publishing, maintenance** `main.go:50-112, 183-221`, `http.go:44-67` | the maintenance flag and its lock, the signal channel, a goroutine per acknowledgement | `ServeHTTP`, `HandlePublish`, `AckPublish`, `SetMaintenance`, `handleMaintenance` | signals, upstream failures, retries with pauses, crashes | acknowledgements are bounded; none is lost but to failures, a crash or a silent upstream; the last signal delivered wins |
| **Template scanner** `lex/lex.go`, `ui/ui.go:24-357` | position, start of the item, depth of parentheses | one state function per kind of item | a goroutine of its own behind an unbuffered channel; positions in bytes, steps in runes | nothing lost or repeated; progress |
| **Template parser** `ui/ui.go:359-553` | the Domly under construction, one call of `ParseExpr` per level | `ParseTextNode`, `ParseIfExpr`, `ParseForExpr`, `ParseExpr`, `ParseArgKeyVal` | agrees with the scanner on what is open; every way to return must leave the scanner finished | accepted templates are balanced; every parse ends |
| **Live Server pages** `main.go:183-215`, `http.go:75-223` | the maintenance flag | `ServeHTTP`, `RedirectServer`, the `serve...` pages | the flag may change while a request is under way | answers settle with the mode |
| **Domly generation** `ui/ui.go:555-715`, `html2domly/` | `templates.coffee` and its time | `GenDomlyNode`, `GenDomly`; `main` of html2domly | an error that the next node overwrites; a compiler that is interrupted or overtaken by an editor | a Domly has the fragment's elements, whole; `templates.coffee` matches the templates |
| **Message scanner** `ui/message.go` | as the template scanner | | does not compile and has no end | not modelled |
| **Tokens, identifiers, timestamps** `auth`, `ident`, `datetime` | the signing keys | `Sign`, `Decode`; `Username`, `UserRef`, `Ref`; `From` | formats that must round-trip, characters of several bytes, text that must sort like numbers | only what was signed is accepted; timestamps sort |
| **Profile, item** `profile`, `item` | entities in the datastore | `Login`, `Gravatar`, `Create`; stubs | the datastore changes, or fails, between any two calls of one login | a token stands for a stored session of a verified login |
| **Data types** `db`, `kind`, `backend` | none of their own | declarations and stubs | | |
| **Router** `src/espra/main.go` | none | a switch over host and path | redirects that lead to redirects | over plain HTTP or for a foreign host nothing but a redirect is served |
| **MatchDB** `matchdb/` | options, the delay of its accept loop, connections | `main`, `DB.Run`, `DB.Handle`; further loops are empty | errors and connections in any order, short reads | delays double up to a second and start over |
| **Build script** `build` | cache of file times, templates in memory, `html.go` and its time | `app` with its watch loop; the decision to run html2domly; `clean`, `deploy` | files change between any two system calls; interrupted writes | `html.go` catches up with its sources |
| **Page loader** `coffee/init.coffee`, `client.coffee` | target and width of the bar, `finishReq`, timers, the state of each script | callbacks of timers and load events | events in any order, never or twice | the loading screen ends |
| **Browser client** `coffee/domly.coffee` and others | DOM | rendering | unfinished, names unbound | not modelled |
| **Python services** `python/services.py` | none | dispatcher over POST parameters | | not modelled |
| **API generator** `genapi/` | the list of methods | `parseDirectory`, `parsePackage` | errors at any depth of a tree of packages | an error costs the methods of its package and no others |
| **Cajoleit servlet** `java/src/espra` | the response of the current request in a field, a static compiler and the static scope it compiles in | `doGet`, `doPost`, `errorResponse`, `getCompiler`, `CoffeeScript()`, `compile` | a thread per request, nothing synchronised: errors stray, two threads make the compiler at once | no client sees another's translation; an error can only reach requests that came later; the compiler is usable in the end |
| **Extractor servlet** `java/src/espra` | none | `doGet` | | not modelled |
| **Blob node, styles, packaging** | none | | | not modelled: no behaviour or does not compile |

How they interact: clients call the dispatcher over HTTP through the router;
the Live Server accepts items from the App Engine application, acknowledges
them to it over HTTPS and talks to browsers over WebSockets; templates are
parsed when they are published (`item.create`) or compiled ahead of time
(`html2domly`, which the build script runs); a login signs a token, which a
later call presents to be decoded; the page the application serves
contains the page loader, rendered into `html.go` by the build script.  The
only state two parts share is inside one process each: the Contexts, the
channels, the maintenance flag.

`PROJECT.json` lists under `hazards` where this code can go wrong in a way a
test hardly reaches; the properties below are aimed at that list.

## Modules

| Module | What | Correspondence |
|---|---|---|
| `Rpc` | dispatcher | One process per request in flight; `pc` names the point `Handle` or `HandleGet` has reached. `getContext` is four actions (`LockForGet`, `NewContext` or `Unlink`, `ResetContext`), `freeContext` two (`LockForFree`, `Push`), since the mutex makes what lies between visible. `head` and `next` are the linked list; `mutex` its holder; `username`, `header`, `request`, `buf` the fields of each Context. A value of a request is an abstract record: how it is malformed, its service, its arguments, its token. A reply is the sequence of requests whose results are in the buffer |
| `ContextLease` | what the pool promises | a set of Contexts on lease; `Rpc` implements it |
| `MCRpc` | instances | the registry that `profile.go` and `item.go` build; of its services two, `ping` and `page`, are invented: shapes that `register` accepts and the files do not use |
| `RpcProofs` | proofs | see below |
| `LiveSocket` | one WebSocket | `reader` and `handler` are the two goroutines, each channel a sequence of length at most one, each case of the `select` an action; client, link and ticker are the environment |
| `LiveSocketProofs` | proofs | see below |
| `LiveServer`, `MCLiveServer` | publishing, maintenance, pages | per item the publish request and the acknowledging goroutine; signals that are pending, each at most once and delivered in any order, the handler, its channel and the goroutine that applies them; a visitor of the server or of the redirector beside it, `Answer` reads the mode when it runs; `Crash` restarts the process, which stores nothing |
| `LiveServerProofs` | proofs | see below |
| `Lexer` | scanner | `Pos`, `Start`, `ParenDepth` and `StateFn` as in the code; one action per call of a state function and per turn of the loops in `LexTextNode` and `String`; `pending` are items not yet received, and the scanner goes on when there are none. Characters are ASCII, or letters, digits and symbols of two to four bytes (`Lead`, then `Trail`); a byte that begins none is read as one rune that is nothing the scanner looks for |
| `Template`, `MCTemplate` | parser, composed with `Lexer` | one action per received item; the calls of `ParseExpr` in progress are `frames`, each with the pipes whose Domly it is to append (`piped`) |
| `TemplateProofs` | proofs about `Lexer` and `Template` | see below |
| `Build` | the `app` task | one action per system call on a source file and per half of the write of `html.go`; a file's time of change stands for its contents |
| `BuildProofs` | proofs | see below |
| `Loader` | loading screen | one action per callback of the event loop |
| `LoaderProofs` | proofs | see below |
| `Cajoleit`, `MCCajoleit` | the servlet and its compiler | one action per access to what the threads share: the field `resp` (written by `doPost`, read twice by `errorResponse`), the statics `compiler` and `parent` (written early by the constructor, read again by `evaluateReader` and by `compile`), the responses; a request is identified with its response and a scope with the request that made it |
| `CajoleitProofs` | proofs | see below |
| `Ident`, `Stamp`, `Auth` | identifiers, timestamps, tokens | operators with the names of the functions, over characters, digits and pieces of text |
| `App` | router, login, gravatar, item | a browser follows redirects (`MoveToHttps`, `MoveToOfficial`) until a page or a service answers; `Login` is one action per call of the datastore (`LookUp`, `GetLogin`, `PutSession`), between which accounts may change; its token is presented to `Decode`, perhaps after `Deploy` |
| `MatchDB` | MatchDB | `Start` checks the options in the order of `main` and `Run`; one action per turn of the accept loop and per pause |
| `Domly` | Domly generation | the calls of `GenDomlyNode` in progress are those for the node `at` and for all it is in; `phase` says which loop that call is in (`attrs`, `kids`, `wrap`) or that it returns, `next` where in it; one action per attribute (`AttributeFails`, `AddWrapper`, `AddAttribute`), per child (`EnterElement`, `SkipKid`, `AddText`, `TextFails`), per wrapper (`Wrap`) and per way back (`ReturnNode`, `AddElement`, `ElementFails`). A fragment is a function from places to nodes, `lists` has the lists made for each; a text is how it parses |
| `Html2Domly` | html2domly and the build's decision to run it | `Decide` (`rebuild_domly_templates`), `CreateFile`, `List`; for each template `ParseTemplate`, the steps of `Domly` (`Walk`) and `Export`, or `SkipName`; `Return` |
| `GenApi` | genapi | `calls` are the calls of `parseDirectory` in progress; one action per entry of a directory (`SkipEntry`, `StatFails`, `EnterDirectory`, `AddFile`), per declaration and file (`ParseDecl`, `NextFile`) and per way to return (`OpenFails`, `StatFails`, `ParseFails`, `ReturnNil`); a tree of packages is a function from paths to listings |
| `MCPrograms` | instances of the four programs above that share nothing with the others | `program` names the one that runs |
| `ProgramProofs` | proofs about `App`, `Stamp`, `Auth`, `MatchDB`, `Html2Domly` with `Domly`, and `GenApi` | see below |

Definitions marked `MUTANT` are plausible mistakes in the code; they are not
part of any specification.  Each property has one that violates it, listed in
`PROJECT.json`.

## Runs

| Run | Instance | What it shows |
|---|---|---|
| `rpc_concurrent` | 2 requests in flight, 3 Contexts, 2 users, 5 kinds of request; symmetric | `TypeOK`, `ExclusiveContext`, `PoolExact`, `OwnIdentity`, `ReplyKeptWhileHeld`; implements `ContextLease` |
| `rpc_drain` | 2 requests, 2 Contexts, 6 kinds of request, one for each way to end | `Drains`: when clients stop, all requests end and the mutex is free |
| `rpc_race` (violated) | 2 concurrent renewals | `ReplyIntegrity`: `Handle` frees the Context before the reply in its buffer is written |
| `live_socket` | 4 messages, window 1 and 3, control frames, frames that are too big, a link that may fail | order and completeness (`InFlight`) for every client; no self-blocking, echoes and termination for one that waits for each answer |
| `socket_stuck` (violated) | 2 messages in flight | `HandlerReturns`: the select loop blocks on a channel only it empties |
| `live_server` | 1 item, keys right and wrong, 4 signals, 1 crash, a visitor of server and redirector | at most 11 posts, one success, pauses that double (`AcksBounded`); what was accepted is acknowledged unless eleven posts fail, the process crashes or a post is never answered (`AckEnds`); the last signal delivered is the last applied; the mode settles on it, and visitors' answers with it |
| `template` | all texts of up to 5 of 4 characters, actions of up to 4 of 7 and 3 of 9, attributes of up to 4 or 5 words, characters of two to four bytes first in a text and in actions: 12050 inputs | `Covers`, `DepthAgrees`, `AcceptedBalanced`, `NoLeakOnSuccess`, `PipesHandOn`, `ParseEnds` |
| `template_wide` (violated) | texts with a character of two to four bytes, behind up to two of one byte | `TextAdvances`: the second `Backup` steps back by the width of another rune |
| `build` | 2 templates that may come and go, `assets.json`, `config.yaml`, 2 changes, 2 processes | `RoundIsFresh`; `Converges` |
| `loader` | 3 scripts, each announced up to twice, stylesheet seen, unreadable or late | `NeverStalls`, `StartsOnce`, `LoadingEnds` |
| `cajoleit` | 3 requests, 9 kinds of input; symmetric | `OwnTranslation`, `NeverBackwards`, `AloneIsAnswered`, `ReadyAtRest` |
| `programs` | see below | of the application, `ServedSecurely`, `TokenBacked`, `SessionsSort`, `OnlySigned`; of MatchDB, `PausesDouble`; of html2domly with the build, `TemplatesCurrent`; of genapi, `ApiKept` |

### Bounds

* `Rpc`: a fault of the free list or of a recycled Context needs two holders
  and a third Context that one of them could be given instead; requests are
  unlimited in number, since a finished one starts over.  Two users and an
  anonymous caller tell identities apart.
* `LiveSocket`: the channels and locals on the way of a message hold four;
  `MaxMsgs` = 4 with three in flight fills each combination that does not need
  the client to ignore its window.  At most one control frame and one oversized
  frame are on their way at a time.
* `LiveServer`: items do not interact, so one is enough; `tries` takes all its
  values.  Three signals fill handler, channel and goroutine, the fourth is pending.
  Two may be pending at once, and a signal sent twice may be delivered once.
* `Lexer`, `Template`: an alphabet has one character per branch of the state
  functions: letters, digits and symbols of one byte and of each width above it,
  and a byte that begins no character.  Of `ScanNumber` the alphabet leaves out
  "x", the point and the exponent.  Lengths reach each state function from every
  other, two levels of parentheses and three pipes.  `template` has longer characters
  only where the code survives them; what it does with them elsewhere is
  `template_wide`, and the theorems say it of every text.
* `Build`: two changes are the least that put one change between a stat and a
  read and another between a read and the write.  The clock counts changes
  only; repeated writes of `html.go` between two changes are the same.
* `Loader`: the state space is finite but for `MaxEvents`.
* `Cajoleit`: the fields hold one value, so a victim, an intruder and one more
  whose turn was before show each way they can be stale; two constructors and a
  request that compiles meanwhile are three.  There is an input for each way
  through `doPost`, but one for each set of checks that answer alike.

* `App`: seven spellings, two that normalise alike, an email address, and one
  for each way to be refused.  Timestamps of two digits with a clock from 8 to
  10 cross the place where numbers and texts sort apart.  One change, of
  the accounts or of the signing keys, falls between any two calls; two in one
  login are left out, with them the run does not end in minutes.
* `MatchDB`: twelve errors in a row take the delay past its cap whether it
  starts at one or at five milliseconds; one of two peers has a port that does
  not fit in two bytes.
* `Html2Domly`, `Domly`: three files, one of another kind; fragments with each
  kind of attribute and child and an error in an attribute, in a text, in a
  grandchild, in the first and in the last element; two edits, since one may
  come while the first is compiled.
* `GenApi`: up to three entries in the root and two in each of two directories
  below, one inside the other or beside it, with each kind of file in each place;
  a directory below, or the root itself, that cannot be opened.

### Fairness

* `Rpc`: a goroutine that can run does run (weak fairness of each handler's
  steps).  A waiting handler is continuously able to take the mutex once the
  others are done, which is all `Drains` needs; clients owe nothing.
* `LiveSocket`: both goroutines run when they can; `select` picks among ready
  cases at random, so that a case that stays ready is taken.  The client and
  the link owe nothing.
* `LiveServer`: a goroutine that has slept goes on, a pending signal is delivered,
  its handler and the goroutine behind it run.  `PostAck` has no fairness: the
  `http.Client` of `main.go:339` has no timeout, so that a post to a silent
  upstream holds its goroutine for ever, which `AckEnds` names as one of three
  losses.  The upstream may also fail for ever; operators owe nothing, and
  visitors need not be answered.
* `programs` has safety properties only.
* `Template`: the two goroutines run.  `Build`: a process that is running goes
  on, but may exit at any time.  `Loader`: timers fire; the network may never
  answer.

Deadlock is not checked (`CHECK_DEADLOCK FALSE`) where the program really
stops: a socket whose goroutines have ended, bounded publishing and signals, a
parse that is over, a build that has used up its starts and changes, a page
that has loaded, an application that has answered, a MatchDB that has exited or
has no more peers, an API that is written.

## Proofs

`RpcProofs` holds for any sets of handlers, Contexts (finitely many), users and
requests and any registry, under the assumptions named in `Rpc`.  The safety
invariants of `rpc_concurrent` are not inductive one by one: that no Context is
shared depends on the mutex protecting `head` between `LockForGet` and
`Unlink`, on the list never containing a Context in use, and on who is where in
the code.  The invariant is

    IInv = TypeOK /\ MutexInv /\ ExclusiveContext /\ PoolExact /\ ContentInv
                  /\ OwnIdentity /\ ReplyKeptWhileHeld /\ HolderInv

where `MutexInv` says who may hold the mutex, `ContentInv` what a Context that
is in use contains at each point of its request, and `HolderInv` which points
go with having a Context at all.  `PoolExact` is stated with a sequence that
witnesses the linked list, so that `Push` and `Unlink` are `<<c>> \o s` and
`Tail(s)`.  From `IInv`: `TypeCorrect`, `Exclusive`, `PoolIsExact`,
`IdentityIsOwn`, `ReplyIsKept`, and `Refinement`, that `Rpc` implements
`ContextLease`.

`BuildProofs` proves `TypeCorrect` and `RoundsAreFresh` for any set of
templates, number of changes and number of runs.  `RoundIsFresh` speaks of the
end of a round; the invariant adds what is true on the way: the time a file is
cached with is never later than its contents (`CacheBehind`, which is where the
order of stat and read matters), files the round is through with are as new as
the round (`Caught`), and files that vanished bind nobody (`Forgotten`).

`CajoleitProofs` proves five results for any number of requests and any inputs.
`ErrorsNeverGoBack` rests on `FieldIsLater`: the field `resp`, and the response
on which a thread has set the status, belong to no request that had ended when
the thread's own arrived; it needs `BeforeEnded`, that only ended requests are
recorded so, and `PrintersArrived`, since the record of a request is written
when it arrives.  `CompilerIsReady` rests on `ParentInHand` (a parent without
CoffeeScript is still being loaded by the request that made it, or that
request's constructor failed) and on `MakersMeet` (a constructor that runs
although there is a compiler overlaps with another request), which is what
turns "failed" into "failed in a race".  `TranslationsStayHome` and
`LonersAreAnswered` add `OutputInv` to it: the response of a request that has
not arrived is as it was made (`Untouched`), what the stage of a request says of
its input (`Path`), how far a request is that has met no other (`CleanAlone`),
and that code is printed last and by the request itself (`CodeIsLast`).  That a
request alone still gets its answer is the part that needs the first
invariant: the scope it compiles in is loaded because nobody it has met could
have replaced it.

`LiveServerProofs` proves `AcksAreBounded` for any number of items and crashes
and any keys, and `SignalsKeepOrder` for any number of signals.  A bound on posts
is not inductive; an account of each item is (`AckAccount`): the failed posts are
the tries, or one more while the goroutine sleeps or has given up, and the time
slept is 2^tries - 1, so that pauses double.  For the signals the order itself
is inductive once handler, channel and goroutine are known to hold at most one
each.  The order is that of delivery: of two signals that are pending together the
operating system may deliver either first.

`LiveSocketProofs` proves `LockstepNeverBlocks` and `EchoesAreInOrder` for any
window and number of messages.  The invariant is that for some `n` the places a
message passes, from `writes` to the wire, hold `n + 1`, `n + 2` and so on
(`Flow`), where `n` is what was echoed unless the connection broke; that a
local variable is set just where its goroutine is to send it (`Locals`); and
that no more is unanswered than the window (`Windowed`).  With a window of one
this leaves room for one message in the four places, and the handler never
waits for the channel it empties.

`LoaderProofs` proves `BarNeverStalls` and `ClientStartsOnce` for any number of
events and a bar of any number of steps above four (`width`, 10 in the code).  With
fewer `BarNeverStalls` would be false: the first step and the three that Google
Analytics and the client add before `finish` would fill the bar.  Until the loading is over the target of the bar is one
plus what the first announcements of two scripts have added (`Unfinished`), so
that it stays below the end of the bar unless `finish` has been called, and the
client runs as often as its script was announced for the first time.

`TemplateProofs` is about the scanner and the parser together, for texts of any
length.  The scanner's step is first shown to be one of seven kinds (`Scans`:
what it may emit, by the state function it is in and the next one), the
parser's one of a few (`Parses`: it stays, opens or closes a call, accepts or
stops), and the invariant is kept by each pair of a kind and its conjuncts:

    IInv = Inside /\ Stack /\ Counted /\ Follows /\ AcceptedBalanced
                  /\ NoLeakOnSuccess

`Inside` keeps the positions within the text, which is what `ScannerStaysInside`
states; the places where the code panics on a text are steps of the scanner
like others, after which it has ended.  `Stack` says what each call of
`ParseExpr` waits for, `Follows` what can be on offer in which state of both,
which is the handshake that makes the counts agree: the scanner's depth is the
parser's but for the parenthesis on offer, and a text has as many expressions as
actions but for the one it is in.  `Counted` counts items: what is handed
over, waits in a call, or is on offer.  From it: `DepthsAgree`,
`AcceptedTextsBalance`, `ScannersEndWithParsers`.

`PipesAreHandedOn` is about which pipe goes where.  `PipeInv` says of every call in
progress what `PipesHandOn` says of those that are over: since the item that
opened it, the pipes it is to append are those that were received outside the
expressions that lie in between, the nearest first, and those expressions lie
within it.  A pipe that is received is nearer than all before it; an expression
that ends becomes one of those in between for the call around it.

`NothingIsLost`, that every byte is in one item, has an invariant of its own.
`Tiled`: the items lie one behind the other up to `Start`, with nothing but "!"
and ":" between them.  `Seam`: where `Pos` and `Start` stand to each other, by
state function.  Over text that is not `Start <= Pos`: the code steps back twice
after a space, and may be one byte behind the item it has begun; the invariant
keeps that this byte is a space, and that no left delimiter begins in what has
been read, from one byte before the item on, without which a text item could
contain one.  Over characters of three or four bytes it steps back further, a text
item can contain a delimiter, and this part of `Seam`, like the spelling in
`Covers`, is stated without them (`Short`); that no byte is lost or sent twice holds
with them too.

With `Seam` also `OnlyWideTextsPanic`: the scanner panics where it steps back before
the beginning of the text, or of the item it then wants to slice.  The second cannot
happen in a text without characters of more than two bytes, and the first only if
one of two bytes follows right behind the first byte.

`ParsesWearOut` is what can be said of `ParseEnds` without fairness, and shows that a
livelock takes the characters of `template_wide`: on attributes, and on texts without
characters of more than one byte, every step of scanner or parser makes `Work` grow, which
the length of the input bounds.  `Work` counts bytes read, then how far the state
function comes in the order in which one follows the other without reading
(`Rank`), then items received.  A number is where `Numeral` says, else its state
function would read nothing.

`ProgramProofs` is about the programs of `MCPrograms`:

* `AnsweredSecurely`, for any URL: `Routed` counts redirects, of which there are
  no more than corrections of scheme and host.
* `TokensAreBacked`, for any accounts and any changes to them: `Established` says
  what a login has found by each stage and that it was so at some time since it
  began (`Looked`, `Named`).
* `SessionsAreSorted`, for timestamps of up to 19 digits, as many as the code writes: that the
  digits of a larger number are a larger text (`StampsSort`) is proved from the
  first place where they differ.
* `OnlySignedAccepted`, for any names, keys and times.  What is proved of the texts
  is that `Decode` gets back the pieces that `Sign` joined, by counting
  separators, since a name that has passed `normalise` contains none; that
  exchanging the parts makes the token acceptable; and that changing a piece or
  dropping one does not.
* `PausesAreDoubled`, for any number of errors: the delay is the last pause, and
  that is `first` doubled as often as there were pauses, up to the cap.
* `TemplatesStayCurrent`, for any number of templates and changes and any
  fragments.  Of html2domly, `H2DInv` says that undisturbed it has exported what it
  has compiled and nothing else (`Compiled`), and that afterwards a template that is
  not current is newer than the file (`KeptAll`), so that the build finds it.  Of
  the template in `GenDomly`, `DomlyInv` says how far each call has come: the one
  for the node at hand in its loop over attributes, children or wrappers
  (`AtNode`), those round it in their loop over children (`Around`); and that what
  calls that are over have made of elements without an error is whole (`Over`).
  The texts, elements and wrappers up to a place in a loop are counted with `UpTo`:
  the item for a child is where the count says, so none is lost, doubled or moved.
  When `GenDomly` has come to the end, every element is behind it
  (`GeneratedRight`).
* `ApiMethodsKept`, for any tree of packages and any ignore list.  What the
  property asks of the whole tree at the end is stated of every moment by
  `CallsInv`: each call stands in the subdirectory its caller came to last
  (`Chain`), has met no dead link (`Sound`), and has the methods of the
  directories and files it has come past, once and no others (`Tallied`,
  `Injective`, `Known`); and a package that is reached, but whose methods are not
  listed yet, lies in or below the directory of a call, ahead of where that call is
  (`Covered`).  When the last call returns nothing is ahead of it.  `Outcome`
  says how the call of the root ended.

They rest on assumptions that `App`, `Stamp`, `MatchDB`, `Html2Domly` and `GenApi` name:
hosts that differ, at least one login and one key, a clock whose times fit the
digits of a timestamp, usernames that `Username` accepts, directories whose
entries have different names, and fragments that are trees (`IsFragment`).

Only model-checked is what needs fairness (`Drains`, `Echoes`, `LockstepReturns`,
`ReaderEnds`, `AckEnds`, `ModeSettles`, `ParseEnds`, `Converges`, `LoadingEnds`),
which is outside this prover's reach.

## What the checks found

Three runs end in a violation, each quoted with its line in `PROJECT.json`: a
reply overwritten by another call, a WebSocket handler that blocks itself, and
panics and a livelock of the scanner on characters of more than one byte.  `Cajoleit` shows, without a line in the repository that promises
otherwise, that an error's status and its message may go to two different other
clients, that a compilation is aborted when a second constructor replaces the
scope under it, and that such a constructor, if it fails, breaks the compiler
for the life of the process; its properties say under which circumstances none
of this happens.  `Template` shows that
`A|B|C` becomes `C(B, A)`: `ui.go:450` says `A|B === B(A)`, which holds of one pipe,
and reading it twice would give `C(B(A))`.  `PipesHandOn` states what is handed to
whom.

Seen while modelling, and modelled as the code does it:

* a call whose last result is a nil error panics in the type assertion and is
  answered with an error (`AfterMethod` in `Rpc`; `rpc.go:264`);
* `Ref` joins two inequalities with `||`, so that every reference is refused and
  `item.create` never gets past its checks; an empty one panics;
* `Sign` writes the code before the mac, `Decode` reads the mac first: a token
  is accepted only when somebody exchanges its parts, as `Exchange` does;
* a timestamp ends in a line end, and sorts all the same (`SessionsSort`);
* `serve400` is logged as 404, and the maintenance mode answers pings with 503;
* of a template's elements in error, `GenDomly` reports the last only, so that a
  template may be exported with an element that is not whole;
* `templates.coffee` stays as it is after an interruption of html2domly, after an
  edit while it runs, and when a template is removed; `TemplatesCurrent` says
  that it is right otherwise;
* genapi joins two conditions on a method's definition with `&&` and lets some
  malformed definitions through.

Further ones are kept as hazards with a note.

## Abstractions worth knowing

* Strings are model values or short sequences of characters; JSON, gob and HTTP
  are their outcomes.  Reflection in `rpc.go` is the outcome of a call.
* A socket write fails at any time or seems to succeed on a dead link.
* A crash of the Live Server loses all its state, for it stores none.
* `Build`: no two changes of files carry the same time (a file system with
  coarse time stamps could miss one), an editor replaces a file at once, and a
  template that is removed stays in memory and in `html.go`, about which
  `Converges` says nothing.  `Converges` assumes that the process did not start
  on an `html.go` that lacks a change older than itself: an interrupted write
  or an edit during the last round of the process before leaves one, and the
  code cannot tell.
* `Cajoleit`: a thread without synchronisation may see a field as it last wrote
  or read it, or as it is; a write is seen once it is made.  `LoadFails` stands
  for every exception of the constructor after `parent` is set.
* `App`: requests are followed one at a time, with whatever an earlier one left in
  the datastore; what else may happen to the accounts is `ChangeAccount`.
  `session.Encode` is not in the tree, and `auth.Sign` is taken for it.
* `Domly`: a text is empty, plain, mixed, an action or broken; what becomes of
  its characters is in `Template`.
* `MatchDB`: what does not compile is read as it is meant (the misspelt
  parameter of `NewMaster`, the order of the arguments of `Run`).
* `Loader`: the poll for the stylesheet is an action only when it succeeds.

## Not modelled

* `ui/message.go` does not compile (an undeclared `Marker`, parameters without a
  type) and its parser has no way to end.
* `db`, `kind` and `backend` are declarations and stubs; so are `SessionRenew`,
  `Signup` and `SignupDetails`, which `Rpc` knows by their outcomes.
* The Python services, the extractor servlet and the blob node keep no state and
  make one call of a library per request; the blob node does not compile.
* Of the build script, `assetgen`, `clean` and `deploy` run other programs.
* Of the browser client, `domly.coffee` is unfinished, with unbound names.
* Of the Live Server, what the pages contain and the URL of the upstream.

## Plan

Done: 1. `Rpc`, `ContextLease` and their proofs; 2. `LiveSocket`;
3. `LiveServer` with its pages; 4. `Lexer` with `Template`; 5. `Build` and its
proof; 6. `Loader`; 7. `Cajoleit` and its proofs; 8. `App` with `Ident`, `Stamp`
and `Auth`; 9. `MatchDB`; 10. `Domly` with `Html2Domly`; 11. `GenApi`.

The proofs have followed: after `Rpc`, `Build` and `Cajoleit` those of
`LiveServer`, `LiveSocket`, `Loader`, `App` with its tokens and timestamps,
`MatchDB`, `Template` with everything its run checks of safety, `GenApi` and
`Html2Domly` with `Domly`.  The recursions of the last two are modelled as the calls
in progress, so that they can be proved about.  Every safety
property that a passing run checks is the statement of a theorem; what is left are
the properties under fairness, which stay with TLC.
