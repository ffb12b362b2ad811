--------------------------- MODULE ProgramProofs ---------------------------
(***************************************************************************)
(* Theorems about the App Engine application, its tokens and timestamps,   *)
(* MatchDB, html2domly and genapi, for any accounts, keys, times, peers,   *)
(* templates and the fragments they hold, and trees of packages.           *)
(***************************************************************************)
EXTENDS App, MatchDB, Html2Domly, GenApi, TLAPS, WellFoundedInduction, SequenceTheorems, FiniteSetTheorems

(* The router. *)

\* The hosts differ, and none is empty.
LEMMA HostsDiffer ==
    /\ OfficialHost # RedirectHost /\ OfficialHost # OtherHost /\ RedirectHost # OtherHost
    /\ OfficialHost # "" /\ RedirectHost # "" /\ OtherHost # ""
  <1> DEFINE A == {""}
             B == A \cup {OtherHost}
             C == B \cup {RedirectHost}
             D == C \cup {OfficialHost}
  <1>1. IsFiniteSet(A) /\ Cardinality(A) = 1
    BY FS_Singleton
  <1>2. IsFiniteSet(B) /\ Cardinality(B) = IF OtherHost \in A THEN 1 ELSE 2
    <2> HIDE DEF A
    <2> QED
      BY <1>1, FS_AddElement
  <1>3. IsFiniteSet(C) /\ Cardinality(C) = IF RedirectHost \in B THEN Cardinality(B) ELSE Cardinality(B) + 1
    <2> HIDE DEF B
    <2> QED
      BY <1>2, FS_AddElement
  <1>4. Cardinality(D) = IF OfficialHost \in C THEN Cardinality(C) ELSE Cardinality(C) + 1
    <2> HIDE DEF C
    <2> QED
      BY <1>3, FS_AddElement
  <1>5. D = {OfficialHost, RedirectHost, OtherHost, ""}
    OBVIOUS
  <1>6. Cardinality(D) = 4
    BY <1>5, HostAssumption
  <1>7. OtherHost \notin A /\ RedirectHost \notin B /\ OfficialHost \notin C
    <2> HIDE DEF A, B, C, D
    <2> QED
      BY <1>2, <1>3, <1>4, <1>6
  <1> QED
    BY <1>7

\* Of the two moves a URL may need, those it has made.
secured == IF url.scheme = "https" THEN 1 ELSE 0
arrived == IF url.host = OfficialHost THEN 1 ELSE 0

\* In production every redirect corrects the scheme or the host for good; the
\* development server sends the browser away once.
Routed ==
    /\ devServer \in BOOLEAN /\ moves \in Nat
    /\ stage = "none" => moves = 0
    /\ devServer => moves <= 1 /\ (stage = "asked" => moves = 0)
    /\ ~devServer /\ stage # "none" => url \in Urls /\ moves <= secured + arrived

RouteInv == Routed /\ ServedSecurely

\* The browser has asked for nothing yet.
LEMMA RouteInit == Init => RouteInv
  <1>1. Init => devServer \in BOOLEAN /\ stage = "none" /\ moves = 0
    BY DEF Init
  <1> QED
    BY <1>1 DEF RouteInv, Routed, ServedSecurely

\* Only the router and the first visit change where the browser is.
LEMMA RouteNext == RouteInv /\ [Next]_vars => RouteInv'
  <1> SUFFICES ASSUME RouteInv, [Next]_vars PROVE RouteInv'
    OBVIOUS
  <1>1. Routed /\ ServedSecurely
    BY DEF RouteInv
  <1>2. CASE Visit
    <2>1. stage = "none" /\ stage' = "asked" /\ moves' = moves /\ devServer' = devServer
      BY <1>2 DEF Visit
    <2>2. ~devServer => url' \in Urls
      BY <1>2 DEF Visit
    <2>3. moves' = 0 /\ moves' <= secured' + arrived'
      BY <1>1, <2>1 DEF Routed, secured, arrived
    <2>4. Routed'
      BY <1>1, <2>1, <2>2, <2>3 DEF Routed
    <2> QED
      BY <2>1, <2>3, <2>4 DEF RouteInv, ServedSecurely
  <1>3. CASE MoveToHttps
    <2>1. /\ stage = "asked" /\ stage' = stage /\ devServer' = devServer /\ ~devServer
          /\ url.scheme # "https" /\ url' = [url EXCEPT !.scheme = "https"] /\ moves' = moves + 1
      BY <1>3 DEF MoveToHttps, Insecure
    <2>2. url \in Urls /\ moves \in Nat /\ moves <= secured + arrived
      BY <1>1, <2>1 DEF Routed
    <2>3. url' \in Urls /\ url'.scheme = "https" /\ url'.host = url.host
      BY <2>1, <2>2 DEF Urls
    <2>4. secured = 0 /\ secured' = 1 /\ arrived' = arrived /\ arrived \in {0, 1}
      BY <2>1, <2>3 DEF secured, arrived
    <2> QED
      BY <2>1, <2>2, <2>3, <2>4 DEF RouteInv, Routed, ServedSecurely
  <1>4. CASE Serve
    <2>1. stage = "asked" /\ ~Insecure /\ UNCHANGED <<url, moves, devServer>>
      BY <1>4 DEF Serve, browser
    <2>2. (host \in {OfficialHost, ""} /\ stage' = Dispatch(url.path)) \/ (host = RedirectHost /\ stage' = "redirect")
      BY <1>4 DEF Serve
    <2>3. stage' \notin {"none", "asked"}
      BY <2>2 DEF Dispatch
    <2>4. ~devServer => url \in Urls /\ moves <= secured + arrived
      BY <1>1, <2>1 DEF Routed
    <2>5. ~devServer /\ stage' # "redirect" => url.scheme = "https" /\ url.host = OfficialHost
      <3>1. SUFFICES ASSUME ~devServer, stage' # "redirect" PROVE url.scheme = "https" /\ url.host = OfficialHost
        OBVIOUS
      <3>2. host = url.host
        BY <3>1 DEF host
      <3>3. host \in {OfficialHost, ""} /\ url \in Urls
        BY <2>2, <2>4, <3>1
      <3>4. url.host = OfficialHost
        BY <3>2, <3>3, HostsDiffer DEF Urls
      <3> QED
        BY <2>1, <3>1, <3>2, <3>4, HostsDiffer DEF Insecure
    <2> QED
      BY <1>1, <2>1, <2>3, <2>4, <2>5 DEF RouteInv, Routed, ServedSecurely, secured, arrived
  <1>5. CASE MoveToOfficial
    <2>1. stage = "asked" /\ devServer' = devServer /\ moves' = moves + 1
      BY <1>5 DEF MoveToOfficial
    <2>m. host \notin {OfficialHost, RedirectHost, ""} /\ url' = [url EXCEPT !.host = OfficialHost]
      BY <1>5 DEF MoveToOfficial
    <2>s. stage' = IF devServer THEN "elsewhere" ELSE "asked"
      BY <1>5 DEF MoveToOfficial
    <2>2. CASE devServer
      <3>1. moves = 0 /\ moves' = 1 /\ stage' = "elsewhere" /\ devServer'
        BY <1>1, <2>1, <2>s, <2>2 DEF Routed
      <3> QED
        BY <1>1, <2>1, <3>1 DEF RouteInv, Routed, ServedSecurely
    <2>3. CASE ~devServer
      <3>1. url \in Urls /\ moves \in Nat /\ moves <= secured + arrived /\ url.host # OfficialHost
        BY <1>1, <2>1, <2>m, <2>3 DEF Routed, host
      <3>2. url' \in Urls /\ url'.scheme = url.scheme /\ url'.host = OfficialHost
        BY <2>m, <3>1 DEF Urls
      <3>3. arrived = 0 /\ arrived' = 1 /\ secured' = secured /\ secured \in {0, 1}
        BY <3>1, <3>2 DEF secured, arrived
      <3>4. moves' \in Nat /\ moves' <= secured' + arrived' /\ moves' <= 2
        BY <2>1, <3>1, <3>3
      <3>5. stage' = "asked" /\ ~devServer' /\ devServer' \in BOOLEAN
        BY <1>1, <2>1, <2>s, <2>3 DEF Routed
      <3> QED
        BY <3>2, <3>4, <3>5 DEF RouteInv, Routed, ServedSecurely
    <2> QED
      BY <1>1, <2>2, <2>3 DEF Routed
  <1>6. CASE Services \/ ChangeAccount \/ Deploy \/ Tick
    <2>1. UNCHANGED <<url, moves, devServer>>
      BY <1>6 DEF Services, LookUp, GetLogin, PutSession, PutUnknown, LoginFails, Gravatar, Create, Present,
                  ChangeAccount, Deploy, Tick, browser
    <2>2. stage \notin {"none", "asked", "redirect"}
      BY <1>6 DEF Services, LookUp, GetLogin, PutSession, PutUnknown, LoginFails, Gravatar, Create, Present,
                  ChangeAccount, Deploy, Tick
    <2>3. stage' \notin {"none", "asked"}
      BY <1>6 DEF Services, LookUp, GetLogin, PutSession, PutUnknown, LoginFails, Gravatar, Create, Present,
                  ChangeAccount, Deploy, Tick
    <2> QED
      BY <1>1, <2>1, <2>2, <2>3 DEF RouteInv, Routed, ServedSecurely, secured, arrived
  <1>7. CASE UNCHANGED vars
    BY <1>1, <1>7 DEF vars, browser, RouteInv, Routed, ServedSecurely, secured, arrived
  <1> QED
    BY <1>2, <1>3, <1>4, <1>5, <1>6, <1>7 DEF Next, Route

\* In production nothing but the redirect page is answered over plain HTTP or
\* for another host, and the redirects end after at most two.
THEOREM AnsweredSecurely == Spec => []ServedSecurely
  <1>1. RouteInv => ServedSecurely
    BY DEF RouteInv
  <1> QED
    BY <1>1, RouteInit, RouteNext, PTL DEF Spec

----------------------------------------------------------------------------
(* The login. *)

Reqs == [login : Spellings \cup {<<>>}, passphrase : Secrets \cup {""}, id : LoginIDs \cup {0},
         name : Usernames \cup {NotOk}, session : Nat, key : KeyIDs \cup {0}]

Logins == {Missing} \cup [username : Usernames, passphrase : Secrets]

Types ==
    /\ req \in Reqs
    /\ index \in [Keys -> LoginIDs \cup {0}]
    /\ logins \in [LoginIDs -> Logins]
    /\ sessions \in Seq({Session(id, time) : id \in LoginIDs, time \in 0..MaxTime})
    /\ clock \in 0..MaxTime /\ current \in KeyIDs

\* At some time during the request the login was found under what was typed,
\* and had the name and the passphrase.
Looked == \E a \in seen : a[1][EntityKey(req.login)] = req.id
Named == \E a \in seen : a[2][req.id] = [username |-> req.name, passphrase |-> req.passphrase]

\* What a login has established by each of its stages.
Established ==
    /\ stage \notin {"token", "done"} => req.session = 0
    /\ stage \in {"login", "session"} => req.id \in LoginIDs /\ accounts \in seen /\ Looked
    /\ stage = "session" => Named

LoginInv == Types /\ Established /\ TokenBacked

\* No login is in progress at the start.
LEMMA LoginInit == Init => LoginInv
  <1> SUFFICES ASSUME Init PROVE LoginInv
    OBVIOUS
  <1>1. req = NoRequest /\ stage = "none" /\ clock = Started
    BY DEF Init
  <1>2. NoRequest \in Reqs /\ NoRequest.session = 0
    BY DEF NoRequest, Reqs
  <1>3. index \in [Keys -> LoginIDs \cup {0}]
    <2>1. (CHOOSE id \in LoginIDs : TRUE) \in LoginIDs
      BY KeyAssumption
    <2>2. index \in [Keys -> {0, CHOOSE id \in LoginIDs : TRUE}]
      BY DEF Init
    <2> DEFINE c == CHOOSE id \in LoginIDs : TRUE
    <2> HIDE DEF c
    <2>3. c \in LoginIDs /\ index \in [Keys -> {0, c}]
      BY <2>1, <2>2 DEF c
    <2> QED
      BY <2>3
  <1>4. logins \in [LoginIDs -> Logins]
    <2>1. PICK name \in Usernames, secret \in Secrets :
            logins = [id \in LoginIDs |-> [username |-> name, passphrase |-> secret]]
      BY DEF Init
    <2> QED
      BY <2>1 DEF Logins
  <1>5. sessions \in Seq({Session(id, time) : id \in LoginIDs, time \in 0..MaxTime})
    <2> DEFINE S == {Session(id, time) : id \in LoginIDs, time \in 0..MaxTime}
    <2>1. CASE sessions = <<>>
      BY <2>1
    <2>2. CASE sessions # <<>>
      <3>1. PICK id \in LoginIDs : sessions = <<Session(id, Started)>>
        BY <2>2 DEF Init
      <3>2. Session(id, Started) \in S
        BY ClockAssumption
      <3> HIDE DEF S
      <3>3. sessions \in Seq(S)
        BY <3>1, <3>2
      <3> QED
        BY <3>3 DEF S
    <2> QED
      BY <2>1, <2>2
  <1>6. current \in KeyIDs
    BY DEF Init
  <1> QED
    BY <1>1, <1>2, <1>3, <1>4, <1>5, <1>6, ClockAssumption DEF LoginInv, Types, Established, TokenBacked

\* The first answer: the login is found under what was typed.
LEMMA LoginLookUp ==
    ASSUME LoginInv, LookUp
    PROVE  LoginInv'
  <1>1. PICK login \in Spellings, passphrase \in Secrets :
          /\ EntityKey(login) \in Keys /\ index[EntityKey(login)] # 0
          /\ req' = [NoRequest EXCEPT !.login = login, !.passphrase = passphrase, !.id = index[EntityKey(login)]]
    BY DEF LookUp
  <1>2. /\ stage' = "login" /\ seen' = {accounts} /\ UNCHANGED <<index, logins, sessions, clock, current>>
    BY DEF LookUp, accounts, config
  <1> DEFINE id == index[EntityKey(login)]
  <1>3. id \in LoginIDs
    BY <1>1 DEF LoginInv, Types
  <1>4. req' = [login |-> login, passphrase |-> passphrase, id |-> id, name |-> NotOk, session |-> 0, key |-> 0]
    BY <1>1 DEF NoRequest
  <1> HIDE DEF id
  <1>5. req' \in Reqs /\ req'.session = 0 /\ req'.id = id /\ req'.login = login
    BY <1>3, <1>4 DEF Reqs
  <1>6. Looked' /\ accounts' \in seen'
    <2>1. accounts \in seen' /\ accounts[1] = index /\ accounts' = accounts
      BY <1>2 DEF accounts
    <2> QED
      BY <1>5, <2>1 DEF Looked, id
  <1> QED
    BY <1>2, <1>3, <1>5, <1>6 DEF LoginInv, Types, Established, TokenBacked

\* The second answer: it has the passphrase, and its name is remembered.
LEMMA LoginGetLogin ==
    ASSUME LoginInv, GetLogin
    PROVE  LoginInv'
  <1>1. /\ stage = "login" /\ logins[req.id].passphrase = req.passphrase
        /\ req' = [req EXCEPT !.name = logins[req.id].username] /\ stage' = "session"
        /\ UNCHANGED <<index, logins, sessions, clock, current, seen>>
    BY DEF GetLogin, Verified, accounts, config
  <1>2. req \in Reqs /\ req.id \in LoginIDs /\ accounts \in seen /\ Looked /\ req.session = 0
    BY <1>1 DEF LoginInv, Types, Established
  <1>3. logins[req.id] \in [username : Usernames, passphrase : Secrets]
    BY <1>1, <1>2 DEF LoginInv, Types, Logins, GetLogin, Verified
  <1>4. /\ req' \in Reqs /\ req'.session = 0 /\ req'.id = req.id /\ req'.login = req.login
        /\ req'.name = logins[req.id].username /\ req'.passphrase = req.passphrase
    BY <1>1, <1>2, <1>3 DEF Reqs
  <1>5. Named'
    <2>1. logins[req.id] = [username |-> req'.name, passphrase |-> req'.passphrase]
      BY <1>1, <1>3, <1>4
    <2>2. accounts[2] = logins /\ accounts \in seen'
      BY <1>1, <1>2 DEF accounts
    <2> QED
      BY <1>4, <2>1, <2>2 DEF Named
  <1>6. Looked' /\ accounts' \in seen'
    BY <1>1, <1>2, <1>4 DEF Looked, accounts
  <1> QED
    BY <1>1, <1>2, <1>4, <1>5, <1>6 DEF LoginInv, Types, Established, TokenBacked

\* The session is stored, whether the datastore reports it or not.
LEMMA LoginPut ==
    ASSUME LoginInv, PutSession \/ PutUnknown
    PROVE  LoginInv'
  <1> DEFINE S == {Session(id, time) : id \in LoginIDs, time \in 0..MaxTime}
             new == Session(req.id, clock)
  <1>1. /\ stage = "session" /\ sessions' = Append(sessions, new)
        /\ UNCHANGED <<index, logins, clock, current, seen>>
    BY DEF PutSession, PutUnknown, accounts, config
  <1>2. req \in Reqs /\ req.id \in LoginIDs /\ accounts \in seen /\ Looked /\ Named /\ req.session = 0
    BY <1>1 DEF LoginInv, Types, Established
  <1>3. sessions \in Seq(S) /\ new \in S /\ new.parent = req.id
    BY <1>2 DEF LoginInv, Types, Session
  <1>4. sessions' \in Seq(S) /\ Len(sessions') = Len(sessions) + 1 /\ sessions'[Len(sessions')] = new /\ Len(sessions') \in Nat
    <2> HIDE DEF S, new
    <2> QED
      BY <1>1, <1>3, AppendProperties, LenProperties
  <1>5. CASE PutSession
    <2>1. /\ req' = [req EXCEPT !.session = Len(sessions'), !.key = current] /\ stage' = "token"
      BY <1>5 DEF PutSession
    <2> DEFINE n == Len(sessions')
    <2>2. n \in Nat /\ current \in KeyIDs
      BY <1>4 DEF LoginInv, Types
    <2>3. /\ req' \in Reqs /\ req'.session = n /\ req'.id = req.id /\ req'.login = req.login
          /\ req'.name = req.name /\ req'.passphrase = req.passphrase
      <3> HIDE DEF n
      <3>1. req' = [req EXCEPT !.session = n, !.key = current]
        BY <2>1 DEF n
      <3> QED
        BY <1>2, <2>2, <3>1 DEF Reqs
    <2>4. Looked' /\ Named'
      BY <1>1, <1>2, <2>3 DEF Looked, Named
    <2>5. TokenBacked'
      <3>1. req'.session <= Len(sessions') /\ sessions'[req'.session].parent = req'.id
        BY <1>3, <1>4, <2>2, <2>3
      <3> QED
        BY <2>4, <3>1 DEF TokenBacked, Looked, Named
    <2> QED
      BY <1>1, <1>4, <2>1, <2>3, <2>5 DEF LoginInv, Types, Established
  <1>6. CASE PutUnknown
    <2>1. req' = req /\ stage' = "refused"
      BY <1>6 DEF PutUnknown
    <2> QED
      BY <1>1, <1>2, <1>4, <2>1 DEF LoginInv, Types, Established, TokenBacked
  <1> QED
    BY <1>5, <1>6

\* Accounts change; those at the beginning and since are remembered.
LEMMA LoginChange ==
    ASSUME LoginInv, ChangeAccount
    PROVE  LoginInv'
  <1>1. /\ stage \in {"login", "session"} /\ seen' = seen \cup {accounts'}
        /\ UNCHANGED <<stage, req, sessions, clock, current>>
    BY DEF ChangeAccount, config
  <1>2. index' \in [Keys -> LoginIDs \cup {0}]
    BY DEF ChangeAccount, LoginInv, Types
  <1>3. logins' \in [LoginIDs -> Logins]
    <2> DEFINE L == Logins
    <2>1. logins \in [LoginIDs -> L]
      BY DEF LoginInv, Types
    <2>2. CASE UNCHANGED logins
      BY <2>1, <2>2
    <2>3. CASE \E id \in LoginIDs, name \in Usernames, secret \in Secrets :
                 logins' \in {[logins EXCEPT ![id] = Missing],
                             [logins EXCEPT ![id] = [username |-> name, passphrase |-> secret]]}
      <3>1. PICK id \in LoginIDs, name \in Usernames, secret \in Secrets :
              \/ logins' = [logins EXCEPT ![id] = Missing]
              \/ logins' = [logins EXCEPT ![id] = [username |-> name, passphrase |-> secret]]
        BY <2>3
      <3>2. Missing \in L /\ [username |-> name, passphrase |-> secret] \in L
        BY DEF Logins
      <3> HIDE DEF L
      <3>3. logins' \in [LoginIDs -> L]
        BY <2>1, <3>1, <3>2
      <3> QED
        BY <3>3 DEF L
    <2> QED
      BY <2>2, <2>3 DEF ChangeAccount
  <1>4. Looked => Looked'
    BY <1>1 DEF Looked
  <1>5. Named => Named'
    BY <1>1 DEF Named
  <1> QED
    BY <1>1, <1>2, <1>3, <1>4, <1>5 DEF LoginInv, Types, Established, TokenBacked

\* Everything else leaves the login as it is, or ends it.
LEMMA LoginOther ==
    ASSUME LoginInv,
           Visit \/ Route \/ LoginFails \/ Gravatar \/ Create \/ Present \/ Deploy \/ Tick \/ UNCHANGED vars
    PROVE  LoginInv'
  <1>1. UNCHANGED <<req, index, logins, sessions, seen>>
    BY DEF Visit, Route, MoveToHttps, Serve, MoveToOfficial, LoginFails, Gravatar, Create, Present, Deploy, Tick,
           vars, accounts
  <1>2. clock' \in 0..MaxTime /\ current' \in KeyIDs
    <2>1. clock \in 0..MaxTime /\ current \in KeyIDs
      BY DEF LoginInv, Types
    <2>2. CASE Deploy
      BY <2>1, <2>2 DEF Deploy
    <2>3. CASE Tick
      BY <2>1, <2>3, ClockAssumption DEF Tick, config
    <2> QED
      BY <2>1, <2>2, <2>3 DEF Visit, Route, MoveToHttps, Serve, MoveToOfficial, LoginFails, Gravatar, Create, Present,
           vars, config
  <1>3. \/ stage' = stage
        \/ stage' \notin {"login", "session", "token", "done"} /\ stage \notin {"token", "done"}
        \/ stage' = "done" /\ stage \in {"api", "token"}
    <2>1. CASE Visit
      BY <2>1 DEF Visit
    <2>2. CASE Route
      <3>1. Dispatch(url.path) \notin {"login", "session", "token", "done"}
        BY DEF Dispatch
      <3> QED
        BY <2>2, <3>1 DEF Route, MoveToHttps, Serve, MoveToOfficial
    <2>3. CASE LoginFails
      BY <2>3 DEF LoginFails
    <2>4. CASE Gravatar
      BY <2>4 DEF Gravatar
    <2>5. CASE Create
      BY <2>5 DEF Create
    <2>6. CASE Present \/ Deploy \/ Tick \/ UNCHANGED vars
      BY <2>6 DEF Present, Deploy, Tick, vars
    <2> QED
      BY <2>1, <2>2, <2>3, <2>4, <2>5, <2>6
  <1>4. Types'
    BY <1>1, <1>2 DEF LoginInv, Types
  <1>5. Established'
    BY <1>1, <1>3 DEF LoginInv, Established, Looked, Named, accounts
  <1>6. TokenBacked'
    BY <1>1, <1>3 DEF LoginInv, Established, TokenBacked
  <1> QED
    BY <1>4, <1>5, <1>6 DEF LoginInv

\* The invariant is inductive.
LEMMA LoginNext == LoginInv /\ [Next]_vars => LoginInv'
  BY LoginLookUp, LoginGetLogin, LoginPut, LoginChange, LoginOther DEF Next, Services

\* Who has a token has a stored session, of a login that was found under what
\* they typed, bore the name in the token and had their passphrase, each at
\* some time during the request.
THEOREM TokensAreBacked == Spec => []TokenBacked
  <1>1. LoginInv => TokenBacked
    BY DEF LoginInv
  <1> QED
    BY <1>1, LoginInit, LoginNext, PTL DEF Spec

----------------------------------------------------------------------------
(* Timestamps. *)

\* A set of numbers that is not empty has a least one.
LEMMA LeastNumber ==
    ASSUME NEW T, T \subseteq Nat, T # {}
    PROVE  \E x \in T : \A y \in T : x <= y
  <1> DEFINE R == {ss \in Nat \X Nat : ss[1] < ss[2]}
  <1>1. IsWellFoundedOn(R, Nat)
    BY NatLessThanWellFounded DEF OpToRel
  <1>2. \A x, y \in Nat : <<x, y>> \in R <=> x < y
    OBVIOUS
  <1> HIDE DEF R
  <1>3. PICK x \in T : \A y \in T : ~(<<y, x>> \in R)
    BY <1>1, WFMin
  <1>4. ASSUME NEW y \in T PROVE x <= y
    <2>1. ~(<<y, x>> \in R) /\ x \in Nat /\ y \in Nat
      BY <1>3
    <2>2. ~(y < x)
      BY <1>2, <2>1
    <2> QED
      BY <2>1, <2>2
  <1> QED
    BY <1>4

\* A place is worth ten of the next.
LEMMA Places ==
    /\ Place(0) = 1
    /\ \A k \in 0..19 : Place(k) \in Nat \ {0}
    /\ \A k \in 0..18 : Place(k + 1) = 10 * Place(k)
  <1> DEFINE P(n) == 10 ^ n
  <1>1. /\ P(0) = 1 /\ P(1) = 10 * P(0) /\ P(2) = 10 * P(1) /\ P(3) = 10 * P(2) /\ P(4) = 10 * P(3)
        /\ P(5) = 10 * P(4) /\ P(6) = 10 * P(5) /\ P(7) = 10 * P(6) /\ P(8) = 10 * P(7)
        /\ P(9) = 10 * P(8) /\ P(10) = 10 * P(9)
    BY SMT
  <1>2. \A k \in Nat : Place(k) = IF k <= 9 THEN P(k) ELSE P(9) * P(k - 9)
    BY DEF Place
  <1> HIDE DEF P
  <1>3. ASSUME NEW k \in 0..10 PROVE P(k) \in Nat \ {0}
    BY <1>1, SMT
  <1>4. ASSUME NEW k \in 0..9 PROVE P(k + 1) = 10 * P(k)
    BY <1>1, SMT
  <1>5. ASSUME NEW k \in 0..19 PROVE Place(k) \in Nat \ {0}
    <2>1. CASE k <= 9
      BY <1>2, <1>3, <2>1
    <2>2. CASE k > 9
      <3>1. P(9) \in Nat \ {0} /\ P(k - 9) \in Nat \ {0}
        BY <1>3, <2>2
      <3> QED
        BY <1>2, <2>2, <3>1
    <2> QED
      BY <2>1, <2>2
  <1>6. ASSUME NEW k \in 0..18 PROVE Place(k + 1) = 10 * Place(k)
    <2>1. CASE k <= 8
      BY <1>2, <1>4, <2>1
    <2>2. CASE k > 8
      <3> DEFINE m == k - 9
      <3>1. m \in 0..9 /\ Place(k + 1) = P(9) * P(m + 1)
        BY <1>2, <2>2
      <3>2. Place(k) = P(9) * P(m)
        BY <1>1, <1>2, <1>3, <2>2
      <3> HIDE DEF m
      <3>3. P(9) \in Nat /\ P(m) \in Nat /\ P(m + 1) = 10 * P(m)
        BY <1>3, <1>4, <3>1
      <3>4. P(9) * (10 * P(m)) = 10 * (P(9) * P(m))
        BY <3>3
      <3> QED
        BY <3>1, <3>2, <3>3, <3>4
    <2> QED
      BY <2>1, <2>2
  <1>7. Place(0) = 1
    BY <1>1, <1>2
  <1> QED
    BY <1>5, <1>6, <1>7

\* What remains of a number without its last digits, one digit more or less.
LEMMA Shifted ==
    ASSUME NEW a \in Nat, NEW p \in Nat \ {0}
    PROVE  /\ a \div p \in Nat /\ a \div (10 * p) \in Nat /\ (a \div p) % 10 \in 0..9
           /\ a \div p = (10 * (a \div (10 * p))) + ((a \div p) % 10)
           /\ a < p => a \div p = 0
           /\ a \div 1 = a
  <1> DEFINE q == a \div p
             r == q \div 10
             d == q % 10
  <1>1. q \in Nat /\ p * q <= a /\ a < p * (q + 1)
    OBVIOUS
  <1> HIDE DEF q
  <1>2. r \in Nat /\ d \in 0..9 /\ q = (10 * r) + d
    BY <1>1
  <1> HIDE DEF r, d
  <1>3. (10 * p) * r <= a /\ a < (10 * p) * (r + 1)
    <2>1. p * (10 * r) <= p * q /\ p * (q + 1) <= p * (10 * r + 10)
      BY <1>1, <1>2
    <2>2. p * (10 * r) = (10 * p) * r /\ p * (10 * r + 10) = (10 * p) * (r + 1)
      BY <1>2
    <2>3. p * q \in Nat /\ p * (q + 1) \in Nat /\ (10 * p) * r \in Nat /\ (10 * p) * (r + 1) \in Nat
      BY <1>1, <1>2
    <2> QED
      BY <1>1, <2>1, <2>2, <2>3
  <1>4. a \div (10 * p) = r
    <2> DEFINE z == 10 * p
    <2>1. z \in Nat \ {0}
      OBVIOUS
    <2>2. z * r <= a /\ a < z * (r + 1)
      BY <1>3
    <2> HIDE DEF z
    <2>3. a \div z = r
      BY <1>2, <2>1, <2>2
    <2> QED
      BY <2>3 DEF z
  <1>5. a < p => q = 0
    BY <1>1
  <1>6. a \div 1 = a
    OBVIOUS
  <1> QED
    BY <1>1, <1>2, <1>4, <1>5, <1>6 DEF q, r, d

\* What remains is no less for a greater number.
LEMMA ShiftedGrows ==
    ASSUME NEW a \in Nat, NEW b \in Nat, a <= b, NEW p \in Nat \ {0}
    PROVE  a \div p <= b \div p
  OBVIOUS

\* The digit of t that From writes at i.
Digit(t, i) == 48 + ((t \div Place(Width - i)) % 10)

\* Two texts one after the other.
LEMMA Joined ==
    ASSUME NEW s \in Seq(Int), NEW u \in Seq(Int)
    PROVE  /\ s \o u \in Seq(Int) /\ Len(s \o u) = Len(s) + Len(u)
           /\ \A i \in 1..Len(s) : (s \o u)[i] = s[i]
           /\ \A i \in 1..Len(u) : (s \o u)[Len(s) + i] = u[i]
  OBVIOUS

\* A timestamp is its prefix, its digits and a line end.
LEMMA Padded ==
    ASSUME NEW t \in Nat
    PROVE  /\ From(t) \in Seq(Int) /\ Len(From(t)) = Width + 2
           /\ From(t)[1] = timePrefix /\ From(t)[Width + 2] = Newline
           /\ \A i \in 1..Width : From(t)[i + 1] = Digit(t, i)
  <1> DEFINE ds == [i \in 1..Width |-> Digit(t, i)]
             x == <<timePrefix>>
             y == <<Newline>>
  <1>1. Width \in Nat
    BY WidthAssumption
  <1>2. \A i \in 1..Width : Digit(t, i) \in Int
    <2> SUFFICES ASSUME NEW i \in 1..Width PROVE Digit(t, i) \in Int
      OBVIOUS
    <2> DEFINE p == Place(Width - i)
    <2>1. p \in Nat \ {0}
      <3>1. Width - i \in 0..19
        BY WidthAssumption
      <3> QED
        BY <3>1, Places
    <2>2. Digit(t, i) = 48 + ((t \div p) % 10)
      BY DEF Digit
    <2> HIDE DEF p
    <2>3. (t \div p) % 10 \in 0..9
      BY <2>1, Shifted
    <2> QED
      BY <2>2, <2>3
  <1>3. ds \in Seq(Int) /\ Len(ds) = Width
    BY <1>1, <1>2
  <1>4. x \in Seq(Int) /\ Len(x) = 1 /\ x[1] = timePrefix /\ y \in Seq(Int) /\ Len(y) = 1 /\ y[1] = Newline
    BY DEF timePrefix, PrefixFactor, Newline
  <1>5. From(t) = x \o ds \o y
    BY DEF From, Digit
  <1>6. \A i \in 1..Width : ds[i] = Digit(t, i)
    OBVIOUS
  <1> HIDE DEF x, y, ds
  <1> DEFINE w == x \o ds
  <1>7. w \in Seq(Int) /\ Len(w) = Width + 1 /\ w[1] = timePrefix /\ \A i \in 1..Width : w[i + 1] = ds[i]
    <2>1. w \in Seq(Int) /\ Len(w) = Len(x) + Len(ds)
      BY <1>3, <1>4, Joined
    <2>2. \A i \in 1..Len(x) : w[i] = x[i]
      BY <1>3, <1>4, Joined
    <2>3. \A i \in 1..Len(ds) : w[Len(x) + i] = ds[i]
      BY <1>3, <1>4, Joined
    <2> HIDE DEF w
    <2>4. w[1] = x[1]
      BY <1>4, <2>2
    <2>5. ASSUME NEW i \in 1..Width PROVE w[i + 1] = ds[i]
      <3>1. 1 + i = i + 1
        OBVIOUS
      <3> QED
        BY <1>3, <1>4, <2>3, <3>1
    <2> QED
      BY <1>1, <1>3, <1>4, <2>1, <2>4, <2>5
  <1> HIDE DEF w
  <1>8. /\ w \o y \in Seq(Int) /\ Len(w \o y) = Width + 2
        /\ \A i \in 1..Width + 1 : (w \o y)[i] = w[i]
        /\ (w \o y)[Width + 2] = y[1]
    <2>1. w \o y \in Seq(Int) /\ Len(w \o y) = Len(w) + Len(y)
      BY <1>4, <1>7, Joined
    <2>2. \A i \in 1..Len(w) : (w \o y)[i] = w[i]
      BY <1>4, <1>7, Joined
    <2>3. \A i \in 1..Len(y) : (w \o y)[Len(w) + i] = y[i]
      BY <1>4, <1>7, Joined
    <2>4. (Width + 1) + 1 = Width + 2 /\ 1 \in 1..Len(y)
      BY <1>1, <1>4
    <2>5. (w \o y)[Width + 2] = y[1]
      BY <1>7, <2>3, <2>4
    <2> QED
      BY <1>4, <1>7, <2>1, <2>2, <2>4, <2>5
  <1>9. From(t) = w \o y
    BY <1>5 DEF w
  <1> DEFINE f == w \o y
  <1>10. f \in Seq(Int) /\ Len(f) = Width + 2 /\ f[1] = timePrefix /\ f[Width + 2] = Newline
    BY <1>1, <1>4, <1>7, <1>8
  <1>11. ASSUME NEW i \in 1..Width PROVE f[i + 1] = Digit(t, i)
    <2>1. i + 1 \in 1..Width + 1
      BY <1>1
    <2>2. f[i + 1] = w[i + 1]
      BY <1>8, <2>1
    <2> QED
      BY <1>6, <1>7, <2>2
  <1> HIDE DEF f
  <1>12. From(t) = f
    BY <1>9 DEF f
  <1> QED
    BY <1>10, <1>11, <1>12

\* The earlier of two times is written before the later: the numbers agree in
\* their first digits, and then the digit of the earlier is less.
LEMMA EarlierIsBefore ==
    ASSUME NEW a \in Nat, NEW b \in Nat, a < b, b < Place(Width)
    PROVE  Before(From(a), From(b))
  <1> DEFINE Q(t, k) == t \div Place(Width - k)
             Ks == {k \in 0..Width : Q(a, k) # Q(b, k)}
  <1>1. Width \in 1..19
    BY WidthAssumption
  <1>2. \A k \in 0..Width : Place(Width - k) \in Nat \ {0} /\ Width - k \in 0..19
    BY <1>1, Places
  <1>3. Q(a, 0) = 0 /\ Q(b, 0) = 0
    <2>1. Place(Width) \in Nat \ {0}
      BY <1>1, Places
    <2>2. a < Place(Width)
      BY <2>1
    <2>3. a \div Place(Width) = 0 /\ b \div Place(Width) = 0
      BY <2>1, <2>2, Shifted
    <2>4. Width - 0 = Width
      BY <1>1
    <2> QED
      BY <2>3, <2>4
  <1>4. Q(a, Width) = a /\ Q(b, Width) = b
    <2>1. Width - Width = 0
      BY <1>1
    <2>2. Place(Width - Width) = 1
      BY <2>1, Places
    <2>3. Q(a, Width) = a \div 1 /\ Q(b, Width) = b \div 1
      BY <2>2
    <2> HIDE DEF Q
    <2> QED
      BY <2>3
  <1>5. \A k \in 0..Width : Q(a, k) \in Nat /\ Q(b, k) \in Nat /\ Q(a, k) <= Q(b, k)
    <2> SUFFICES ASSUME NEW k \in 0..Width PROVE Q(a, k) \in Nat /\ Q(b, k) \in Nat /\ Q(a, k) <= Q(b, k)
      OBVIOUS
    <2>1. Place(Width - k) \in Nat \ {0} /\ a <= b
      BY <1>2
    <2> QED
      BY <2>1, Shifted, ShiftedGrows
  <1>6. \A k \in 1..Width : /\ Q(a, k) = (10 * Q(a, k - 1)) + (Q(a, k) % 10) /\ Q(a, k) % 10 \in 0..9
                            /\ Q(b, k) = (10 * Q(b, k - 1)) + (Q(b, k) % 10) /\ Q(b, k) % 10 \in 0..9
    <2> SUFFICES ASSUME NEW k \in 1..Width
                 PROVE  /\ Q(a, k) = (10 * Q(a, k - 1)) + (Q(a, k) % 10) /\ Q(a, k) % 10 \in 0..9
                        /\ Q(b, k) = (10 * Q(b, k - 1)) + (Q(b, k) % 10) /\ Q(b, k) % 10 \in 0..9
      OBVIOUS
    <2> DEFINE p == Place(Width - k)
    <2>1. p \in Nat \ {0}
      BY <1>2
    <2>2. Width - (k - 1) = (Width - k) + 1 /\ Width - k \in 0..18
      BY <1>1
    <2>3. Place(Width - (k - 1)) = 10 * p
      BY <2>2, Places
    <2>4. Q(a, k - 1) = a \div (10 * p) /\ Q(b, k - 1) = b \div (10 * p)
      BY <2>3
    <2>5. Q(a, k) = a \div p /\ Q(b, k) = b \div p
      OBVIOUS
    <2> HIDE DEF p, Q
    <2>6. a \div p = (10 * (a \div (10 * p))) + ((a \div p) % 10) /\ (a \div p) % 10 \in 0..9
      BY <2>1, Shifted
    <2>7. b \div p = (10 * (b \div (10 * p))) + ((b \div p) % 10) /\ (b \div p) % 10 \in 0..9
      BY <2>1, Shifted
    <2> QED
      BY <2>4, <2>5, <2>6, <2>7, Zenon
  <1>7. \A k \in 1..Width : Digit(a, k) = 48 + (Q(a, k) % 10) /\ Digit(b, k) = 48 + (Q(b, k) % 10)
    BY DEF Digit
  <1>8. Width \in Ks /\ Ks \subseteq Nat
    BY <1>1, <1>4
  <1>9. PICK k \in Ks : \A j \in Ks : k <= j
    <2> HIDE DEF Ks
    <2> QED
      BY <1>8, LeastNumber
  <1> HIDE DEF Q
  <1>10. k \in 1..Width /\ \A j \in 0..k - 1 : Q(a, j) = Q(b, j)
    BY <1>1, <1>3, <1>9
  <1>11. Digit(a, k) < Digit(b, k)
    <2>1. Q(a, k) < Q(b, k)
      BY <1>5, <1>9
    <2>2. Q(a, k - 1) = Q(b, k - 1) /\ Q(a, k - 1) \in Nat
      <3>1. k - 1 \in 0..k - 1 /\ k - 1 \in 0..Width
        BY <1>1, <1>10
      <3> QED
        BY <1>5, <1>10, <3>1
    <2> DEFINE da == Q(a, k) % 10
               db == Q(b, k) % 10
    <2>3. Q(a, k) = (10 * Q(a, k - 1)) + da /\ da \in 0..9 /\ Q(b, k) = (10 * Q(b, k - 1)) + db /\ db \in 0..9
      BY <1>6, <1>10
    <2>4. Digit(a, k) = 48 + da /\ Digit(b, k) = 48 + db
      BY <1>7, <1>10
    <2> HIDE DEF da, db
    <2> QED
      BY <2>1, <2>2, <2>3, <2>4
  <1>12. \A i \in 1..k - 1 : Digit(a, i) = Digit(b, i)
    BY <1>1, <1>7, <1>10
  <1> DEFINE s == From(a)
             t == From(b)
  <1>13. /\ Len(s) = Width + 2 /\ Len(t) = Width + 2 /\ s[1] = t[1]
         /\ \A i \in 1..Width : s[i + 1] = Digit(a, i) /\ t[i + 1] = Digit(b, i)
    BY Padded
  <1> HIDE DEF s, t, Ks
  <1>14. k + 1 \in 1..Len(s) /\ k + 1 <= Len(t) /\ s[k + 1] < t[k + 1]
    BY <1>1, <1>10, <1>11, <1>13
  <1>15. ASSUME NEW i \in 1..(k + 1) - 1 PROVE s[i] = t[i]
    <2>1. CASE i = 1
      BY <1>13, <2>1
    <2>2. CASE i # 1
      <3>1. i - 1 \in 1..k - 1 /\ i - 1 \in 1..Width /\ (i - 1) + 1 = i
        BY <1>1, <1>10, <2>2
      <3> QED
        BY <1>12, <1>13, <3>1
    <2> QED
      BY <2>1, <2>2
  <1>16. Before(s, t)
    BY <1>14, <1>15 DEF Before
  <1> QED
    BY <1>16 DEF s, t

\* Of two texts of the same length at most one is before the other.
LEMMA BeforeOneWay ==
    ASSUME NEW s \in Seq(Int), NEW t \in Seq(Int), Len(s) = Len(t), Before(s, t)
    PROVE  ~Before(t, s) /\ s # t
  <1>1. Len(s) \in Nat
    OBVIOUS
  <1>2. PICK k \in 1..Len(s) : s[k] < t[k] /\ \A i \in 1..k - 1 : s[i] = t[i]
    BY <1>1 DEF Before
  <1>3. s[k] \in Int /\ t[k] \in Int
    BY <1>2
  <1>4. ASSUME NEW j \in 1..Len(s), t[j] < s[j], \A i \in 1..j - 1 : t[i] = s[i] PROVE FALSE
    <2>1. s[j] \in Int /\ t[j] \in Int
      OBVIOUS
    <2>2. CASE j = k
      BY <1>2, <1>3, <1>4, <2>2
    <2>3. CASE j < k
      BY <1>2, <1>4, <2>1, <2>3
    <2>4. CASE j > k
      BY <1>2, <1>3, <1>4, <2>4
    <2> QED
      BY <1>1, <2>2, <2>3, <2>4
  <1>5. ~Before(t, s)
    <2>1. SUFFICES ASSUME Before(t, s) PROVE FALSE
      OBVIOUS
    <2>2. PICK j \in 1..Len(t) : t[j] < s[j] /\ \A i \in 1..j - 1 : t[i] = s[i]
      BY <2>1 DEF Before
    <2>3. j \in 1..Len(s)
      BY <2>2
    <2> QED
      BY <1>4, <2>2, <2>3, Zenon
  <1>6. s # t
    BY <1>2, <1>3
  <1> QED
    BY <1>5, <1>6

\* Timestamps sort as the times do.
LEMMA StampsSort ==
    ASSUME NEW a \in Nat, NEW b \in Nat, a < Place(Width), b < Place(Width)
    PROVE  a < b <=> Before(From(a), From(b))
  <1>1. /\ From(a) \in Seq(Int) /\ From(b) \in Seq(Int)
        /\ Len(From(a)) = Width + 2 /\ Len(From(b)) = Width + 2
    BY Padded
  <1>2. a < b => Before(From(a), From(b))
    BY EarlierIsBefore
  <1>3. b < a => ~Before(From(a), From(b))
    BY <1>1, EarlierIsBefore, BeforeOneWay
  <1>4. a = b => ~Before(From(a), From(b))
    BY <1>1, BeforeOneWay
  <1> QED
    BY <1>2, <1>3, <1>4

\* Sessions sort by their expiry, although a timestamp is text: every expiry
\* has its digits.
THEOREM SessionsAreSorted == Spec => []SessionsSort
  <1>1. Types => SessionsSort
    <2> SUFFICES ASSUME Types, NEW i \in 1..Len(sessions), NEW j \in 1..Len(sessions)
                 PROVE  sessions[i].initiated < sessions[j].initiated
                          <=> Before(sessions[i].expires, sessions[j].expires)
      BY DEF SessionsSort
    <2> DEFINE S == {Session(id, time) : id \in LoginIDs, time \in 0..MaxTime}
    <2>1. sessions[i] \in S /\ sessions[j] \in S
      <3>1. sessions \in Seq(S)
        BY DEF Types
      <3> HIDE DEF S
      <3> QED
        BY <3>1
    <2>2. PICK t \in 0..MaxTime : sessions[i].initiated = t /\ sessions[i].expires = From(t + Hour)
      BY <2>1 DEF Session
    <2>3. PICK u \in 0..MaxTime : sessions[j].initiated = u /\ sessions[j].expires = From(u + Hour)
      BY <2>1 DEF Session
    <2> DEFINE a == t + Hour
               b == u + Hour
    <2>4. Place(Width) \in Nat
      <3>1. Width \in 0..19
        BY WidthAssumption
      <3> QED
        BY <3>1, Places
    <2>5. a \in Nat /\ b \in Nat /\ a < Place(Width) /\ b < Place(Width) /\ (t < u <=> a < b)
      BY <2>4, ClockAssumption DEF Hour
    <2> HIDE DEF a, b
    <2>6. a < b <=> Before(From(a), From(b))
      BY <2>5, StampsSort
    <2> QED
      BY <2>2, <2>3, <2>5, <2>6 DEF a, b
  <1>2. LoginInv => Types
    BY DEF LoginInv
  <1> QED
    BY <1>1, <1>2, LoginInit, LoginNext, PTL DEF Spec

----------------------------------------------------------------------------
(* Tokens. *)

\* The separators of a text are finitely many.
LEMMA SepsFinite ==
    ASSUME NEW S, NEW text \in Seq(S), NEW sep
    PROVE  IsFiniteSet(Seps(text, sep)) /\ Seps(text, sep) \subseteq Nat
  <1>1. Len(text) \in Nat
    OBVIOUS
  <1>2. IsFiniteSet(1..Len(text))
    BY <1>1, FS_Interval
  <1>3. Seps(text, sep) \in SUBSET (1..Len(text))
    BY DEF Seps
  <1> QED
    BY <1>1, <1>2, <1>3, FS_Subset

\* The k-th separator is the one with k up to it.
LEMMA CutIs ==
    ASSUME NEW S, NEW text \in Seq(S), NEW sep, NEW k, NEW c \in Seps(text, sep),
           Cardinality({j \in Seps(text, sep) : j <= c}) = k
    PROVE  Cut(text, sep, k) = c
  <1> DEFINE P == Seps(text, sep)
             Upto(i) == {j \in P : j <= i}
             d == Cut(text, sep, k)
  <1>1. IsFiniteSet(P) /\ P \subseteq Nat
    BY SepsFinite
  <1>2. d \in P /\ Cardinality(Upto(d)) = k
    BY DEF Cut
  <1> HIDE DEF d, P
  <1>3. ASSUME NEW i \in P, NEW j \in P, i < j PROVE Cardinality(Upto(i)) # Cardinality(Upto(j))
    <2>1. IsFiniteSet(Upto(j))
      BY <1>1, FS_Subset
    <2>2. Upto(i) \in SUBSET Upto(j) /\ j \in Upto(j) /\ j \notin Upto(i)
      <3>1. i \in Nat /\ j \in Nat /\ j <= j /\ ~(j <= i)
        BY <1>1, <1>3
      <3>2. ASSUME NEW m \in P, m <= i PROVE m <= j
        <4>1. m \in Nat
          BY <1>1
        <4> QED
          BY <1>3, <3>1, <3>2, <4>1
      <3> QED
        BY <3>1, <3>2, Zenon
    <2> HIDE DEF Upto
    <2> QED
      BY <2>1, <2>2, FS_Subset
  <1>4. c \in P /\ Cardinality(Upto(c)) = k
    BY DEF P
  <1>5. ~(c < d) /\ ~(d < c)
    BY <1>2, <1>3, <1>4
  <1>6. c = d
    BY <1>1, <1>2, <1>4, <1>5
  <1> QED
    BY <1>6 DEF d

\* A text without separators is one piece.
LEMMA SplitNone ==
    ASSUME NEW S, NEW text \in Seq(S), NEW sep, Seps(text, sep) = {}, NEW n \in Nat \ {0}
    PROVE  Len(SplitN(text, sep, n)) = 1
  <1>1. Cardinality(Seps(text, sep)) = 0
    BY FS_EmptySet
  <1> DEFINE f == [k \in 1..1 |-> SubSeq(text, IF k = 1 THEN 1 ELSE Cut(text, sep, k - 1) + 1,
                                         IF k = 1 THEN Len(text) ELSE Cut(text, sep, k) - 1)]
  <1>2. SplitN(text, sep, n) = f
    BY <1>1 DEF SplitN
  <1>3. Len(f) = 1
    OBVIOUS
  <1> QED
    BY <1>2, <1>3

\* One separator makes two pieces.
LEMMA SplitTwo ==
    ASSUME NEW S, NEW p \in Seq(S), NEW q \in Seq(S), NEW sep \in S, NEW n \in Nat, n >= 2,
           Seps(p, sep) = {}, Seps(q, sep) = {}
    PROVE  /\ Len(SplitN((p \o <<sep>>) \o q, sep, n)) = 2
           /\ SplitN((p \o <<sep>>) \o q, sep, n)[1] = p /\ SplitN((p \o <<sep>>) \o q, sep, n)[2] = q
  <1> DEFINE x == <<sep>>
             ps == p \o x
             text == ps \o q
             c == Len(p) + 1
  <1>1. Len(p) \in Nat /\ Len(q) \in Nat /\ x \in Seq(S) /\ Len(x) = 1 /\ x[1] = sep
    OBVIOUS
  <1>2. ps \in Seq(S) /\ Len(ps) = c /\ \A i \in 1..c : ps[i] = IF i <= Len(p) THEN p[i] ELSE sep
    <2>1. ps \in Seq(S) /\ Len(ps) = Len(p) + Len(x)
      BY <1>1, ConcatProperties
    <2>2. \A i \in 1..Len(p) + Len(x) : ps[i] = IF i <= Len(p) THEN p[i] ELSE x[i - Len(p)]
      BY <1>1, ConcatProperties
    <2> HIDE DEF ps, x
    <2>3. ASSUME NEW i \in 1..c PROVE ps[i] = IF i <= Len(p) THEN p[i] ELSE sep
      <3>1. i > Len(p) => i - Len(p) = 1
        BY <1>1
      <3> QED
        BY <1>1, <2>2, <3>1
    <2> QED
      BY <1>1, <2>1, <2>3
  <1> HIDE DEF ps
  <1>3. text \in Seq(S) /\ Len(text) = c + Len(q)
    <2>1. text \in Seq(S) /\ Len(text) = Len(ps) + Len(q)
      BY <1>2, ConcatProperties
    <2> QED
      BY <1>2, <2>1
  <1>4. \A i \in 1..c + Len(q) : text[i] = IF i <= c THEN ps[i] ELSE q[i - c]
    BY <1>1, <1>2, ConcatProperties
  <1> HIDE DEF text
  <1>5. Seps(text, sep) = {c}
    <2>1. c \in Seps(text, sep)
      BY <1>1, <1>2, <1>3, <1>4 DEF Seps
    <2>2. ASSUME NEW i \in Seps(text, sep) PROVE i = c
      <3>1. i \in 1..c + Len(q) /\ text[i] = sep
        BY <1>3 DEF Seps
      <3>2. CASE i < c
        <4>1. i \in 1..Len(p) /\ p[i] = sep
          BY <1>1, <1>2, <1>4, <3>1, <3>2
        <4> QED
          BY <4>1 DEF Seps
      <3>3. CASE i > c
        <4>1. i - c \in 1..Len(q) /\ q[i - c] = sep
          BY <1>1, <1>4, <3>1, <3>3
        <4> QED
          BY <4>1 DEF Seps
      <3> QED
        BY <1>1, <3>1, <3>2, <3>3
    <2> QED
      BY <2>1, <2>2
  <1>6. Cardinality(Seps(text, sep)) = 1
    BY <1>5, FS_Singleton
  <1>7. Cut(text, sep, 1) = c
    <2>1. {j \in Seps(text, sep) : j <= c} = {c}
      BY <1>1, <1>5
    <2>2. Cardinality({j \in Seps(text, sep) : j <= c}) = 1
      BY <2>1, FS_Singleton
    <2> QED
      BY <1>3, <1>5, <2>2, CutIs
  <1> DEFINE from(k) == IF k = 1 THEN 1 ELSE Cut(text, sep, k - 1) + 1
             to(k) == IF k = 2 THEN Len(text) ELSE Cut(text, sep, k) - 1
             f == [k \in 1..2 |-> SubSeq(text, from(k), to(k))]
  <1>8. SplitN(text, sep, n) = f
    <2> DEFINE count == IF Cardinality(Seps(text, sep)) < n THEN Cardinality(Seps(text, sep)) + 1 ELSE n
    <2>1. count = 2
      BY <1>6
    <2>2. SplitN(text, sep, n) =
            [k \in 1..count |-> SubSeq(text, IF k = 1 THEN 1 ELSE Cut(text, sep, k - 1) + 1,
                                           IF k = count THEN Len(text) ELSE Cut(text, sep, k) - 1)]
      BY Zenon DEF SplitN
    <2> HIDE DEF count
    <2> QED
      BY <2>1, <2>2, Zenon
  <1>9. Len(f) = 2 /\ f[1] = SubSeq(text, 1, c - 1) /\ f[2] = SubSeq(text, c + 1, Len(text))
    <2>1. from(1) = 1 /\ to(1) = c - 1
      BY <1>7
    <2>2. from(2) = c + 1 /\ to(2) = Len(text)
      <3>1. 2 - 1 = 1 /\ 2 # 1
        OBVIOUS
      <3> QED
        BY <1>7, <3>1, Zenon
    <2> HIDE DEF from, to
    <2>3. \A k \in 1..2 : f[k] = SubSeq(text, from(k), to(k))
      OBVIOUS
    <2>a. Len(f) = 2
      OBVIOUS
    <2> HIDE DEF f
    <2>b. 1 \in 1..2 /\ 2 \in 1..2
      OBVIOUS
    <2>4. Len(f) = 2 /\ f[1] = SubSeq(text, from(1), to(1)) /\ f[2] = SubSeq(text, from(2), to(2))
      BY <2>3, <2>a, <2>b, Zenon
    <2> QED
      BY <2>1, <2>2, <2>4
  <1> HIDE DEF f
  <1>10. SubSeq(text, 1, c - 1) = p
    <2> DEFINE t == SubSeq(text, 1, c - 1)
    <2>1. \A i \in 1..c - 1 : text[i] \in S
      BY <1>1, <1>3
    <2>2. t \in Seq(S) /\ Len(t) = Len(p) /\ \A i \in 1..Len(p) : t[i] = text[i]
      BY <1>1, <2>1, SubSeqProperties
    <2>3. \A i \in 1..Len(p) : text[i] = p[i]
      BY <1>1, <1>2, <1>4
    <2> HIDE DEF t
    <2>4. t = p
      BY <2>2, <2>3, SeqEqual
    <2> QED
      BY <2>4 DEF t
  <1>11. SubSeq(text, c + 1, Len(text)) = q
    <2> DEFINE t == SubSeq(text, c + 1, c + Len(q))
    <2>1. \A i \in c + 1..c + Len(q) : text[i] \in S
      BY <1>1, <1>3
    <2>2. t \in Seq(S) /\ Len(t) = Len(q) /\ \A i \in 1..Len(q) : t[i] = text[c + i]
      BY <1>1, <2>1, SubSeqProperties
    <2>3. \A i \in 1..Len(q) : text[c + i] = q[i]
      BY <1>1, <1>4
    <2> HIDE DEF t
    <2>4. t = q
      BY <2>2, <2>3, SeqEqual
    <2> QED
      BY <1>3, <2>4 DEF t
  <1>12. SplitN((p \o <<sep>>) \o q, sep, n) = f
    BY <1>8 DEF text, ps
  <1> QED
    BY <1>9, <1>10, <1>11, <1>12

\* The pieces between separators at a, b, c and d.
Between(f, text, a, b, c, d) ==
    /\ Len(f) = 5
    /\ f[1] = SubSeq(text, 1, a - 1) /\ f[2] = SubSeq(text, a + 1, b - 1)
    /\ f[3] = SubSeq(text, b + 1, c - 1) /\ f[4] = SubSeq(text, c + 1, d - 1)
    /\ f[5] = SubSeq(text, d + 1, Len(text))

\* A set grows by the element it does not have.
LEMMA OneMore ==
    ASSUME NEW S, IsFiniteSet(S), NEW x, x \notin S
    PROVE  IsFiniteSet(S \cup {x}) /\ Cardinality(S \cup {x}) = Cardinality(S) + 1
  BY FS_AddElement

\* Four separators make five pieces.
LEMMA SplitFive ==
    ASSUME NEW S, NEW text \in Seq(S), NEW sep, NEW a \in Nat, NEW b \in Nat, NEW c \in Nat, NEW d \in Nat,
           a < b, b < c, c < d, Seps(text, sep) = {a, b, c, d}
    PROVE  Between(SplitN(text, sep, 5), text, a, b, c, d)
  <1> DEFINE P == Seps(text, sep)
             Upto(i) == {j \in P : j <= i}
             A == {a}
             B == A \cup {b}
             C == B \cup {c}
             D == C \cup {d}
  <1>1. b \notin A /\ c \notin B /\ d \notin C /\ P = D
    OBVIOUS
  <1>2. IsFiniteSet(A) /\ Cardinality(A) = 1
    BY FS_Singleton
  <1>3. IsFiniteSet(B) /\ Cardinality(B) = 2
    <2>1. b \notin A /\ IsFiniteSet(A) /\ Cardinality(A) = 1
      BY <1>1, <1>2
    <2> HIDE DEF A, P, Upto
    <2>2. IsFiniteSet(B) /\ Cardinality(B) = Cardinality(A) + 1
      BY <2>1, OneMore
    <2> QED
      BY <2>1, <2>2
  <1>4. IsFiniteSet(C) /\ Cardinality(C) = 3
    <2>1. c \notin B /\ IsFiniteSet(B) /\ Cardinality(B) = 2
      BY <1>1, <1>3
    <2> HIDE DEF A, B, P, Upto
    <2>2. IsFiniteSet(C) /\ Cardinality(C) = Cardinality(B) + 1
      BY <2>1, OneMore
    <2> QED
      BY <2>1, <2>2
  <1>5. IsFiniteSet(D) /\ Cardinality(D) = 4
    <2>1. d \notin C /\ IsFiniteSet(C) /\ Cardinality(C) = 3
      BY <1>1, <1>4
    <2> HIDE DEF A, B, C, P, Upto
    <2>2. IsFiniteSet(D) /\ Cardinality(D) = Cardinality(C) + 1
      BY <2>1, OneMore
    <2> QED
      BY <2>1, <2>2
  <1>6. Upto(a) = A /\ Upto(b) = B /\ Upto(c) = C /\ Upto(d) = D
    <2>1. Upto(a) = A
      OBVIOUS
    <2>2. Upto(b) = B
      OBVIOUS
    <2>3. Upto(c) = C
      OBVIOUS
    <2>4. Upto(d) = D
      OBVIOUS
    <2> QED
      BY <2>1, <2>2, <2>3, <2>4
  <1>7. Cut(text, sep, 1) = a /\ Cut(text, sep, 2) = b /\ Cut(text, sep, 3) = c /\ Cut(text, sep, 4) = d
    <2>1. a \in P /\ b \in P /\ c \in P /\ d \in P
      OBVIOUS
    <2>2. /\ Cardinality(Upto(a)) = 1 /\ Cardinality(Upto(b)) = 2
          /\ Cardinality(Upto(c)) = 3 /\ Cardinality(Upto(d)) = 4
      BY <1>2, <1>3, <1>4, <1>5, <1>6
    <2>3. Cut(text, sep, 1) = a
      BY <2>1, <2>2, CutIs
    <2>4. Cut(text, sep, 2) = b
      BY <2>1, <2>2, CutIs
    <2>5. Cut(text, sep, 3) = c
      BY <2>1, <2>2, CutIs
    <2>6. Cut(text, sep, 4) = d
      BY <2>1, <2>2, CutIs
    <2> QED
      BY <2>3, <2>4, <2>5, <2>6
  <1> DEFINE f == [k \in 1..5 |-> SubSeq(text, IF k = 1 THEN 1 ELSE Cut(text, sep, k - 1) + 1,
                                         IF k = 5 THEN Len(text) ELSE Cut(text, sep, k) - 1)]
  <1>8. SplitN(text, sep, 5) = f
    <2>0. Cardinality(P) = 4
      BY <1>1, <1>5
    <2> DEFINE m == Cardinality(P)
    <2> HIDE DEF m
    <2>1. m = 4 /\ (IF m < 5 THEN m + 1 ELSE 5) = 5
      BY <2>0 DEF m
    <2> USE DEF m
    <2> QED
      BY <2>1 DEF SplitN
  <1>9. /\ Len(f) = 5 /\ f[1] = SubSeq(text, 1, a - 1) /\ f[2] = SubSeq(text, a + 1, b - 1)
        /\ f[3] = SubSeq(text, b + 1, c - 1) /\ f[4] = SubSeq(text, c + 1, d - 1)
        /\ f[5] = SubSeq(text, d + 1, Len(text))
    <2> HIDE DEF P, Upto, A, B, C, D
    <2> DEFINE lo(k) == IF k = 1 THEN 1 ELSE Cut(text, sep, k - 1) + 1
               hi(k) == IF k = 5 THEN Len(text) ELSE Cut(text, sep, k) - 1
               e(k) == SubSeq(text, lo(k), hi(k))
    <2>1. lo(1) = 1 /\ lo(2) = a + 1 /\ lo(3) = b + 1 /\ lo(4) = c + 1 /\ lo(5) = d + 1
      <3>1. 2 - 1 = 1 /\ 3 - 1 = 2 /\ 4 - 1 = 3 /\ 5 - 1 = 4
        OBVIOUS
      <3> QED
        BY <1>7, <3>1
    <2>2. hi(1) = a - 1 /\ hi(2) = b - 1 /\ hi(3) = c - 1 /\ hi(4) = d - 1 /\ hi(5) = Len(text)
      BY <1>7
    <2>3. f = [k \in 1..5 |-> e(k)]
      OBVIOUS
    <2>4. /\ e(1) = SubSeq(text, 1, a - 1) /\ e(2) = SubSeq(text, a + 1, b - 1) /\ e(3) = SubSeq(text, b + 1, c - 1)
          /\ e(4) = SubSeq(text, c + 1, d - 1) /\ e(5) = SubSeq(text, d + 1, Len(text))
      <3> HIDE DEF lo, hi
      <3> QED
        BY <2>1, <2>2
    <2> HIDE DEF f, e
    <2>5. Len(f) = 5 /\ f[1] = e(1) /\ f[2] = e(2) /\ f[3] = e(3) /\ f[4] = e(4) /\ f[5] = e(5)
      BY <2>3
    <2> QED
      BY <2>4, <2>5
  <1> HIDE DEF f
  <1> QED
    BY <1>8, <1>9 DEF Between

\* What is signed.
Code(k, name, t, l, z) ==
    <<Number(k), Bar>> \o Chars(name) \o <<Bar, Number(t), Bar, Number(l), Bar, Number(z)>>

\* Nothing in a name that has passed normalise separates fields or parts.
PlainName(name) == name \in Seq(STRING) /\ Len(name) > 0 /\ \A i \in 1..Len(name) : name[i] \notin {":", "|"}

\* The pieces of what is signed.
Pieces(k, name, t, l, z, S) ==
    /\ PlainName(name)
    /\ {Number(k), Number(t), Number(l), Number(z), Bar} \subseteq S
    /\ \A i \in 1..Len(name) : <<"char", name[i]>> \in S

\* They are where c has them.
Laid(c, k, name, t, l, z, S) ==
    /\ Len(name) \in Nat /\ c \in Seq(S) /\ Len(c) = Len(name) + 8
    /\ c[1] = Number(k) /\ c[2] = Bar
    /\ \A i \in 1..Len(name) : c[i + 2] = <<"char", name[i]>>
    /\ c[Len(name) + 3] = Bar /\ c[Len(name) + 4] = Number(t) /\ c[Len(name) + 5] = Bar
    /\ c[Len(name) + 6] = Number(l) /\ c[Len(name) + 7] = Bar /\ c[Len(name) + 8] = Number(z)

\* Where the pieces of what is signed are.
LEMMA CodeIs ==
    ASSUME NEW k, NEW name, NEW t, NEW l, NEW z, NEW S, Pieces(k, name, t, l, z, S)
    PROVE  Laid(Code(k, name, t, l, z), k, name, t, l, z, S)
  <1> USE DEF Pieces
  <1> DEFINE L == Len(name)
             u == <<Number(k), Bar>>
             v == Chars(name)
             w == <<Bar, Number(t), Bar, Number(l), Bar, Number(z)>>
             uv == u \o v
             c == uv \o w
  <1>1. L \in Nat
    BY DEF PlainName
  <1>2. u \in Seq(S) /\ Len(u) = 2 /\ u[1] = Number(k) /\ u[2] = Bar
    <2> HIDE DEF u
    <2> DEFINE n == Number(k)
    <2>1. n \in S /\ Bar \in S /\ u = <<n, Bar>>
      BY DEF u
    <2> HIDE DEF n
    <2> QED
      BY <2>1 DEF n
  <1>3. v \in Seq(S) /\ Len(v) = L /\ \A i \in 1..L : v[i] = <<"char", name[i]>>
    BY <1>1 DEF Chars
  <1>4. /\ w \in Seq(S) /\ Len(w) = 6 /\ w[1] = Bar /\ w[2] = Number(t) /\ w[3] = Bar
        /\ w[4] = Number(l) /\ w[5] = Bar /\ w[6] = Number(z)
    <2> DEFINE n1 == Number(t)
               n2 == Number(l)
               n3 == Number(z)
    <2> HIDE DEF w
    <2>1. n1 \in S /\ n2 \in S /\ n3 \in S /\ Bar \in S /\ w = <<Bar, n1, Bar, n2, Bar, n3>>
      BY DEF w
    <2> HIDE DEF n1, n2, n3
    <2> QED
      BY <2>1 DEF n1, n2, n3
  <1> HIDE DEF u, v, w, L
  <1>5. uv \in Seq(S) /\ Len(uv) = L + 2 /\ \A i \in 1..L + 2 : uv[i] = IF i <= 2 THEN u[i] ELSE v[i - 2]
    <2>1. uv \in Seq(S) /\ Len(uv) = Len(u) + Len(v)
      BY <1>2, <1>3, ConcatProperties
    <2>2. \A i \in 1..Len(u) + Len(v) : uv[i] = IF i <= Len(u) THEN u[i] ELSE v[i - Len(u)]
      BY <1>2, <1>3, ConcatProperties
    <2> HIDE DEF uv
    <2>3. Len(u) + Len(v) = L + 2
      BY <1>1, <1>2, <1>3
    <2> QED
      BY <1>2, <2>1, <2>2, <2>3
  <1> HIDE DEF uv
  <1>6. c \in Seq(S) /\ Len(c) = L + 8 /\ \A i \in 1..L + 8 : c[i] = IF i <= L + 2 THEN uv[i] ELSE w[i - (L + 2)]
    <2>1. c \in Seq(S) /\ Len(c) = Len(uv) + Len(w)
      BY <1>4, <1>5, ConcatProperties
    <2>2. \A i \in 1..Len(uv) + Len(w) : c[i] = IF i <= Len(uv) THEN uv[i] ELSE w[i - Len(uv)]
      BY <1>4, <1>5, ConcatProperties
    <2> HIDE DEF c
    <2>3. Len(uv) + Len(w) = L + 8
      BY <1>1, <1>4, <1>5
    <2> QED
      BY <1>5, <2>1, <2>2, <2>3
  <1> HIDE DEF c
  <1>7. c[1] = Number(k) /\ c[2] = Bar
    <2>1. 1 \in 1..L + 2 /\ 2 \in 1..L + 2 /\ 1 \in 1..L + 8 /\ 2 \in 1..L + 8
      BY <1>1
    <2> QED
      BY <1>1, <1>2, <1>5, <1>6, <2>1
  <1>8. ASSUME NEW i \in 1..L PROVE c[i + 2] = <<"char", name[i]>>
    <2>1. i + 2 \in 1..L + 2 /\ i + 2 \in 1..L + 8 /\ ~(i + 2 <= 2) /\ (i + 2) - 2 = i
      BY <1>1
    <2> QED
      BY <1>3, <1>5, <1>6, <2>1
  <1>9. ASSUME NEW j \in 1..6 PROVE c[L + 2 + j] = w[j]
    <2>1. L + 2 + j \in 1..L + 8 /\ ~(L + 2 + j <= L + 2) /\ (L + 2 + j) - (L + 2) = j
      BY <1>1
    <2> QED
      BY <1>6, <2>1
  <1>10. /\ c[L + 3] = Bar /\ c[L + 4] = Number(t) /\ c[L + 5] = Bar
         /\ c[L + 6] = Number(l) /\ c[L + 7] = Bar /\ c[L + 8] = Number(z)
    <2>1. L + 2 + 1 = L + 3 /\ L + 2 + 2 = L + 4 /\ L + 2 + 3 = L + 5 /\ L + 2 + 4 = L + 6 /\ L + 2 + 5 = L + 7 /\ L + 2 + 6 = L + 8
      BY <1>1
    <2>2. c[L + 2 + 1] = w[1] /\ c[L + 2 + 2] = w[2] /\ c[L + 2 + 3] = w[3]
      BY <1>9
    <2>3. c[L + 2 + 4] = w[4] /\ c[L + 2 + 5] = w[5] /\ c[L + 2 + 6] = w[6]
      BY <1>9
    <2> QED
      BY <1>4, <2>1, <2>2, <2>3
  <1>11. c = Code(k, name, t, l, z)
    BY DEF c, uv, u, v, w, Code
  <1> QED
    BY <1>1, <1>6, <1>7, <1>8, <1>10, <1>11 DEF L, Laid

\* The kinds of piece differ.
LEMMA KindsDiffer ==
    /\ \A n : Number(n) # Bar /\ Number(n) # Colon
    /\ \A key, code : Mac(key, code) # Bar /\ Mac(key, code) # Colon /\ \A n : Mac(key, code) # Number(n)
    /\ Bar # Colon
    /\ \A n, m : Number(n) = Number(m) => n = m
    /\ \A k1, k2, c1, c2 : Mac(k1, c1) = Mac(k2, c2) => k1 = k2 /\ c1 = c2
    /\ \A x : (<<"char", x>> = Bar => x = "|") /\ (<<"char", x>> = Colon => x = ":")
  BY DEF Number, Bar, Colon, Mac

\* What was signed, in its fields.
Split(f, k, name, t, l, z) ==
    /\ Len(f) = 5
    /\ f[1] = <<Number(k)>> /\ f[2] = Chars(name) /\ f[3] = <<Number(t)>>
    /\ f[4] = <<Number(l)>> /\ f[5] = <<Number(z)>>

\* What is signed falls into its fields, and has no colon.
LEMMA Fields ==
    ASSUME NEW k, NEW name, NEW t, NEW l, NEW z, NEW S, Pieces(k, name, t, l, z, S)
    PROVE  /\ Seps(Code(k, name, t, l, z), Colon) = {}
           /\ Split(SplitN(Code(k, name, t, l, z), Bar, 5), k, name, t, l, z)
  <1> DEFINE L == Len(name)
             c == Code(k, name, t, l, z)
             f == SplitN(c, Bar, 5)
  <1>1. /\ L \in Nat /\ c \in Seq(S) /\ Len(c) = L + 8
        /\ c[1] = Number(k) /\ c[2] = Bar
        /\ \A i \in 1..L : c[i + 2] = <<"char", name[i]>>
        /\ c[L + 3] = Bar /\ c[L + 4] = Number(t)
        /\ c[L + 5] = Bar /\ c[L + 6] = Number(l)
        /\ c[L + 7] = Bar /\ c[L + 8] = Number(z)
    <2>1. Laid(c, k, name, t, l, z, S)
      BY CodeIs
    <2> HIDE DEF c
    <2> QED
      BY <2>1 DEF Laid
  <1>2. L > 0 /\ \A i \in 1..L : name[i] # "|" /\ name[i] # ":"
    BY DEF Pieces, PlainName
  <1>c. Chars(name) = [i \in 1..L |-> <<"char", name[i]>>]
    BY DEF Chars
  <1> HIDE DEF L, c, f
  <1>3. ASSUME NEW i \in 1..Len(c), i \notin {2, L + 3, L + 5, L + 7} PROVE c[i] # Bar /\ c[i] # Colon
    <2>1. CASE i \in 3..L + 2
      <3>1. i - 2 \in 1..L /\ (i - 2) + 2 = i
        BY <1>1, <2>1
      <3>2. c[i] = <<"char", name[i - 2]>>
        BY <1>1, <3>1
      <3> QED
        BY <1>2, <3>1, <3>2, KindsDiffer
    <2>2. CASE i = 1 \/ i = L + 4 \/ i = L + 6 \/ i = L + 8
      BY <1>1, <2>2, KindsDiffer
    <2>3. i \in 1..L + 8
      BY <1>1
    <2>4. i \in 3..L + 2 \/ i = 1 \/ i = L + 4 \/ i = L + 6 \/ i = L + 8
      BY <1>1, <1>3, <2>3
    <2> QED
      BY <2>1, <2>2, <2>4
  <1>4. Seps(c, Bar) = {2, L + 3, L + 5, L + 7}
    <2>1. {2, L + 3, L + 5, L + 7} \subseteq Seps(c, Bar)
      BY <1>1 DEF Seps
    <2>2. Seps(c, Bar) \subseteq {2, L + 3, L + 5, L + 7}
      <3>1. ASSUME NEW i \in 1..Len(c), c[i] = Bar PROVE i \in {2, L + 3, L + 5, L + 7}
        BY <1>3, <3>1
      <3> QED
        BY <3>1 DEF Seps
    <2> QED
      BY <2>1, <2>2
  <1>5. Seps(c, Colon) = {}
    <2>1. ASSUME NEW i \in 1..Len(c) PROVE c[i] # Colon
      <3>1. CASE i \in {2, L + 3, L + 5, L + 7}
        BY <1>1, <3>1, KindsDiffer
      <3> QED
        BY <1>3, <3>1
    <2> QED
      BY <2>1 DEF Seps
  <1>6. /\ Len(f) = 5
        /\ f[1] = SubSeq(c, 1, 2 - 1) /\ f[2] = SubSeq(c, 2 + 1, (L + 3) - 1)
        /\ f[3] = SubSeq(c, (L + 3) + 1, (L + 5) - 1) /\ f[4] = SubSeq(c, (L + 5) + 1, (L + 7) - 1)
        /\ f[5] = SubSeq(c, (L + 7) + 1, Len(c))
    <2> DEFINE a3 == L + 3
               a5 == L + 5
               a7 == L + 7
    <2>1. 2 \in Nat /\ a3 \in Nat /\ a5 \in Nat /\ a7 \in Nat /\ 2 < a3 /\ a3 < a5 /\ a5 < a7
      BY <1>1, <1>2, SMTT(30)
    <2>2. Seps(c, Bar) = {2, a3, a5, a7}
      BY <1>4
    <2> HIDE DEF a3, a5, a7
    <2>3. /\ Len(f) = 5
          /\ f[1] = SubSeq(c, 1, 2 - 1) /\ f[2] = SubSeq(c, 2 + 1, a3 - 1)
          /\ f[3] = SubSeq(c, a3 + 1, a5 - 1) /\ f[4] = SubSeq(c, a5 + 1, a7 - 1)
          /\ f[5] = SubSeq(c, a7 + 1, Len(c))
      <3>1. c \in Seq(S)
        BY <1>1
      <3>2. Between(f, c, 2, a3, a5, a7)
        BY <3>1, <2>1, <2>2, SplitFive DEF f
      <3> QED
        BY <3>2 DEF Between
    <2> QED
      BY <2>3 DEF a3, a5, a7
  <1>7. ASSUME NEW i \in 1..Len(c) PROVE SubSeq(c, i, i) = <<c[i]>>
    <2> DEFINE s == SubSeq(c, i, i)
               u == <<c[i]>>
    <2>1. i \in Int /\ \A j \in i..i : c[j] \in S
      BY <1>1
    <2>2. s \in Seq(S) /\ Len(s) = (IF i <= i THEN i - i + 1 ELSE 0) /\ \A j \in 1..i - i + 1 : s[j] = c[i + j - 1]
      BY <2>1, SubSeqProperties
    <2>3. u \in Seq(S) /\ Len(u) = 1 /\ u[1] = c[i]
      BY <1>1
    <2> HIDE DEF s, u
    <2>4. Len(s) = 1 /\ s[1] = c[i]
      <3>1. i - i + 1 = 1 /\ i + 1 - 1 = i /\ i <= i /\ 1 \in 1..1
        BY <2>1
      <3>2. Len(s) = i - i + 1
        BY <2>2, <3>1
      <3>3. s[1] = c[i + 1 - 1]
        BY <2>2, <3>1
      <3> QED
        BY <3>1, <3>2, <3>3
    <2>5. s = u
      BY <2>2, <2>3, <2>4, SeqEqual
    <2> QED
      BY <2>5 DEF s, u
  <1>8. f[1] = <<Number(k)>> /\ f[3] = <<Number(t)>> /\ f[4] = <<Number(l)>> /\ f[5] = <<Number(z)>>
    <2>1. 2 - 1 = 1 /\ (L + 3) + 1 = L + 4 /\ (L + 5) - 1 = L + 4 /\ (L + 5) + 1 = L + 6 /\ (L + 7) - 1 = L + 6 /\ (L + 7) + 1 = L + 8
      BY <1>1
    <2>2. 1 \in 1..Len(c) /\ L + 4 \in 1..Len(c) /\ L + 6 \in 1..Len(c) /\ L + 8 \in 1..Len(c)
      BY <1>1
    <2>3. f[1] = SubSeq(c, 1, 1) /\ f[3] = SubSeq(c, L + 4, L + 4) /\ f[4] = SubSeq(c, L + 6, L + 6) /\ f[5] = SubSeq(c, L + 8, L + 8)
      BY <1>1, <1>6, <2>1
    <2> QED
      BY <1>1, <1>7, <2>2, <2>3
  <1>9. f[2] = Chars(name)
    <2> DEFINE s == SubSeq(c, 3, L + 2)
               v == Chars(name)
    <2>1. f[2] = s
      <3>1. 2 + 1 = 3 /\ (L + 3) - 1 = L + 2
        BY <1>1
      <3> QED
        BY <1>6, <3>1
    <2>2. \A j \in 3..L + 2 : c[j] \in S
      BY <1>1
    <2>3. s \in Seq(S) /\ Len(s) = L /\ \A j \in 1..L : s[j] = c[j + 2]
      <3> DEFINE h == L + 2
      <3>1. h \in Int /\ 3 \in Int /\ \A j \in 3..h : c[j] \in S
        BY <1>1, <2>2
      <3> HIDE DEF h
      <3>2. SubSeq(c, 3, h) \in Seq(S) /\ Len(SubSeq(c, 3, h)) = (IF 3 <= h THEN h - 3 + 1 ELSE 0) /\ \A j \in 1..h - 3 + 1 : SubSeq(c, 3, h)[j] = c[3 + j - 1]
        BY <3>1, SubSeqProperties
      <3>3. 3 <= h /\ h - 3 + 1 = L /\ \A j \in 1..L : 3 + j - 1 = j + 2
        BY <1>1, <1>2 DEF h
      <3>4. s = SubSeq(c, 3, h)
        BY DEF h
      <3> HIDE DEF s
      <3> QED
        BY <3>2, <3>3, <3>4
    <2>4. v \in Seq(S) /\ Len(v) = L /\ \A j \in 1..L : v[j] = <<"char", name[j]>>
      BY <1>1, <1>c DEF L, Pieces
    <2> HIDE DEF s, v
    <2>5. s = v
      BY <1>1, <2>3, <2>4, SeqEqual
    <2> QED
      BY <2>1, <2>5 DEF v
  <1> QED
    BY <1>5, <1>6, <1>8, <1>9 DEF c, f, Split

\* Two texts with a piece between them.
Apart(text, p, x, q, S) ==
    /\ text \in Seq(S) /\ Len(text) = Len(p) + 1 + Len(q)
    /\ \A i \in 1..Len(p) : text[i] = p[i]
    /\ text[Len(p) + 1] = x
    /\ \A i \in 1..Len(q) : text[Len(p) + 1 + i] = q[i]

\* They are one text, piece by piece.
LEMMA ApartAround ==
    ASSUME NEW S, NEW p \in Seq(S), NEW q \in Seq(S), NEW x \in S
    PROVE  Apart((p \o <<x>>) \o q, p, x, q, S)
  <1> DEFINE y == <<x>>
             py == p \o y
             text == py \o q
  <1>1. y \in Seq(S) /\ Len(y) = 1 /\ y[1] = x /\ Len(p) \in Nat /\ Len(q) \in Nat
    OBVIOUS
  <1>2. py \in Seq(S) /\ Len(py) = Len(p) + Len(y)
    BY <1>1, ConcatProperties
  <1>3. \A i \in 1..Len(p) + Len(y) : py[i] = IF i <= Len(p) THEN p[i] ELSE y[i - Len(p)]
    BY <1>1, ConcatProperties
  <1> HIDE DEF y, py
  <1>4. text \in Seq(S) /\ Len(text) = Len(py) + Len(q)
    BY <1>2, ConcatProperties
  <1>5. \A i \in 1..Len(py) + Len(q) : text[i] = IF i <= Len(py) THEN py[i] ELSE q[i - Len(py)]
    BY <1>2, ConcatProperties
  <1> HIDE DEF text
  <1>6. Len(py) = Len(p) + 1 /\ Len(text) = Len(p) + 1 + Len(q)
    BY <1>1, <1>2, <1>4
  <1>7. ASSUME NEW i \in 1..Len(p) PROVE text[i] = p[i]
    <2>1. i \in 1..Len(py) + Len(q) /\ i <= Len(py) /\ i \in 1..Len(p) + Len(y) /\ i <= Len(p)
      BY <1>1, <1>6
    <2> QED
      BY <1>3, <1>5, <2>1
  <1>8. text[Len(p) + 1] = x
    <2>1. /\ Len(p) + 1 \in 1..Len(py) + Len(q) /\ Len(p) + 1 <= Len(py) /\ Len(p) + 1 \in 1..Len(p) + Len(y)
          /\ ~(Len(p) + 1 <= Len(p)) /\ (Len(p) + 1) - Len(p) = 1
      BY <1>1, <1>6
    <2> QED
      BY <1>1, <1>3, <1>5, <2>1
  <1>9. ASSUME NEW i \in 1..Len(q) PROVE text[Len(p) + 1 + i] = q[i]
    <2>1. /\ Len(p) + 1 + i \in 1..Len(py) + Len(q) /\ ~(Len(p) + 1 + i <= Len(py))
          /\ (Len(p) + 1 + i) - Len(py) = i
      BY <1>1, <1>6
    <2> QED
      BY <1>5, <2>1
  <1>10. Apart(text, p, x, q, S)
    BY <1>4, <1>6, <1>7, <1>8, <1>9 DEF Apart
  <1> QED
    BY <1>10 DEF text, py, y

\* What Decode returns of what was signed.
Signed(name, t, l, z) ==
    [ok |-> TRUE, username |-> Chars(name), unixtime |-> t, loginID |-> l, sessionID |-> z]

\* With what was signed behind the colon, Decode accepts its mac and nothing else.
LEMMA DecodeExchanged ==
    ASSUME NEW k, NEW name, NEW t, NEW l, NEW z, NEW S, Pieces(k, name, t, l, z, S), Colon \in S,
           NEW p \in Seq(S), Seps(p, Colon) = {}, NEW keys
    PROVE  Decode((p \o <<Colon>>) \o Code(k, name, t, l, z), keys)
             = IF k \in keys /\ p = <<Mac(k, Code(k, name, t, l, z))>> THEN Signed(name, t, l, z) ELSE Refused
  <1> DEFINE c == Code(k, name, t, l, z)
             auth == (p \o <<Colon>>) \o c
             n == Len(auth) + 1
             s == SplitN(auth, Colon, n)
             f == SplitN(c, Bar, 5)
             m == Mac(k, c)
  <1>1. Laid(c, k, name, t, l, z, S)
    BY CodeIs
  <1>2. Seps(c, Colon) = {} /\ Split(f, k, name, t, l, z)
    BY Fields
  <1>3. c \in Seq(S)
    BY <1>1 DEF Laid
  <1>4. n \in Nat /\ n >= 2
    <2>1. Len(p) \in Nat /\ Len(c) \in Nat
      BY <1>3
    <2> HIDE DEF c
    <2>2. Len(auth) = Len(p) + 1 + Len(c)
      BY <1>3, ApartAround DEF Apart
    <2> QED
      BY <2>1, <2>2
  <1>5. Len(s) = 2 /\ s[1] = p /\ s[2] = c
    <2> HIDE DEF n, c
    <2> QED
      BY <1>2, <1>3, <1>4, SplitTwo
  <1>6. /\ Len(f) = 5 /\ f[1] = <<Number(k)>> /\ f[2] = Chars(name) /\ f[3] = <<Number(t)>>
        /\ f[4] = <<Number(l)>> /\ f[5] = <<Number(z)>>
    BY <1>2 DEF Split
  <1>7. Chars(name) # <<>>
    <2>1. Len(name) \in Nat /\ Len(name) > 0
      BY DEF Pieces, PlainName
    <2>2. Len(Chars(name)) = Len(name)
      BY <2>1 DEF Chars
    <2> QED
      BY <2>1, <2>2
  <1>8. \A v : IsNumber(<<Number(v)>>) /\ <<Number(v)>>[1][2] = v
    BY DEF IsNumber, Number
  <1>9. Decode(auth, keys) =
          IF Len(s) # 2 \/ Len(SplitN(s[2], Bar, 5)) # 5 THEN Refused
          ELSE IF ~IsNumber(SplitN(s[2], Bar, 5)[1]) \/ SplitN(s[2], Bar, 5)[1][1][2] \notin keys THEN Refused
          ELSE IF s[1] # <<Mac(SplitN(s[2], Bar, 5)[1][1][2], s[2])>> \/ SplitN(s[2], Bar, 5)[2] = <<>> THEN Refused
          ELSE IF ~(\A i \in 3..5 : IsNumber(SplitN(s[2], Bar, 5)[i])) THEN Refused
          ELSE [ok |-> TRUE, username |-> SplitN(s[2], Bar, 5)[2], unixtime |-> SplitN(s[2], Bar, 5)[3][1][2],
                loginID |-> SplitN(s[2], Bar, 5)[4][1][2], sessionID |-> SplitN(s[2], Bar, 5)[5][1][2]]
    BY DEF Decode
  <1> HIDE DEF c, auth, n, s, f, m
  <1>10. \A i \in 3..5 : IsNumber(f[i])
    <2>1. \A i \in 3..5 : i = 3 \/ i = 4 \/ i = 5
      OBVIOUS
    <2>2. IsNumber(f[3]) /\ IsNumber(f[4]) /\ IsNumber(f[5])
      BY <1>6, <1>8
    <2> QED
      BY <2>1, <2>2
  <1>11. SplitN(s[2], Bar, 5) = f
    BY <1>5 DEF f
  <1>12. f[1][1][2] = k /\ f[3][1][2] = t /\ f[4][1][2] = l /\ f[5][1][2] = z /\ IsNumber(f[1])
    BY <1>6, <1>8
  <1>13. Decode(auth, keys) =
           IF k \notin keys THEN Refused ELSE IF p # <<m>> THEN Refused
           ELSE [ok |-> TRUE, username |-> Chars(name), unixtime |-> t, loginID |-> l, sessionID |-> z]
    BY <1>5, <1>6, <1>7, <1>9, <1>10, <1>11, <1>12 DEF m
  <1> QED
    BY <1>13 DEF Signed, auth, c, m

\* In the order Sign has written it, a token is refused.
LEMMA DecodeUnexchanged ==
    ASSUME NEW k, NEW name, NEW t, NEW l, NEW z, NEW S, Pieces(k, name, t, l, z, S), Colon \in S,
           NEW m \in S, m # Colon, m # Bar, NEW keys
    PROVE  Decode((Code(k, name, t, l, z) \o <<Colon>>) \o <<m>>, keys) = Refused
  <1> DEFINE c == Code(k, name, t, l, z)
             q == <<m>>
             auth == (c \o <<Colon>>) \o q
             n == Len(auth) + 1
             s == SplitN(auth, Colon, n)
  <1>1. Laid(c, k, name, t, l, z, S)
    BY CodeIs
  <1>2. Seps(c, Colon) = {}
    BY Fields
  <1>3. c \in Seq(S) /\ q \in Seq(S) /\ Len(q) = 1 /\ q[1] = m
    BY <1>1 DEF Laid
  <1>4. n \in Nat /\ n >= 2
    <2>1. Len(c) \in Nat
      BY <1>3
    <2> HIDE DEF c, q
    <2>2. Len(auth) = Len(c) + 1 + Len(q)
      BY <1>3, ApartAround DEF Apart
    <2> QED
      BY <1>3, <2>1, <2>2
  <1> HIDE DEF c, q, n
  <1>5. Seps(q, Colon) = {} /\ Seps(q, Bar) = {}
    BY <1>3 DEF Seps
  <1>6. Len(s) = 2 /\ s[2] = q
    BY <1>2, <1>3, <1>4, <1>5, SplitTwo
  <1>7. Len(SplitN(q, Bar, 5)) = 1
    BY <1>3, <1>5, SplitNone
  <1>8. Len(s) = 2 /\ Len(SplitN(s[2], Bar, 5)) # 5
    BY <1>6, <1>7
  <1>9. Decode(auth, keys) = Refused
    <2>1. Len(SplitN(auth, Colon, Len(auth) + 1)) # 2 \/ Len(SplitN(SplitN(auth, Colon, Len(auth) + 1)[2], Bar, 5)) # 5
      BY <1>8 DEF n
    <2> HIDE DEF auth, s
    <2> QED
      BY <2>1 DEF Decode
  <1> QED
    BY <1>9 DEF c, q

\* A username that passes normalise separates nothing.
LEMMA UsernamesClean ==
    ASSUME NEW name \in Usernames
    PROVE  PlainName(name)
  <1> DEFINE low == ToLower(name)
  <1>1. name \in Seq(STRING) /\ Username(name) # NotOk
    BY UsernameAssumption
  <1>2. /\ ~(Bytes(name) <= 1) /\ low[1] \in Letters
        /\ \A i \in 1 + 1..Len(low) : low[i] \in Letters \cup Digits \cup {"-"}
    BY <1>1 DEF Username, normalise
  <1>3. Len(name) \in Nat /\ low = [i \in 1..Len(name) |-> CASE name[i] = "A" -> "a" [] name[i] = KelvinSign -> "k" [] OTHER -> name[i]]
    BY <1>1 DEF ToLower
  <1> HIDE DEF low
  <1>4. Len(low) = Len(name)
    BY <1>3
  <1>5. Len(name) > 0
    <2>1. SUFFICES ASSUME Len(name) = 0 PROVE FALSE
      BY <1>3
    <2>2. {i \in 1..Len(name) : name[i] = KelvinSign} = {}
      BY <2>1
    <2>3. Cardinality({i \in 1..Len(name) : name[i] = KelvinSign}) = 0
      BY <2>2, FS_EmptySet
    <2>4. Bytes(name) = 0
      BY <2>1, <2>3 DEF Bytes
    <2> QED
      BY <1>2, <2>4
  <1>6. ASSUME NEW i \in 1..Len(name) PROVE name[i] \notin {":", "|"}
    <2>1. low[i] \in Letters \cup Digits \cup {"-"}
      <3>1. i = 1 \/ i \in 1 + 1..Len(low)
        BY <1>3, <1>4
      <3> QED
        BY <1>2, <3>1
    <2>2. name[i] \in {":", "|"} => low[i] = name[i]
      BY <1>3 DEF KelvinSign
    <2>3. {":", "|"} \cap (Letters \cup Digits \cup {"-"}) = {}
      BY DEF Letters, Digits
    <2> QED
      BY <2>1, <2>2, <2>3
  <1> QED
    BY <1>1, <1>5, <1>6 DEF PlainName

\* Sign puts the mac last, Exchange puts it first.
LEMMA TokenParts ==
    ASSUME NEW k, NEW name, NEW t, NEW l, NEW z, NEW S, Pieces(k, name, t, l, z, S), Colon \in S,
           Mac(k, Code(k, name, t, l, z)) \in S
    PROVE  LET c == Code(k, name, t, l, z)
               m == Mac(k, c)
           IN  /\ Sign(k, name, t, l, z) = (c \o <<Colon>>) \o <<m>>
               /\ Exchange(Sign(k, name, t, l, z)) = (<<m>> \o <<Colon>>) \o c
  <1> DEFINE c == Code(k, name, t, l, z)
             m == Mac(k, c)
             x == <<Colon>>
             y == <<m>>
             token == Sign(k, name, t, l, z)
  <1>1. c \in Seq(S) /\ Len(c) \in Nat
    <2>1. Laid(c, k, name, t, l, z, S)
      BY CodeIs
    <2> HIDE DEF c
    <2> QED
      BY <2>1 DEF Laid
  <1>2. Seps(c, Colon) = {}
    BY Fields
  <1>3. token = c \o <<Colon, m>>
    BY DEF Sign, Code
  <1> HIDE DEF c
  <1>4. m \in S /\ Colon \in S
    BY DEF c
  <1> HIDE DEF m
  <1>e. y \in Seq(S) /\ Len(y) = 1 /\ y[1] = m
    BY <1>4
  <1>5. token = (c \o x) \o y
    <2> DEFINE u == <<Colon, m>>
               w == (c \o x) \o y
    <2>1. u \in Seq(S) /\ Len(u) = 2 /\ u[1] = Colon /\ u[2] = m
      BY <1>4
    <2>2. w \in Seq(S) /\ Len(w) = Len(c) + 1 + Len(y)
      BY <1>1, <1>4, <1>e, ApartAround DEF Apart
    <2>3. /\ \A i \in 1..Len(c) : w[i] = c[i]
          /\ w[Len(c) + 1] = Colon
          /\ \A i \in 1..Len(y) : w[Len(c) + 1 + i] = y[i]
      BY <1>1, <1>4, <1>e, ApartAround DEF Apart
    <2> HIDE DEF u, w, y, token
    <2>4. token = c \o u
      BY <1>3 DEF u
    <2>c. c \o u \in Seq(S) /\ Len(c \o u) = Len(c) + Len(u)
      BY <1>1, <2>1, ConcatProperties
    <2>5. token \in Seq(S) /\ Len(token) = Len(c) + 2
      BY <2>1, <2>4, <2>c
    <2>6. \A i \in 1..Len(c) + 2 : token[i] = IF i <= Len(c) THEN c[i] ELSE u[i - Len(c)]
      <3>1. \A i \in 1..Len(c) + Len(u) : (c \o u)[i] = IF i <= Len(c) THEN c[i] ELSE u[i - Len(c)]
        BY <1>1, <2>1, ConcatProperties, Zenon
      <3> QED
        BY <2>1, <2>4, <3>1
    <2>7. ASSUME NEW i \in 1..Len(c) + 2 PROVE token[i] = w[i]
      <3>1. CASE i <= Len(c)
        BY <1>1, <2>3, <2>6, <3>1
      <3>2. CASE i = Len(c) + 1
        <4>1. ~(i <= Len(c)) /\ i - Len(c) = 1
          BY <1>1, <3>2
        <4> QED
          BY <2>1, <2>3, <2>6, <3>2, <4>1
      <3>3. CASE i = Len(c) + 2
        <4>1. ~(i <= Len(c)) /\ i - Len(c) = 2 /\ i = Len(c) + 1 + 1 /\ 1 \in 1..Len(y)
          BY <1>1, <1>e, <3>3
        <4>2. w[i] = y[1]
          BY <2>3, <4>1
        <4> QED
          BY <1>e, <2>1, <2>6, <4>1, <4>2
      <3> QED
        BY <1>1, <3>1, <3>2, <3>3
    <2>8. token = w
      BY <1>1, <1>e, <2>2, <2>5, <2>7, SeqEqual
    <2> QED
      BY <2>8 DEF w
  <1>6. Seps(y, Colon) = {}
    <2>1. m # Colon
      BY KindsDiffer DEF m
    <2> HIDE DEF y
    <2> QED
      BY <1>e, <2>1 DEF Seps
  <1>7. SplitN(token, Colon, 2)[1] = c /\ SplitN(token, Colon, 2)[2] = y
    <2> HIDE DEF y, token
    <2>1. token = (c \o <<Colon>>) \o y
      BY <1>5
    <2>2. 2 \in Nat /\ 2 >= 2
      OBVIOUS
    <2> DEFINE parts == (c \o <<Colon>>) \o y
    <2>3. SplitN(parts, Colon, 2)[1] = c /\ SplitN(parts, Colon, 2)[2] = y
      BY <1>1, <1>2, <1>4, <1>e, <1>6, <2>2, SplitTwo
    <2> HIDE DEF parts
    <2>4. token = parts
      BY <2>1 DEF parts
    <2> QED
      BY <2>3, <2>4, Zenon
  <1>8. Exchange(token) = (y \o <<Colon>>) \o c
    <2> HIDE DEF token, y
    <2> QED
      BY <1>7 DEF Exchange
  <1> QED
    BY <1>5, <1>8 DEF c, m

\* What whoever has a token may present.
Presented(token) ==
    {token, Exchange(token), Tail(Exchange(token))}
      \cup {[Exchange(token) EXCEPT ![Len(token)] = Number(n)] : n \in 1..2}

\* Decode accepts the exchanged token alone, if the key is still configured.
LEMMA VerdictIs ==
    ASSUME NEW k, NEW name, NEW t, NEW l, NEW z, PlainName(name), NEW keys,
           NEW w \in Presented(Sign(k, name, t, l, z))
    PROVE  Decode(w, keys) =
             IF w = Exchange(Sign(k, name, t, l, z)) /\ k \in keys THEN Signed(name, t, l, z) ELSE Refused
  <1> DEFINE c == Code(k, name, t, l, z)
             m == Mac(k, c)
             token == Sign(k, name, t, l, z)
             L == Len(name)
             S == {Number(k), Number(t), Number(l), Number(z), Number(1), Number(2), Bar, Colon, m}
                    \cup {<<"char", name[i]>> : i \in 1..L}
             y == <<m>>
             ex == (y \o <<Colon>>) \o c
  <1>1. Pieces(k, name, t, l, z, S) /\ \A n \in 1..2 : Pieces(k, name, t, l, n, S)
    <2>1. \A n \in 1..2 : n = 1 \/ n = 2
      OBVIOUS
    <2> HIDE DEF m
    <2> QED
      BY <2>1 DEF Pieces
  <1>2. Colon \in S /\ m \in S
    OBVIOUS
  <1> HIDE DEF S
  <1>3. Laid(c, k, name, t, l, z, S) /\ Seps(c, Colon) = {}
    BY <1>1, CodeIs, Fields
  <1>4. token = (c \o <<Colon>>) \o y /\ Exchange(token) = ex
    BY <1>1, <1>2, TokenParts
  <1> HIDE DEF c, token
  <1>5. m # Colon /\ m # Bar /\ \A n : m # Number(n)
    BY KindsDiffer
  <1> HIDE DEF m
  <1>6. y \in Seq(S) /\ Len(y) = 1 /\ y[1] = m
    BY <1>2
  <1> HIDE DEF y
  <1>7. Seps(y, Colon) = {}
    BY <1>5, <1>6 DEF Seps
  <1>8. c \in Seq(S) /\ L \in Nat /\ Len(c) = L + 8
    BY <1>3 DEF Laid
  <1>9. Apart(ex, y, Colon, c, S) /\ Apart(token, c, Colon, y, S)
    BY <1>2, <1>4, <1>6, <1>8, ApartAround
  <1> HIDE DEF ex, L
  <1>10. Len(ex) = L + 10 /\ Len(token) = L + 10 /\ ex \in Seq(S) /\ ex[1] = m /\ token[1] = Number(k)
    <2>1. Len(ex) = Len(y) + 1 + Len(c) /\ Len(token) = Len(c) + 1 + Len(y) /\ ex \in Seq(S)
      BY <1>9 DEF Apart
    <2>2. 1 \in 1..Len(y) /\ 1 \in 1..Len(c)
      BY <1>6, <1>8
    <2>3. ex[1] = y[1] /\ token[1] = c[1]
      BY <1>9, <2>2 DEF Apart
    <2>4. c[1] = Number(k)
      BY <1>3 DEF Laid
    <2> QED
      BY <1>6, <1>8, <2>1, <2>3, <2>4
  <1>11. CASE w = ex
    <2>1. Decode(ex, keys) = IF k \in keys /\ y = <<Mac(k, Code(k, name, t, l, z))>>
                             THEN Signed(name, t, l, z) ELSE Refused
      BY <1>1, <1>2, <1>6, <1>7, DecodeExchanged DEF ex, c
    <2>2. y = <<Mac(k, Code(k, name, t, l, z))>>
      BY DEF y, m, c
    <2> QED
      BY <1>4, <1>11, <2>1, <2>2 DEF token
  <1>12. CASE w = token
    <2>1. w # ex
      BY <1>5, <1>10, <1>12
    <2>2. Decode(token, keys) = Refused
      BY <1>1, <1>2, <1>4, <1>5, DecodeUnexchanged DEF c, y
    <2> QED
      BY <1>4, <1>12, <2>1, <2>2 DEF token
  <1>13. CASE w = Tail(ex)
    <2> DEFINE e == <<>>
               b == (e \o <<Colon>>) \o c
    <2>1. e \in Seq(S) /\ Len(e) = 0
      OBVIOUS
    <2> HIDE DEF e
    <2>2. Seps(e, Colon) = {}
      BY <2>1 DEF Seps
    <2>3. Decode(b, keys) = IF k \in keys /\ e = <<Mac(k, Code(k, name, t, l, z))>>
                            THEN Signed(name, t, l, z) ELSE Refused
      <3>1. e \in Seq(S) /\ Seps(e, Colon) = {} /\ Colon \in S /\ Pieces(k, name, t, l, z, S)
        BY <1>1, <1>2, <2>1, <2>2
      <3> DEFINE a == (e \o <<Colon>>) \o Code(k, name, t, l, z)
      <3>2. Decode(a, keys) = IF k \in keys /\ e = <<Mac(k, Code(k, name, t, l, z))>>
                              THEN Signed(name, t, l, z) ELSE Refused
        BY <3>1, DecodeExchanged
      <3>3. a = b
        BY DEF c
      <3> QED
        BY <3>2, <3>3
    <2>4. e # <<Mac(k, Code(k, name, t, l, z))>>
      BY DEF e
    <2>5. Apart(b, e, Colon, c, S)
      BY <1>2, <1>8, <2>1, ApartAround
    <2> HIDE DEF b
    <2>6. Tail(ex) \in Seq(S) /\ Len(Tail(ex)) = L + 9 /\ \A i \in 1..L + 9 : Tail(ex)[i] = ex[i + 1]
      <3>1. ex # <<>>
        BY <1>8, <1>10
      <3>2. /\ Tail(ex) \in Seq(S) /\ Len(Tail(ex)) = Len(ex) - 1
            /\ \A i \in 1..Len(Tail(ex)) : Tail(ex)[i] = ex[i + 1]
        BY <1>10, <3>1, HeadTailProperties
      <3> QED
        BY <1>8, <1>10, <3>2
    <2>7. b \in Seq(S) /\ Len(b) = L + 9
      <3>1. Len(b) = Len(e) + 1 + Len(c) /\ b \in Seq(S)
        BY <2>5 DEF Apart
      <3> QED
        BY <1>8, <2>1, <3>1
    <2>8. ASSUME NEW i \in 1..L + 9 PROVE Tail(ex)[i] = b[i]
      <3>1. CASE i = 1
        <4>1. ex[1 + 1] = Colon
          BY <1>6, <1>9 DEF Apart
        <4>2. b[1] = Colon
          <5>1. Len(e) + 1 = 1
            BY <2>1
          <5> QED
            BY <2>5, <5>1 DEF Apart
        <4> QED
          BY <2>6, <3>1, <4>1, <4>2
      <3>2. CASE i # 1
        <4>1. i - 1 \in 1..Len(c) /\ 1 + 1 + (i - 1) = i + 1 /\ 0 + 1 + (i - 1) = i
          BY <1>8, <3>2
        <4>2. ex[1 + 1 + (i - 1)] = c[i - 1]
          BY <1>6, <1>9, <4>1 DEF Apart
        <4>3. b[0 + 1 + (i - 1)] = c[i - 1]
          BY <2>1, <2>5, <4>1 DEF Apart
        <4> QED
          BY <2>6, <4>1, <4>2, <4>3
      <3> QED
        BY <3>1, <3>2
    <2>9. Tail(ex) = b
      BY <2>6, <2>7, <2>8, SeqEqual
    <2>10. w # ex
      BY <1>8, <1>10, <1>13, <2>6
    <2> QED
      BY <1>4, <1>13, <2>3, <2>4, <2>9, <2>10 DEF token
  <1>14. ASSUME NEW n \in 1..2, w = [ex EXCEPT ![Len(token)] = Number(n)], w # ex PROVE Decode(w, keys) = Refused
    <2> DEFINE d == Code(k, name, t, l, n)
               b == (y \o <<Colon>>) \o d
    <2>1. Laid(d, k, name, t, l, n, S) /\ Pieces(k, name, t, l, n, S)
      BY <1>1, CodeIs
    <2>2. Decode(b, keys) = IF k \in keys /\ y = <<Mac(k, d)>> THEN Signed(name, t, l, n) ELSE Refused
      BY <1>2, <1>6, <1>7, <2>1, DecodeExchanged
    <2> HIDE DEF d
    <2>3. d \in Seq(S) /\ Len(d) = L + 8
      BY <2>1 DEF Laid, L
    <2>4. Apart(b, y, Colon, d, S)
      BY <1>2, <1>6, <2>3, ApartAround
    <2> HIDE DEF b
    <2>5. Number(n) \in S
      BY <2>1 DEF Pieces
    <2>6. w \in Seq(S) /\ Len(w) = L + 10 /\ \A i \in 1..L + 10 : w[i] = IF i = L + 10 THEN Number(n) ELSE ex[i]
      <3>1. L + 10 \in 1..Len(ex)
        BY <1>8, <1>10
      <3>2. w = [ex EXCEPT ![L + 10] = Number(n)]
        BY <1>10, <1>14
      <3> DEFINE h == L + 10
      <3> HIDE DEF h
      <3>3. h \in 1..Len(ex) /\ w = [ex EXCEPT ![h] = Number(n)] /\ Len(ex) = h
        BY <1>10, <3>1, <3>2 DEF h
      <3>4. w \in Seq(S) /\ Len(w) = h /\ \A i \in 1..h : w[i] = IF i = h THEN Number(n) ELSE ex[i]
        BY <1>10, <2>5, <3>3, ExceptSeq
      <3> QED
        BY <3>4 DEF h
    <2>7. \A i \in 1..L + 8 : i # L + 8 => c[i] = d[i]
      <3> SUFFICES ASSUME NEW i \in 1..L + 8, i # L + 8 PROVE c[i] = d[i]
        OBVIOUS
      <3>1. CASE i \in 3..L + 2
        <4>1. i - 2 \in 1..L /\ (i - 2) + 2 = i
          BY <1>8, <3>1
        <4>2. c[(i - 2) + 2] = <<"char", name[i - 2]>> /\ d[(i - 2) + 2] = <<"char", name[i - 2]>>
          BY <1>3, <2>1, <4>1 DEF Laid, L
        <4> QED
          BY <4>1, <4>2
      <3>2. /\ c[1] = d[1] /\ c[2] = d[2] /\ c[L + 3] = d[L + 3] /\ c[L + 4] = d[L + 4]
            /\ c[L + 5] = d[L + 5] /\ c[L + 6] = d[L + 6] /\ c[L + 7] = d[L + 7]
        BY <1>3, <2>1 DEF Laid, L
      <3>3. i \in 3..L + 2 \/ i = 1 \/ i = 2 \/ i = L + 3 \/ i = L + 4 \/ i = L + 5 \/ i = L + 6 \/ i = L + 7
        BY <1>8
      <3> QED
        BY <3>1, <3>2, <3>3
    <2>8. d[L + 8] = Number(n)
      BY <2>1 DEF Laid, L
    <2>9. b \in Seq(S) /\ Len(b) = L + 10
      <3>1. b \in Seq(S) /\ Len(b) = Len(y) + 1 + Len(d)
        BY <2>4 DEF Apart
      <3> QED
        BY <1>6, <1>8, <2>3, <3>1
    <2>10. ASSUME NEW i \in 1..L + 10 PROVE w[i] = b[i]
      <3>1. CASE i = 1
        <4>1. b[1] = y[1]
          BY <1>6, <2>4 DEF Apart
        <4>2. i # L + 10
          BY <1>8, <3>1
        <4> QED
          BY <1>6, <1>10, <2>6, <3>1, <4>1, <4>2
      <3>2. CASE i = 2
        <4>1. ex[1 + 1] = Colon /\ b[1 + 1] = Colon
          BY <1>6, <1>9, <2>4 DEF Apart
        <4>2. i # L + 10
          BY <1>8, <3>2
        <4> QED
          BY <2>6, <3>2, <4>1, <4>2
      <3>3. CASE i > 2
        <4>1. i - 2 \in 1..L + 8 /\ 1 + 1 + (i - 2) = i
          BY <1>8, <3>3
        <4>2. ex[1 + 1 + (i - 2)] = c[i - 2] /\ b[1 + 1 + (i - 2)] = d[i - 2]
          BY <1>6, <1>8, <1>9, <2>3, <2>4, <4>1 DEF Apart
        <4>3. CASE i = L + 10
          <5>1. i - 2 = L + 8
            BY <1>8, <4>3
          <5> QED
            BY <2>6, <2>8, <4>1, <4>2, <4>3, <5>1
        <4>4. CASE i # L + 10
          <5>1. i - 2 # L + 8
            BY <1>8, <4>4
          <5> QED
            BY <2>6, <2>7, <4>1, <4>2, <4>4, <5>1
        <4> QED
          BY <4>3, <4>4
      <3> QED
        BY <1>8, <3>1, <3>2, <3>3
    <2>11. w = b
      BY <2>6, <2>9, <2>10, SeqEqual
    <2>12. c # d
      <3>1. SUFFICES ASSUME c = d PROVE w = ex
        BY <1>14
      <3> QED
        BY <2>11, <3>1 DEF b, ex
    <2>13. y # <<Mac(k, d)>>
      <3>1. Mac(k, c) # Mac(k, d)
        BY <2>12, KindsDiffer
      <3>2. y[1] = Mac(k, c)
        BY <1>6 DEF m
      <3> QED
        BY <3>1, <3>2
    <2> QED
      BY <2>2, <2>11, <2>13
  <1>15. \/ w = ex \/ w = token \/ w = Tail(ex)
         \/ \E n \in 1..2 : w = [ex EXCEPT ![Len(token)] = Number(n)]
    BY <1>4 DEF Presented, token
  <1> QED
    BY <1>4, <1>11, <1>12, <1>13, <1>14, <1>15 DEF token

\* The token of the login in progress.
Token == Sign(req.key, req.name, sessions[req.session].initiated + Hour, req.id, req.session)

\* What the browser gets is signed with the name of someone who has signed up.
Issued ==
    /\ stage \in {"session", "token"} => req.name \in Usernames
    /\ stage = "token" => wire = Token

SignedInv == Issued /\ OnlySigned

\* The token is that of the session stored before it.
LEMMA SignedPut ==
    ASSUME LoginInv, SignedInv, PutSession
    PROVE  SignedInv'
  <1> DEFINE T == {Session(id, time) : id \in LoginIDs, time \in 0..MaxTime}
             new == Session(req.id, clock)
             n == Len(sessions')
  <1>1. /\ stage = "session" /\ stage' = "token" /\ sessions' = Append(sessions, new)
        /\ req' = [req EXCEPT !.session = n, !.key = current]
        /\ wire' = Encode(n)
    BY DEF PutSession
  <1>2. req \in Reqs /\ req.name \in Usernames
    BY <1>1 DEF LoginInv, Types, SignedInv, Issued
  <1>3. sessions \in Seq(T) /\ new \in T
    BY <1>1 DEF LoginInv, Types, Established
  <1>4. sessions'[n] = new
    <2> HIDE DEF T, new
    <2>1. Len(sessions') = Len(sessions) + 1 /\ sessions'[Len(sessions) + 1] = new
      BY <1>1, <1>3, AppendProperties
    <2> QED
      BY <2>1
  <1>5. sessions'[n].initiated = clock
    BY <1>4 DEF Session
  <1> HIDE DEF n, new, T
  <1>6. req'.key = current /\ req'.name = req.name /\ req'.id = req.id /\ req'.session = n
    BY <1>1, <1>2 DEF Reqs
  <1>7. wire' = Token'
    BY <1>1, <1>5, <1>6 DEF Encode, Token
  <1> QED
    BY <1>1, <1>2, <1>6, <1>7 DEF SignedInv, Issued, OnlySigned

\* The verdict on a token, as it was issued or not.
LEMMA SignedPresent ==
    ASSUME LoginInv, SignedInv, Present
    PROVE  SignedInv'
  <1> DEFINE time == sessions[req.session].initiated + Hour
  <1>1. /\ stage = "token" /\ stage' = "done" /\ wire' \in Presented(wire)
        /\ verdict' = Decode(wire', SigningKeys) /\ UNCHANGED <<req, sessions, SigningKeys>>
    BY DEF Present, Presented, config
  <1>2. wire = Token /\ req.name \in Usernames
    BY <1>1 DEF SignedInv, Issued
  <1> HIDE DEF time
  <1>3. Token = Sign(req.key, req.name, time, req.id, req.session)
    BY DEF Token, time
  <1>4. PlainName(req.name)
    BY <1>2, UsernamesClean
  <1>5. verdict' = IF wire' = Exchange(Token) /\ req.key \in SigningKeys
                   THEN Signed(req.name, time, req.id, req.session) ELSE Refused
    BY <1>1, <1>2, <1>3, <1>4, VerdictIs
  <1>6. /\ verdict'.ok <=> wire' = Exchange(Token) /\ req.key \in SigningKeys
        /\ verdict'.ok => verdict' = Signed(req.name, time, req.id, req.session)
    BY <1>5 DEF Signed, Refused
  <1>7. OnlySigned'
    BY <1>1, <1>6 DEF OnlySigned, Token, Signed, time
  <1> QED
    BY <1>1, <1>7 DEF SignedInv, Issued

\* All other steps leave the token alone, or have none.
LEMMA SignedOther ==
    ASSUME LoginInv, SignedInv, [Next]_vars, ~PutSession, ~Present
    PROVE  SignedInv'
  <1>1. CASE GetLogin
    <2>1. stage = "login" /\ stage' = "session" /\ req' = [req EXCEPT !.name = logins[req.id].username]
      BY <1>1 DEF GetLogin
    <2>2. logins[req.id] # Missing
      BY <1>1 DEF GetLogin, Verified
    <2>3. req \in Reqs /\ req.id \in LoginIDs /\ logins \in [LoginIDs -> Logins]
      BY <2>1 DEF LoginInv, Types, Established
    <2>4. logins[req.id].username \in Usernames
      BY <2>2, <2>3 DEF Logins
    <2>5. req'.name = logins[req.id].username
      BY <2>1, <2>3 DEF Reqs
    <2> QED
      BY <2>1, <2>4, <2>5 DEF SignedInv, Issued, OnlySigned
  <1>2. CASE ChangeAccount \/ Tick \/ Deploy \/ UNCHANGED vars
    <2>1. UNCHANGED <<stage, req, sessions, wire, verdict>>
      BY <1>2 DEF ChangeAccount, Tick, Deploy, vars
    <2>2. stage = "done" => UNCHANGED SigningKeys
      BY <1>2 DEF ChangeAccount, Tick, Deploy, vars, config
    <2>3. Issued'
      BY <2>1 DEF SignedInv, Issued, Token
    <2>4. OnlySigned'
      BY <2>1, <2>2 DEF SignedInv, OnlySigned
    <2> QED
      BY <2>3, <2>4 DEF SignedInv
  <1>3. CASE Create
    <2>1. stage = "api" /\ stage' \in {"panic", "refused", "done"} /\ req' = req
      BY <1>3 DEF Create
    <2>2. req'.session = 0
      BY <2>1 DEF LoginInv, Established
    <2> QED
      BY <2>1, <2>2 DEF SignedInv, Issued, OnlySigned
  <1>4. CASE Visit \/ Route \/ LookUp \/ PutUnknown \/ LoginFails \/ Gravatar
    <2>1. Dispatch(url.path) \notin {"session", "token", "done"}
      BY DEF Dispatch
    <2>2. stage' \notin {"session", "token", "done"}
      BY <1>4, <2>1 DEF Visit, Route, MoveToHttps, Serve, MoveToOfficial, LookUp, PutUnknown, LoginFails, Gravatar
    <2> QED
      BY <2>2 DEF SignedInv, Issued, OnlySigned
  <1> QED
    BY <1>1, <1>2, <1>3, <1>4 DEF Next, Services

\* No token has been issued yet.
LEMMA SignedInit == Init => SignedInv
  <1>1. Init => stage = "none"
    BY DEF Init
  <1> QED
    BY <1>1 DEF SignedInv, Issued, OnlySigned

\* The invariant is inductive.
LEMMA SignedNext == LoginInv /\ SignedInv /\ [Next]_vars => SignedInv'
  BY SignedPut, SignedPresent, SignedOther

\* Decode accepts what was signed with a key that is still configured, its
\* parts exchanged and nothing else changed, and returns what was signed.
THEOREM OnlySignedAccepted == Spec => []OnlySigned
  <1>1. SignedInv => OnlySigned
    BY DEF SignedInv
  <1> QED
    BY <1>1, LoginInit, LoginNext, SignedInit, SignedNext, PTL DEF Spec

----------------------------------------------------------------------------
(* MatchDB. *)

\* Each pause is twice the one before, or a second.
LEMMA PauseDoubles ==
    ASSUME NEW f \in {2, 5}, NEW i \in Nat \ {0}
    PROVE  doubled(f, i) \in Nat \ {0} /\ doubled(f, i + 1) = Capped(2 * doubled(f, i))
  <1> DEFINE P(n) == 2 ^ n
  <1>1. P(0) = 1 /\ P(1) = 2 /\ P(2) = 4 /\ P(3) = 8 /\ P(4) = 16 /\ P(5) = 32 /\ P(6) = 64 /\ P(7) = 128 /\ P(8) = 256
    OBVIOUS
  <1>2. \A n \in Nat : doubled(f, n) = IF n > 9 \/ f * P(n - 1) > 1000 THEN 1000 ELSE f * P(n - 1)
    BY DEF doubled
  <1> HIDE DEF P
  <1>3. CASE i > 9
    BY <1>2, <1>3 DEF Capped
  <1>4. CASE i \in 1..9
    <2>1. i \in {1, 2, 3, 4, 5, 6, 7, 8, 9}
      BY <1>4
    <2>2. doubled(f, 1) = f /\ doubled(f, 2) = f * 2 /\ doubled(f, 3) = f * 4 /\ doubled(f, 4) = f * 8
      BY <1>1, <1>2
    <2>3. doubled(f, 5) = f * 16 /\ doubled(f, 6) = f * 32 /\ doubled(f, 7) = f * 64 /\ doubled(f, 8) = f * 128
      BY <1>1, <1>2
    <2>4. doubled(f, 9) = (IF f = 2 THEN 512 ELSE 1000) /\ doubled(f, 10) = 1000
      BY <1>1, <1>2
    <2> QED
      BY <2>1, <2>2, <2>3, <2>4 DEF Capped
  <1> QED
    BY <1>3, <1>4

first == IF accepted THEN 5 ELSE 2

\* The delay is the last pause; before the first it gives rise to 2 or 5.
DBInv ==
    /\ pauses \in Seq(Nat) /\ accepted \in BOOLEAN
    /\ delay = IF pauses = <<>> THEN (IF accepted THEN 0 ELSE 1) ELSE doubled(first, Len(pauses))
    /\ \A i \in 1..Len(pauses) : pauses[i] = doubled(first, i)

\* Accept has not failed yet.
LEMMA DBInitInv == DBInit => DBInv
  <1> SUFFICES ASSUME DBInit PROVE DBInv
    OBVIOUS
  <1>1. delay = 1 /\ pauses = <<>> /\ accepted = FALSE
    BY DEF DBInit
  <1>2. pauses \in Seq(Nat) /\ Len(pauses) = 0
    BY <1>1, EmptySeq
  <1>3. \A i \in 1..Len(pauses) : pauses[i] = doubled(first, i)
    BY <1>2
  <1>4. accepted \in BOOLEAN /\ ~accepted
    BY <1>1
  <1>5. delay = IF pauses = <<>> THEN (IF accepted THEN 0 ELSE 1) ELSE doubled(first, Len(pauses))
    BY <1>1, <1>4
  <1> QED
    BY <1>2, <1>3, <1>4, <1>5 DEF DBInv

\* The invariant is inductive.
LEMMA DBNextInv == DBInv /\ [DBNext]_dbVars => DBInv'
  <1> SUFFICES ASSUME DBInv, [DBNext]_dbVars PROVE DBInv'
    OBVIOUS
  <1>1. CASE AcceptError
    <2> DEFINE n == Len(pauses)
               d == Capped(IF delay = 0 THEN 5 ELSE 2 * delay)
    <2>1. delay' = d /\ pauses' = Append(pauses, d) /\ accepted' = accepted
      BY <1>1 DEF AcceptError, Pause
    <2>2. n \in Nat /\ pauses \in Seq(Nat) /\ accepted \in BOOLEAN /\ (pauses = <<>> <=> n = 0)
      BY EmptySeq, LenProperties DEF DBInv
    <2>3. first \in {2, 5} /\ first' = first
      BY <2>1, <2>2 DEF first
    <2>4. d = doubled(first, n + 1) /\ d \in Nat
      <3>1. CASE n = 0
        <4>1. delay = IF accepted THEN 0 ELSE 1
          BY <2>2, <3>1 DEF DBInv
        <4>2. d = first
          BY <4>1, <2>2 DEF Capped, first
        <4>3. doubled(first, 1) = first
          <5>1. 2 ^ 0 = 1
            OBVIOUS
          <5>2. doubled(first, 1) = IF first > 1000 THEN 1000 ELSE first
            BY <2>3, <5>1 DEF doubled
          <5> QED
            BY <2>3, <5>2
        <4> QED
          BY <2>3, <3>1, <4>2, <4>3
      <3>2. CASE n # 0
        <4> DEFINE b == doubled(first, n)
        <4>1. n \in Nat \ {0} /\ delay = b
          BY <2>2, <3>2 DEF DBInv
        <4>2. b \in Nat \ {0} /\ doubled(first, n + 1) = Capped(2 * b)
          <5> HIDE DEF n
          <5> QED
            BY <2>3, <4>1, PauseDoubles
        <4>3. d = Capped(2 * b)
          BY <4>1, <4>2
        <4>4. d \in Nat
          <5> HIDE DEF b
          <5> QED
            BY <4>2, <4>3 DEF Capped
        <4> QED
          BY <4>2, <4>3, <4>4
      <3> QED
        BY <3>1, <3>2
    <2> HIDE DEF d
    <2>5. /\ pauses' \in Seq(Nat) /\ Len(pauses') = n + 1 /\ pauses'[n + 1] = d
          /\ \A i \in 1..n : pauses'[i] = pauses[i]
      BY <2>1, <2>2, <2>4, AppendProperties
    <2>6. \A i \in 1..n : pauses[i] = doubled(first, i)
      BY DEF DBInv
    <2>7. pauses' # <<>>
      BY <2>2, <2>5, EmptySeq
    <2> HIDE DEF n
    <2>8. \A i \in 1..n + 1 : pauses'[i] = doubled(first, i)
      BY <2>2, <2>4, <2>5, <2>6
    <2> QED
      BY <2>1, <2>2, <2>3, <2>4, <2>5, <2>7, <2>8 DEF DBInv
  <1>2. CASE \E p \in Peers : Accept(p)
    <2>1. delay' = 0 /\ pauses' = <<>> /\ accepted' = TRUE
      BY <1>2 DEF Accept
    <2>2. <<>> \in Seq(Nat) /\ Len(<<>>) = 0
      BY EmptySeq
    <2> QED
      BY <2>1, <2>2 DEF DBInv
  <1>3. CASE Start \/ Slept \/ AcceptFails \/ (\E p \in Peers : Handle(p)) \/ UNCHANGED dbVars
    <2>1. UNCHANGED <<delay, pauses, accepted>>
      BY <1>3 DEF Start, Slept, AcceptFails, Handle, dbVars
    <2> QED
      BY <2>1 DEF DBInv, first
  <1> QED
    BY <1>1, <1>2, <1>3 DEF DBNext

\* However errors and connections alternate, the pauses after a connection are
\* 5, 10, 20 ... and never above a second; before the first, 2, 4, 8 ...
THEOREM PausesAreDoubled == DBSpec => []PausesDouble
  <1>1. DBInv => PausesDouble
    BY DEF DBInv, PausesDouble, first
  <1> QED
    BY <1>1, DBInitInv, DBNextInv, PTL DEF DBSpec

----------------------------------------------------------------------------
(* The templates: what is parsed and translated of them is what is exported. *)

\* What a list is made of.
AttrKeys == {KeyOf(tag, key) : tag \in STRING, key \in STRING}
Vals == {extractVal(ParsedText(text)) : text \in Texts}
Attrs == AttrKeys \X Vals
Wrappers == AttrKeys \X Texts
Refs == {<<"node", p, m>> : p \in Seq(Nat), m \in Nat}
Items ==
    {<<"tag", tag>> : tag \in STRING} \cup {<<"attrs", A>> : A \in SUBSET Attrs}
    \cup {Broken[1]} \cup Vals \cup Wrappers \cup Refs

DomlyTypes ==
    /\ IsFragment(dom) /\ at \in DOMAIN dom
    /\ phase \in {"attrs", "kids", "wrap", "return"}
    /\ next \in Nat /\ attrs \subseteq Attrs /\ err \in BOOLEAN
    /\ wrappers \in [DOMAIN dom -> Seq(Wrappers)]
    /\ lists \in [DOMAIN dom -> Seq(Seq(Items))]
    /\ IF at = <<>> THEN phase = "kids" ELSE dom[at].type = "element"

\* The first n attributes of the element at p have been read.
AttrsRead(p, n) ==
    LET wraps == WrappersOf(dom, p) IN
    /\ \A i \in 1..n : Parses(dom[p].attrs[i][2])
    /\ Len(wrappers[p]) = UpTo(wraps, n)
    /\ \A i \in wraps : i <= n => wrappers[p][UpTo(wraps, i)] = Wrapper(dom[p].data, dom[p].attrs[i])

AllAttrsRead(p) == AttrsRead(p, Len(dom[p].attrs))

\* Nothing is in error in the element at p or below, and GenDomlyNode has been
\* called for each of the elements.
Finished(p) ==
    /\ Clean(dom, p)
    /\ \A q \in DOMAIN dom : IsPrefix(p, q) /\ dom[q].type = "element" => lists[q] # <<>>

HeadLen(p) == IF p = <<>> THEN 0 ELSE HeadOf(dom, p)

\* An item of a list for the child at q.
ItemOf(item, q) ==
    IF dom[q].type = "text" THEN TextOf(item) = dom[q].data
    ELSE item = ListOf(q) /\ lists[q] # <<>>

ItemsRead(p, n) ==
    LET kids == KidsIn(dom, p) IN
    /\ Len(lists[p][1]) = HeadLen(p) + UpTo(kids, n)
    /\ \A k \in kids : k <= n => ItemOf(lists[p][1][HeadLen(p) + UpTo(kids, k)], Append(p, k))

\* The first n children of the node at p have been visited.
KidsRead(p, n) ==
    /\ lists[p] # <<>>
    /\ ItemsRead(p, n)
    /\ p # <<>> => AllAttrsRead(p) /\ ListsHead(dom, lists, p)
    /\ \A k \in 1..n :
        LET q == Append(p, k) IN
        /\ p # <<>> /\ dom[q].type = "text" => Parses(dom[q].data)
        /\ (p # <<>> \/ Clean(dom, q)) /\ dom[q].type = "element" => Finished(q)

\* The wrappers after the first n have been put round the list for p.
Wrapped(p, n) ==
    LET wraps == WrappersOf(dom, p) w == Cardinality(wraps) IN
    /\ Len(lists[p]) = w + 1 - n
    /\ \A i \in wraps : UpTo(wraps, i) > n =>
        LET m == w + 1 - UpTo(wraps, i)
        IN  lists[p][m + 1] = <<Wrapper(dom[p].data, dom[p].attrs[i]), <<"node", p, m>>>>

Whole(p) == ListsHead(dom, lists, p) /\ ItemsRead(p, dom[p].kids) /\ Wrapped(p, 0)

\* Nothing is in error in the last element up to the child n.
LastClean(n) ==
    \A k \in Elements(dom) : k <= n /\ (\A j \in Elements(dom) : j <= n => j <= k) => Clean(dom, <<k>>)

AtNode ==
    /\ phase = "attrs" =>
        /\ next \in 1..Len(dom[at].attrs) + 1 /\ AttrsRead(at, next - 1)
        /\ lists[at] = <<<<<<"tag", dom[at].data>>>>>>
        /\ attrs = {AttrOf(dom[at].data, dom[at].attrs[i]) : i \in (1..next - 1) \ WrappersOf(dom, at)}
    /\ phase = "kids" =>
        /\ next \in 1..dom[at].kids + 1 /\ Len(lists[at]) = 1 /\ KidsRead(at, next - 1)
        /\ at = <<>> => (err <=> ~LastClean(next - 1))
    /\ phase = "wrap" =>
        /\ next <= Cardinality(WrappersOf(dom, at)) /\ KidsRead(at, dom[at].kids) /\ Wrapped(at, next)
    /\ phase = "return" =>
        /\ lists[at] # <<>>
        /\ IF err THEN ~Clean(dom, at) ELSE Finished(at) /\ Whole(at)

\* The calls in progress round that for the node at hand.
Around ==
    \A n \in 0..Len(at) - 1 :
        LET p == SubSeq(at, 1, n) IN Len(lists[p]) = 1 /\ KidsRead(p, at[n + 1] - 1)

\* The calls that are over.
Over ==
    \A p \in DOMAIN dom :
        dom[p].type = "element" /\ lists[p] # <<>> /\ ~IsPrefix(p, at) /\ Clean(dom, p) => Whole(p)

DomlyInv == phase # "idle" => DomlyTypes /\ AtNode /\ Around /\ Over

\* The place of a child tells which child of which node it is.
LEMMA PlaceOfKid ==
    ASSUME NEW p \in Seq(Nat), NEW k \in Nat
    PROVE  /\ Append(p, k) \in Seq(Nat) /\ Append(p, k) # <<>> /\ Len(Append(p, k)) = Len(p) + 1
           /\ Append(p, k)[Len(p) + 1] = k /\ \A i \in 1..Len(p) : Append(p, k)[i] = p[i]
           /\ Front(Append(p, k)) = p /\ Last(Append(p, k)) = k
           /\ \A q \in Seq(Nat), j \in Nat : Append(p, k) = Append(q, j) => p = q /\ k = j
  <1>1. ASSUME NEW q \in Seq(Nat), NEW j \in Nat
        PROVE  /\ Len(Append(q, j)) = Len(q) + 1 /\ Append(q, j)[Len(q) + 1] = j
               /\ \A i \in 1..Len(q) : Append(q, j)[i] = q[i]
    OBVIOUS
  <1>2. ASSUME NEW q \in Seq(Nat), NEW j \in Nat
        PROVE  Front(Append(q, j)) = q /\ Last(Append(q, j)) = j
    BY DEF Front, Last
  <1>3. ASSUME NEW q \in Seq(Nat), NEW j \in Nat, Append(p, k) = Append(q, j)
        PROVE  p = q /\ k = j
    BY <1>2, <1>3
  <1>4. Append(p, k) \in Seq(Nat) /\ Append(p, k) # <<>>
    <2>1. Append(p, k) \in Seq(Nat)
      OBVIOUS
    <2>2. Len(Append(p, k)) # 0
      BY <1>1
    <2> QED
      BY <2>1, <2>2, EmptySeq
  <1>5. \A q \in Seq(Nat), j \in Nat : Append(p, k) = Append(q, j) => p = q /\ k = j
    BY <1>3
  <1> QED
    BY <1>1, <1>2, <1>4, <1>5

\* The place of a node that is not the fragment is that of a child.
LEMMA PlaceInParent ==
    ASSUME NEW p \in Seq(Nat), p # <<>>
    PROVE  /\ Front(p) \in Seq(Nat) /\ Last(p) \in Nat /\ p = Append(Front(p), Last(p))
           /\ Len(Front(p)) = Len(p) - 1 /\ \A i \in 1..Len(p) - 1 : Front(p)[i] = p[i]
           /\ Last(p) = p[Len(p)] /\ Front(p) = SubSeq(p, 1, Len(p) - 1)
  <1>1. Len(p) \in Nat \ {0}
    BY EmptySeq
  <1>2. /\ Front(p) = SubSeq(p, 1, Len(p) - 1) /\ Front(p) \in Seq(Nat)
        /\ Len(Front(p)) = Len(p) - 1 /\ \A i \in 1..Len(p) - 1 : Front(p)[i] = p[i]
    <2> DEFINE m == Len(p) - 1
    <2>1. m \in Nat /\ m <= Len(p)
      BY <1>1
    <2> HIDE DEF m
    <2>2. /\ SubSeq(p, 1, m) \in Seq(Nat) /\ Len(SubSeq(p, 1, m)) = m
          /\ \A i \in 1..m : SubSeq(p, 1, m)[i] = p[i]
      BY <2>1
    <2> QED
      BY <2>2 DEF m, Front
  <1>3. Last(p) = p[Len(p)] /\ Last(p) \in Nat
    BY <1>1 DEF Last
  <1>4. /\ Append(Front(p), Last(p)) \in Seq(Nat) /\ Len(Append(Front(p), Last(p))) = Len(p)
        /\ \A i \in 1..Len(p) : Append(Front(p), Last(p))[i] = p[i]
    BY <1>1, <1>2, <1>3
  <1>5. p = Append(Front(p), Last(p))
    BY <1>4, SeqEqual
  <1> QED
    BY <1>2, <1>3, <1>5

\* One place is in another if it is the way to the other at first.
LEMMA PrefixIs ==
    ASSUME NEW p \in Seq(Nat), NEW q \in Seq(Nat)
    PROVE  IsPrefix(p, q) <=> Len(p) <= Len(q) /\ \A i \in 1..Len(p) : p[i] = q[i]
  <1>1. CASE Len(p) <= Len(q)
    <2> DEFINE r == SubSeq(q, 1, Len(p))
    <2>1. r \in Seq(Nat) /\ Len(r) = Len(p) /\ \A i \in 1..Len(p) : r[i] = q[i]
      BY <1>1
    <2>2. SubSeq(p, 1, Len(p)) = p
      OBVIOUS
    <2>3. p = r <=> \A i \in 1..Len(p) : p[i] = r[i]
      <3> HIDE DEF r
      <3>1. ASSUME \A i \in 1..Len(p) : p[i] = r[i] PROVE p = r
        BY <2>1, <3>1, SeqEqual
      <3> QED
        BY <3>1
    <2> QED
      BY <1>1, <2>1, <2>2, <2>3 DEF IsPrefix
  <1>2. CASE ~(Len(p) <= Len(q))
    BY <1>2 DEF IsPrefix
  <1> QED
    BY <1>1, <1>2

\* What is in a child is in its parent, and what a child is in its parent is in,
\* but for the child itself.
LEMMA PrefixOfKid ==
    ASSUME NEW p \in Seq(Nat), NEW q \in Seq(Nat), NEW k \in Nat
    PROVE  /\ IsPrefix(p, p) /\ IsPrefix(p, Append(p, k)) /\ ~IsPrefix(Append(p, k), p)
           /\ IsPrefix(q, Append(p, k)) <=> IsPrefix(q, p) \/ q = Append(p, k)
           /\ IsPrefix(Append(p, k), q) => IsPrefix(p, q)
  <1> DEFINE a == Append(p, k)
  <1>1. /\ a \in Seq(Nat) /\ Len(a) = Len(p) + 1 /\ a[Len(p) + 1] = k
        /\ \A i \in 1..Len(p) : a[i] = p[i]
    BY PlaceOfKid
  <1>2. /\ IsPrefix(p, p) <=> Len(p) <= Len(p) /\ \A i \in 1..Len(p) : p[i] = p[i]
        /\ IsPrefix(p, a) <=> Len(p) <= Len(a) /\ \A i \in 1..Len(p) : p[i] = a[i]
        /\ IsPrefix(a, p) <=> Len(a) <= Len(p) /\ \A i \in 1..Len(a) : a[i] = p[i]
        /\ IsPrefix(a, q) <=> Len(a) <= Len(q) /\ \A i \in 1..Len(a) : a[i] = q[i]
        /\ IsPrefix(p, q) <=> Len(p) <= Len(q) /\ \A i \in 1..Len(p) : p[i] = q[i]
        /\ IsPrefix(q, p) <=> Len(q) <= Len(p) /\ \A i \in 1..Len(q) : q[i] = p[i]
        /\ IsPrefix(q, a) <=> Len(q) <= Len(a) /\ \A i \in 1..Len(q) : q[i] = a[i]
    BY <1>1, PrefixIs
  <1>3. Len(p) \in Nat /\ Len(q) \in Nat
    OBVIOUS
  <1> HIDE DEF a
  <1>4. IsPrefix(p, p) /\ IsPrefix(p, a) /\ ~IsPrefix(a, p)
    <2>1. Len(p) <= Len(a) /\ ~(Len(a) <= Len(p)) /\ Len(p) <= Len(p)
      BY <1>1, <1>3
    <2> QED
      BY <1>1, <1>2, <2>1, Zenon
  <1>5. ASSUME IsPrefix(a, q) PROVE IsPrefix(p, q)
    <2>1. Len(a) <= Len(q) /\ \A i \in 1..Len(a) : a[i] = q[i]
      BY <1>2, <1>5
    <2>2. Len(a) = Len(p) + 1
      BY <1>1
    <2>3. Len(p) <= Len(q) /\ \A i \in 1..Len(p) : i \in 1..Len(a)
      BY <1>3, <2>1, <2>2
    <2>4. \A i \in 1..Len(p) : p[i] = q[i]
      BY <1>1, <2>1, <2>3, Zenon
    <2> QED
      BY <1>2, <2>3, <2>4
  <1>6. ASSUME IsPrefix(q, p) PROVE IsPrefix(q, a)
    <2>1. Len(q) <= Len(p) /\ \A i \in 1..Len(q) : q[i] = p[i]
      BY <1>2, <1>6
    <2>2. Len(q) <= Len(a) /\ \A i \in 1..Len(q) : q[i] = a[i]
      BY <1>1, <1>3, <2>1
    <2> QED
      BY <1>2, <2>2
  <1>7. IsPrefix(a, a)
    BY <1>1, PrefixIs
  <1>8. ASSUME IsPrefix(q, a), q # a PROVE IsPrefix(q, p)
    <2>1. Len(q) <= Len(a) /\ \A i \in 1..Len(q) : q[i] = a[i]
      BY <1>2, <1>8
    <2>2. Len(q) # Len(a)
      BY <1>1, <1>8, <2>1, SeqEqual
    <2>3. Len(q) <= Len(p) /\ \A i \in 1..Len(q) : q[i] = p[i]
      BY <1>1, <1>3, <2>1, <2>2
    <2> QED
      BY <1>2, <2>3
  <1> QED
    BY <1>4, <1>5, <1>6, <1>7, <1>8 DEF a

\* The places of a fragment are sequences, and those of its children are places.
LEMMA Fragment ==
    ASSUME NEW frag, IsFragment(frag), NEW p \in DOMAIN frag
    PROVE  /\ p \in Seq(Nat) /\ frag[p].kids \in Nat /\ frag[p].data \in STRING
           /\ frag[p].attrs \in Seq(STRING \X Texts)
           /\ frag[p].type \in {"fragment", "element", "text", "comment"}
           /\ frag[p].type = "fragment" <=> p = <<>>
           /\ frag[p].type = "text" => frag[p].data \in Texts
           /\ frag[p].type \in {"text", "comment"} => frag[p].kids = 0 /\ frag[p].attrs = <<>>
           /\ \A k \in 1..frag[p].kids : Append(p, k) \in DOMAIN frag
  BY DEF IsFragment, Node

\* A node that is not the fragment is a child of another.
LEMMA FragmentParent ==
    ASSUME NEW frag, IsFragment(frag), NEW p \in DOMAIN frag, p # <<>>
    PROVE  /\ Front(p) \in DOMAIN frag /\ Last(p) \in 1..frag[Front(p)].kids
           /\ Front(p) # <<>> => frag[Front(p)].type = "element"
  <1>1. p \in Seq(Nat) /\ Len(p) \in 1..Len(p)
    <2>1. p \in Seq(Nat)
      BY Fragment
    <2>2. Len(p) \in Nat \ {0}
      BY <2>1, EmptySeq
    <2> QED
      BY <2>1, <2>2
  <1>2. SubSeq(p, 1, Len(p) - 1) \in DOMAIN frag /\ p[Len(p)] \in 1..frag[SubSeq(p, 1, Len(p) - 1)].kids
    BY <1>1 DEF IsFragment
  <1>3. Front(p) \in DOMAIN frag /\ Last(p) \in 1..frag[Front(p)].kids
    BY <1>2 DEF Front, Last
  <1>4. frag[Front(p)].kids # 0
    BY <1>3
  <1> QED
    BY <1>3, <1>4, Fragment

\* What is in a node is the node itself or is in a child of it.
LEMMA FragmentBelow ==
    ASSUME NEW frag, IsFragment(frag), NEW p \in DOMAIN frag, NEW q \in DOMAIN frag
    PROVE  IsPrefix(p, q) <=> q = p \/ \E k \in 1..frag[p].kids : IsPrefix(Append(p, k), q)
  <1>1. p \in Seq(Nat) /\ q \in Seq(Nat) /\ frag[p].kids \in Nat
    BY Fragment
  <1>2. ASSUME q = p \/ \E k \in 1..frag[p].kids : IsPrefix(Append(p, k), q) PROVE IsPrefix(p, q)
    BY <1>1, <1>2, PrefixOfKid
  <1>3. ASSUME IsPrefix(p, q), q # p
        PROVE  \E k \in 1..frag[p].kids : IsPrefix(Append(p, k), q)
    <2> DEFINE n == Len(p) + 1
    <2>1. Len(p) <= Len(q) /\ \A i \in 1..Len(p) : p[i] = q[i]
      BY <1>1, <1>3, PrefixIs
    <2>2. Len(p) # Len(q)
      BY <1>1, <1>3, <2>1, SeqEqual
    <2>3. n \in 1..Len(q) /\ n - 1 = Len(p)
      BY <1>1, <2>1, <2>2
    <2>4. SubSeq(q, 1, Len(p)) = p
      <3>1. /\ SubSeq(q, 1, Len(p)) \in Seq(Nat) /\ Len(SubSeq(q, 1, Len(p))) = Len(p)
            /\ \A i \in 1..Len(p) : SubSeq(q, 1, Len(p))[i] = q[i]
        BY <1>1, <2>1
      <3> QED
        BY <1>1, <2>1, <3>1, SeqEqual
    <2>5. q[n] \in 1..frag[p].kids
      <3> HIDE DEF n
      <3>1. q[n] \in 1..frag[SubSeq(q, 1, n - 1)].kids
        BY <2>3 DEF IsFragment
      <3> QED
        BY <2>3, <2>4, <3>1
    <2>6. q[n] \in Nat
      BY <1>1, <2>5
    <2>7. /\ Append(p, q[n]) \in Seq(Nat) /\ Len(Append(p, q[n])) = n
          /\ \A i \in 1..n : Append(p, q[n])[i] = q[i]
      BY <1>1, <2>1, <2>6
    <2>8. IsPrefix(Append(p, q[n]), q)
      <3> DEFINE a == Append(p, q[n])
      <3>1. Len(a) <= Len(q) /\ \A i \in 1..Len(a) : a[i] = q[i]
        BY <2>3, <2>7
      <3> QED
        BY <1>1, <2>7, <3>1, PrefixIs
    <2> QED
      BY <2>5, <2>8
  <1> QED
    BY <1>2, <1>3

\* Nothing is in error in a node if neither it nor a child of it is.
LEMMA CleanIs ==
    ASSUME NEW frag, IsFragment(frag), NEW p \in DOMAIN frag
    PROVE  Clean(frag, p) <=> ~Breaks(frag[p]) /\ \A k \in 1..frag[p].kids : Clean(frag, Append(p, k))
  <1>1. \A q \in DOMAIN frag :
            IsPrefix(p, q) <=> q = p \/ \E k \in 1..frag[p].kids : IsPrefix(Append(p, k), q)
    BY FragmentBelow
  <1> QED
    BY <1>1 DEF Clean

\* A text breaks if it does not parse, a comment does not.
LEMMA LeavesBreak ==
    ASSUME NEW frag, IsFragment(frag), NEW p \in DOMAIN frag, frag[p].type # "element", p # <<>>
    PROVE  Clean(frag, p) <=> (frag[p].type = "text" => Parses(frag[p].data))
  <1>1. frag[p].type \in {"text", "comment"} /\ frag[p].kids = 0 /\ frag[p].attrs = <<>>
    BY Fragment
  <1>2. Breaks(frag[p]) <=> frag[p].type = "text" /\ ~Parses(frag[p].data)
    <2>1. 1..Len(frag[p].attrs) = {}
      BY <1>1
    <2> QED
      BY <2>1 DEF Breaks
  <1>3. 1..frag[p].kids = {}
    BY <1>1
  <1> QED
    BY <1>2, <1>3, CleanIs

\* The next number is counted if it is in the set.
LEMMA UpToNext ==
    ASSUME NEW S, IsFiniteSet(S), S \subseteq Nat, NEW n \in Nat, NEW k, k = n + 1
    PROVE  UpTo(S, n) \in Nat /\ UpTo(S, k) = IF k \in S THEN UpTo(S, n) + 1 ELSE UpTo(S, n)
  <1> DEFINE T == {i \in S : i <= n}
             U == {i \in S : i <= k}
  <1>1. IsFiniteSet(T) /\ Cardinality(T) \in Nat
    <2>1. IsFiniteSet(T)
      BY FS_Subset
    <2> QED
      BY <2>1, FS_CardinalityType
  <1>2. CASE k \in S
    <2>1. \A i \in S : i <= k <=> i <= n \/ i = k
      OBVIOUS
    <2>2. k <= k /\ ~(k <= n)
      OBVIOUS
    <2>3. U = T \cup {k} /\ k \notin T
      BY <1>2, <2>1, <2>2, Zenon
    <2> HIDE DEF T, U
    <2>4. Cardinality(U) = Cardinality(T) + 1
      BY <1>1, <2>3, FS_AddElement
    <2> QED
      BY <1>1, <1>2, <2>4 DEF UpTo, T, U
  <1>3. CASE k \notin S
    <2>1. \A i \in S : i <= k <=> i <= n
      BY <1>3
    <2>2. U = T
      BY <2>1
    <2> QED
      BY <1>1, <1>3, <2>2 DEF UpTo
  <1> QED
    BY <1>2, <1>3

\* How many numbers of a set are at most n.
LEMMA Counting ==
    ASSUME NEW m \in Nat, NEW S, S \subseteq 1..m
    PROVE  /\ IsFiniteSet(S) /\ Cardinality(S) \in Nat /\ UpTo(S, 0) = 0 /\ UpTo(S, m) = Cardinality(S)
           /\ \A n \in Nat : UpTo(S, n) \in Nat /\ UpTo(S, n) <= Cardinality(S)
           /\ \A n \in Nat : UpTo(S, n + 1) = IF n + 1 \in S THEN UpTo(S, n) + 1 ELSE UpTo(S, n)
           /\ \A i, j \in Nat : i <= j => UpTo(S, i) <= UpTo(S, j)
           /\ \A i \in Nat, j \in S : i < j => UpTo(S, i) < UpTo(S, j)
           /\ \A j \in S : 1 <= UpTo(S, j)
  <1> DEFINE T(n) == {i \in S : i <= n}
  <1>0. \A i \in S : i \in Nat /\ 0 < i /\ i <= m
    OBVIOUS
  <1>1. IsFiniteSet(S) /\ Cardinality(S) \in Nat
    <2>1. IsFiniteSet(1..m)
      BY FS_Interval
    <2>2. IsFiniteSet(S)
      BY <2>1, FS_Subset
    <2> QED
      BY <2>2, FS_CardinalityType
  <1>2. \A n \in Nat : IsFiniteSet(T(n)) /\ Cardinality(T(n)) \in Nat /\ Cardinality(T(n)) <= Cardinality(S)
    <2> TAKE n \in Nat
    <2>1. T(n) \subseteq S
      OBVIOUS
    <2> HIDE DEF T
    <2>2. IsFiniteSet(T(n)) /\ Cardinality(T(n)) <= Cardinality(S)
      BY <1>1, <2>1, FS_Subset
    <2> QED
      BY <2>2, FS_CardinalityType
  <1>3. T(0) = {} /\ T(m) = S
    <2>1. (\A i \in S : ~(i <= 0)) /\ \A i \in S : i <= m
      BY <1>0
    <2> QED
      BY <2>1, Zenon
  <1>4. \A i, j \in Nat : i <= j => Cardinality(T(i)) <= Cardinality(T(j))
    <2> SUFFICES ASSUME NEW i \in Nat, NEW j \in Nat, i <= j PROVE Cardinality(T(i)) <= Cardinality(T(j))
      OBVIOUS
    <2>1. \A x \in S : x <= i => x <= j
      BY <1>0
    <2>2. T(i) \subseteq T(j)
      BY <2>1, Zenon
    <2> HIDE DEF T
    <2> QED
      BY <1>2, <2>2, FS_Subset
  <1>5. ASSUME NEW n \in Nat
        PROVE  Cardinality(T(n + 1)) = IF n + 1 \in S THEN Cardinality(T(n)) + 1 ELSE Cardinality(T(n))
    <2>1. PICK k : k = n + 1
      OBVIOUS
    <2>2. UpTo(S, k) = IF k \in S THEN UpTo(S, n) + 1 ELSE UpTo(S, n)
      BY <1>0, <1>1, <2>1, UpToNext
    <2> QED
      BY <2>1, <2>2 DEF UpTo
  <1>6. ASSUME NEW i \in Nat, NEW j \in S, i < j
        PROVE  Cardinality(T(i)) < Cardinality(T(j))
    <2>1. j \in Nat /\ j - 1 \in Nat /\ i <= j - 1 /\ (j - 1) + 1 = j
      BY <1>6
    <2> HIDE DEF T
    <2>2. Cardinality(T(i)) <= Cardinality(T(j - 1))
      BY <1>4, <2>1
    <2>3. Cardinality(T(j)) = Cardinality(T(j - 1)) + 1
      <3> DEFINE n == j - 1
      <3>1. n \in Nat /\ n + 1 = j
        BY <2>1
      <3> HIDE DEF n
      <3>2. Cardinality(T(n + 1)) = IF n + 1 \in S THEN Cardinality(T(n)) + 1 ELSE Cardinality(T(n))
        BY <1>5, <3>1
      <3>3. Cardinality(T(j)) = Cardinality(T(n)) + 1
        BY <3>1, <3>2
      <3> QED
        BY <3>3 DEF n
    <2>4. Cardinality(T(i)) \in Nat /\ Cardinality(T(j - 1)) \in Nat
      BY <1>2, <2>1
    <2> QED
      BY <2>2, <2>3, <2>4
  <1>7. \A S0, n : UpTo(S0, n) = Cardinality({i \in S0 : i <= n})
    BY DEF UpTo
  <1>8. \A n : UpTo(S, n) = Cardinality(T(n))
    BY <1>7
  <1>9. Cardinality(T(0)) = 0
    BY <1>3, FS_EmptySet
  <1>10. \A j \in S : 1 <= Cardinality(T(j))
    <2> SUFFICES ASSUME NEW j \in S PROVE 1 <= Cardinality(T(j))
      OBVIOUS
    <2>1. 0 \in Nat /\ 0 < j /\ j \in Nat
      OBVIOUS
    <2> HIDE DEF T
    <2> QED
      BY <1>2, <1>6, <1>9, <2>1
  <1> HIDE DEF T
  <1> QED
    BY <1>1, <1>2, <1>3, <1>4, <1>5, <1>6, <1>8, <1>9, <1>10, SMTT(30)

\* None is at most 0.
LEMMA CountingNone ==
    ASSUME NEW S, S \subseteq Nat \ {0}
    PROVE  UpTo(S, 0) = 0 /\ \A i \in S : ~(i <= 0)
  <1>1. \A i \in S : ~(i <= 0)
    OBVIOUS
  <1>2. {i \in S : i <= 0} = {}
    BY <1>1
  <1> QED
    BY <1>1, <1>2, FS_EmptySet DEF UpTo

\* How many are at most the next number.
LEMMA CountingNext ==
    ASSUME NEW m \in Nat, NEW S, S \subseteq 1..m, NEW n \in Nat, NEW k, k = n + 1
    PROVE  /\ S \subseteq Nat /\ \A i \in Nat : UpTo(S, i) \in Nat
           /\ UpTo(S, k) = IF k \in S THEN UpTo(S, n) + 1 ELSE UpTo(S, n)
           /\ \A i \in S : i <= n => UpTo(S, i) <= UpTo(S, n) /\ 1 <= UpTo(S, i)
  <1>1. IsFiniteSet(S) /\ S \subseteq Nat
    <2>1. IsFiniteSet(1..m)
      BY FS_Interval
    <2>2. IsFiniteSet(S)
      BY <2>1, FS_Subset
    <2>3. S \subseteq Nat
      OBVIOUS
    <2> QED
      BY <2>2, <2>3
  <1>2. (\A i \in Nat : UpTo(S, i) \in Nat) /\ UpTo(S, k) = IF k \in S THEN UpTo(S, n) + 1 ELSE UpTo(S, n)
    BY <1>1, UpToNext
  <1>3. PICK x : x = UpTo(S, m)
    OBVIOUS
  <1>4. (\A i, j \in Nat : i <= j => UpTo(S, i) <= UpTo(S, j)) /\ \A i \in S : 1 <= UpTo(S, i)
    BY <1>3, Counting
  <1> QED
    BY <1>1, <1>2, <1>4

\* The text of a value is the text it was made of.
LEMMA ValueTells == \A text \in Texts : Parses(text) => TextOf(extractVal(ParsedText(text))) = text
  <1> DEFINE Good == {"", "plain", "mixed", "action"}
             val(text) == extractVal(ParsedText(text))
  <1>1. Texts \ {"broken"} = Good /\ \A text \in Texts : Parses(text) => text \in Good
    BY DEF Texts, Parses
  <1> DEFINE plain == <<"text", "plain">>
             head == <<"text", "head ">>
             expr == <<"expr", "action">>
  <1>2. /\ ParsedText("") = <<>> /\ ParsedText("plain") = <<plain>>
        /\ ParsedText("mixed") = <<head, expr>> /\ ParsedText("action") = <<expr>>
    BY DEF ParsedText
  <1>3. plain[1] = "text" /\ expr[1] = "expr"
    OBVIOUS
  <1>4. \A x : extractVal(x) = IF Len(x) = 1 /\ x[1][1] = "text" THEN x[1] ELSE <<"list", x>>
    BY DEF extractVal
  <1> HIDE DEF plain, head, expr
  <1>5. /\ Len(<<>>) = 0 /\ Len(<<plain>>) = 1 /\ Len(<<head, expr>>) = 2 /\ Len(<<expr>>) = 1
        /\ <<plain>>[1] = plain /\ <<expr>>[1] = expr
    OBVIOUS
  <1>6. /\ extractVal(<<>>) = <<"list", <<>>>> /\ extractVal(<<plain>>) = plain
        /\ extractVal(<<head, expr>>) = <<"list", <<head, expr>>>>
        /\ extractVal(<<expr>>) = <<"list", <<expr>>>>
    BY <1>3, <1>4, <1>5
  <1>7. \A x : <<"list", x>>[1] = "list" /\ <<"list", x>>[2] = x
    OBVIOUS
  <1>8. /\ val("") = <<"list", <<>>>> /\ val("plain") = plain
        /\ val("mixed") = <<"list", <<head, expr>>>> /\ val("action") = <<"list", <<expr>>>>
    BY <1>2, <1>6
  <1> DEFINE v0 == val("") v1 == val("plain") v2 == val("mixed") v3 == val("action")
  <1>9. v1[1] = "text"
    BY <1>3, <1>8
  <1>10. v0[1] = "list" /\ v2[1] = "list" /\ v3[1] = "list"
    BY <1>7, <1>8
  <1>11. v0[2] = <<>> /\ v2[2] = <<head, expr>> /\ v3[2] = <<expr>>
    BY <1>7, <1>8
  <1>12. Len(v0[2]) = 0 /\ Len(v2[2]) = 2 /\ Len(v3[2]) = 1
    BY <1>5, <1>11
  <1> HIDE DEF v0, v1, v2, v3
  <1>13. v0 # v1 /\ v0 # v2 /\ v0 # v3 /\ v1 # v2 /\ v1 # v3 /\ v2 # v3
    <2>1. "text" # "list" /\ 0 # 1 /\ 0 # 2 /\ 1 # 2
      OBVIOUS
    <2> QED
      BY <1>9, <1>10, <1>12, <2>1, Zenon
  <1>14. \A s, t \in Good : val(s) = val(t) => s = t
    <2> HIDE DEF val
    <2> QED
      BY <1>13 DEF v0, v1, v2, v3
  <1> HIDE DEF val
  <1>15. ASSUME NEW text \in Good PROVE (CHOOSE t \in Good : val(t) = val(text)) = text
    BY <1>14
  <1>16. \A text \in Good : TextOf(val(text)) = (CHOOSE t \in Good : val(t) = val(text))
    BY <1>1 DEF TextOf, val
  <1> QED
    BY <1>1, <1>15, <1>16 DEF val

\* What lists are made of.
LEMMA ItemKinds ==
    /\ \A tag \in STRING : <<"tag", tag>> \in Items
    /\ \A A \in SUBSET Attrs : <<"attrs", A>> \in Items
    /\ Broken[1] \in Items /\ Broken \in Seq(Items)
    /\ \A text \in Texts : extractVal(ParsedText(text)) \in Items
    /\ Wrappers \subseteq Items
    /\ \A p \in Seq(Nat), m \in Nat : <<"node", p, m>> \in Items
  <1> DEFINE b == Broken[1]
  <1>1. Broken = <<b>> /\ b \in Items
    BY DEF Broken, Items
  <1>2. Broken \in Seq(Items)
    <2> HIDE DEF b
    <2> QED
      BY <1>1
  <1> QED
    BY <1>1, <1>2 DEF Items, Vals, Refs

\* An attribute is one that wraps or one that is kept.
LEMMA AttributeKinds ==
    ASSUME NEW tag \in STRING, NEW attr \in STRING \X Texts
    PROVE  Wrapper(tag, attr) \in Wrappers /\ AttrOf(tag, attr) \in Attrs
  <1>1. attr[1] \in STRING /\ attr[2] \in Texts
    OBVIOUS
  <1>2. KeyOf(tag, attr[1]) \in AttrKeys
    BY <1>1 DEF AttrKeys
  <1>3. extractVal(ParsedText(attr[2])) \in Vals
    BY <1>1 DEF Vals
  <1> QED
    BY <1>1, <1>2, <1>3 DEF Wrapper, AttrOf, Wrappers, Attrs

\* A step that changes the lists and the wrappers of the node at c only.
Touches(c) ==
    /\ dom' = dom /\ c \in DOMAIN dom /\ lists'[c] # <<>>
    /\ \A q \in DOMAIN dom : q # c => lists'[q] = lists[q] /\ wrappers'[q] = wrappers[q]

\* What is finished stays finished.
LEMMA FinishedStays ==
    ASSUME NEW c, Touches(c), NEW p, Finished(p)
    PROVE  Finished(p)'
  BY DEF Touches, Finished, Clean

\* The head of a list stays as it is.
LEMMA HeadStays ==
    ASSUME NEW p, ListsHead(dom, lists, p), dom' = dom, lists'[p][1] = lists[p][1]
    PROVE  ListsHead(dom, lists, p)'
  BY DEF ListsHead, WrappersOf

\* The items of a list stand for the children as long as the lists of these do
\* not change.
LEMMA ItemsStay ==
    ASSUME NEW c, Touches(c), NEW p \in DOMAIN dom, NEW n \in Nat, IsFragment(dom), n <= dom[p].kids,
           ItemsRead(p, n), lists'[p][1] = lists[p][1], \A k \in 1..n : Append(p, k) # c
    PROVE  ItemsRead(p, n)'
  <1>1. /\ dom' = dom /\ HeadLen(p)' = HeadLen(p) /\ KidsIn(dom, p)' = KidsIn(dom, p)
        /\ Len(lists[p][1])' = Len(lists[p][1])
    BY DEF Touches, HeadLen, HeadOf, KidsIn
  <1>2. ASSUME NEW k \in KidsIn(dom, p), k <= n, NEW item, ItemOf(item, Append(p, k))
        PROVE  ItemOf(item, Append(p, k))'
    <2>1. k \in 1..n
      BY <1>2, Fragment DEF KidsIn
    <2>2. k \in 1..dom[p].kids
      BY DEF KidsIn
    <2>3. Append(p, k) \in DOMAIN dom /\ Append(p, k) # c
      BY <2>1, <2>2, Fragment
    <2>4. lists'[Append(p, k)] = lists[Append(p, k)]
      BY <2>3 DEF Touches
    <2> QED
      BY <1>1, <1>2, <2>4 DEF ItemOf, ListOf
  <1> QED
    BY <1>1, <1>2 DEF ItemsRead

\* What has been read of a node stays so.
LEMMA KidsStay ==
    ASSUME NEW c, Touches(c), NEW p \in DOMAIN dom, NEW n \in Nat, IsFragment(dom), n <= dom[p].kids,
           KidsRead(p, n), lists'[p][1] = lists[p][1], lists'[p] # <<>>, wrappers'[p] = wrappers[p],
           \A k \in 1..n : Append(p, k) # c
    PROVE  KidsRead(p, n)'
  <1>1. ItemsRead(p, n)'
    BY ItemsStay DEF KidsRead
  <1>2. dom' = dom
    BY DEF Touches
  <1>3. p # <<>> => AllAttrsRead(p)' /\ ListsHead(dom, lists, p)'
    BY <1>2, HeadStays DEF KidsRead, AllAttrsRead, AttrsRead, WrappersOf
  <1>4. \A q : Finished(q) => Finished(q)'
    BY FinishedStays
  <1>5. \A q : Clean(dom, q)' = Clean(dom, q)
    BY <1>2 DEF Clean
  <1> QED
    BY <1>1, <1>2, <1>3, <1>4, <1>5 DEF KidsRead

\* An element that is whole stays whole.
LEMMA WholeStays ==
    ASSUME NEW c, Touches(c), NEW p \in DOMAIN dom, IsFragment(dom), Whole(p), p # c,
           \A k \in 1..dom[p].kids : Append(p, k) # c
    PROVE  Whole(p)'
  <1>1. dom' = dom /\ lists'[p] = lists[p] /\ dom[p].kids \in Nat
    BY Fragment DEF Touches
  <1>2. ItemsRead(p, dom[p].kids)'
    <2>1. PICK n \in Nat : n = dom[p].kids
      BY <1>1
    <2>2. n <= dom[p].kids /\ ItemsRead(p, n) /\ \A k \in 1..n : Append(p, k) # c
      BY <2>1 DEF Whole
    <2>3. dom'[p].kids = n
      BY <1>1, <2>1
    <2>4. ItemsRead(p, n)'
      BY <1>1, <2>1, <2>2, ItemsStay
    <2> QED
      BY <2>3, <2>4 DEF ItemsRead
  <1>3. ListsHead(dom, lists, p)'
    BY <1>1, HeadStays DEF Whole
  <1>4. Wrapped(p, 0)'
    BY <1>1 DEF Whole, Wrapped, WrappersOf
  <1> QED
    BY <1>2, <1>3, <1>4 DEF Whole

\* The places round one are places, and the way to it leads through them.
LEMMA PlacesAround ==
    ASSUME DomlyTypes, NEW n \in 0..Len(at) - 1
    PROVE  /\ SubSeq(at, 1, n) \in DOMAIN dom /\ SubSeq(at, 1, n) \in Seq(Nat) /\ Len(SubSeq(at, 1, n)) = n
           /\ at \in Seq(Nat) /\ at[n + 1] \in 1..dom[SubSeq(at, 1, n)].kids
           /\ \A i \in 1..n : SubSeq(at, 1, n)[i] = at[i]
  <1>1. at \in Seq(Nat) /\ at \in DOMAIN dom /\ IsFragment(dom)
    BY Fragment DEF DomlyTypes
  <1>2. n \in Nat /\ n < Len(at) /\ n + 1 \in 1..Len(at) /\ (n + 1) - 1 = n
    BY <1>1
  <1> DEFINE m == n + 1
  <1>3. SubSeq(at, 1, m - 1) \in DOMAIN dom /\ at[m] \in 1..dom[SubSeq(at, 1, m - 1)].kids
    <2> HIDE DEF m
    <2>1. m \in 1..Len(at)
      BY <1>2 DEF m
    <2> QED
      BY <1>1, <2>1 DEF IsFragment
  <1>4. SubSeq(at, 1, n) \in Seq(Nat) /\ Len(SubSeq(at, 1, n)) = n
        /\ \A i \in 1..n : SubSeq(at, 1, n)[i] = at[i]
    BY <1>1, <1>2
  <1> QED
    BY <1>1, <1>2, <1>3, <1>4

\* A step further in leaves what has been read round it.
LEMMA AroundStays ==
    ASSUME DomlyTypes, Around, NEW n \in 0..Len(at) - 1, NEW c \in Seq(Nat), Touches(c),
           n < Len(c), c[n + 1] = at[n + 1], NEW p, NEW m, p = SubSeq(at, 1, n), m = at[n + 1] - 1
    PROVE  Len(lists'[p]) = 1 /\ KidsRead(p, m)'
  <1>1. p \in DOMAIN dom /\ p \in Seq(Nat) /\ Len(p) = n /\ at[n + 1] \in 1..dom[p].kids
    BY PlacesAround
  <1>2. IsFragment(dom) /\ dom[p].kids \in Nat
    BY <1>1, Fragment DEF DomlyTypes
  <1>3. m \in Nat /\ m <= dom[p].kids /\ \A k \in 1..m : k \in Nat /\ k # at[n + 1]
    BY <1>1, <1>2
  <1>4. Len(lists[p]) = 1 /\ KidsRead(p, m)
    BY DEF Around
  <1>5. p # c
    BY <1>1
  <1>6. lists'[p] = lists[p] /\ wrappers'[p] = wrappers[p]
    BY <1>1, <1>5 DEF Touches
  <1>7. lists'[p] # <<>>
    BY <1>4, <1>6 DEF KidsRead
  <1>8. ASSUME NEW k \in 1..m PROVE Append(p, k) # c
    <2>1. Append(p, k)[n + 1] = k
      BY <1>1, <1>3, PlaceOfKid
    <2> QED
      BY <1>3, <2>1
  <1> QED
    BY <1>1, <1>2, <1>3, <1>4, <1>6, <1>7, <1>8, KidsStay

\* The calls that are over are not disturbed.
LEMMA OverStays ==
    ASSUME DomlyTypes, AtNode, Over, NEW c, Touches(c), at' \in DOMAIN dom, IsPrefix(c, at'),
           \A p \in DOMAIN dom : ~IsPrefix(p, at') => ~IsPrefix(p, at) \/ (p = at /\ phase = "return")
    PROVE  Over'
  <1>1. dom' = dom /\ IsFragment(dom)
    BY DEF Touches, DomlyTypes
  <1>2. ASSUME NEW p \in DOMAIN dom, dom[p].type = "element", lists'[p] # <<>>, ~IsPrefix(p, at'), Clean(dom, p)
        PROVE  Whole(p)'
    <2>1. p # c
      BY <1>2
    <2>2. lists[p] # <<>>
      BY <1>2, <2>1 DEF Touches
    <2>3. Whole(p)
      <3>1. CASE ~IsPrefix(p, at)
        BY <1>2, <2>2, <3>1 DEF Over
      <3>2. CASE p = at /\ phase = "return"
        BY <1>2, <3>2 DEF AtNode
      <3> QED
        BY <1>2, <3>1, <3>2
    <2>4. ASSUME NEW k \in 1..dom[p].kids PROVE Append(p, k) # c
      <3>1. p \in Seq(Nat) /\ at' \in Seq(Nat) /\ k \in Nat
        BY <1>1, Fragment
      <3>2. IsPrefix(Append(p, k), at') => IsPrefix(p, at')
        BY <3>1, PrefixOfKid
      <3> QED
        BY <1>2, <3>2
    <2> QED
      BY <1>1, <2>1, <2>3, <2>4, WholeStays
  <1>3. \A p : Clean(dom, p)' = Clean(dom, p)
    BY <1>1 DEF Clean
  <1> QED
    BY <1>1, <1>2, <1>3 DEF Over

\* A step at the node at hand leaves the calls round it and those that are over.
LEMMA InPlace ==
    ASSUME DomlyTypes, AtNode, Around, Over, at' = at, Touches(at)
    PROVE  Around' /\ Over'
  <1>1. at \in DOMAIN dom /\ at \in Seq(Nat) /\ dom' = dom
    BY Fragment DEF DomlyTypes, Touches
  <1>2. PICK c \in Seq(Nat) : c = at
    BY <1>1
  <1>3. Touches(c)
    BY <1>2 DEF Touches
  <1>4. ASSUME NEW n \in 0..Len(at) - 1
        PROVE  Len(lists'[SubSeq(at, 1, n)]) = 1 /\ KidsRead(SubSeq(at, 1, n), at[n + 1] - 1)'
    <2>1. PICK p : p = SubSeq(at, 1, n)
      OBVIOUS
    <2>2. PICK m : m = at[n + 1] - 1
      OBVIOUS
    <2>3. n < Len(c) /\ c[n + 1] = at[n + 1]
      BY <1>1, <1>2
    <2>4. Len(lists'[p]) = 1 /\ KidsRead(p, m)'
      BY <1>2, <1>3, <2>1, <2>2, <2>3, AroundStays
    <2>5. SubSeq(at', 1, n) = p /\ at'[n + 1] - 1 = m
      BY <2>1, <2>2
    <2> QED
      BY <2>1, <2>4, <2>5
  <1>5. Around'
    BY <1>4 DEF Around
  <1>6. IsPrefix(c, at')
    BY <1>1, <1>2, PrefixOfKid
  <1>7. Over'
    BY <1>1, <1>3, <1>6, OverStays
  <1> QED
    BY <1>5, <1>7

\* A list that replaces those of a node.
LEMMA ListsUpdate ==
    ASSUME DomlyTypes, NEW c \in DOMAIN dom, NEW x \in Seq(Seq(Items)), lists' = [lists EXCEPT ![c] = x]
    PROVE  /\ lists' \in [DOMAIN dom -> Seq(Seq(Items))] /\ lists'[c] = x
           /\ \A q \in DOMAIN dom : q # c => lists'[q] = lists[q]
  BY DEF DomlyTypes

\* An item that is appended to the first list for a node.
LEMMA AppendsTo ==
    ASSUME DomlyTypes, NEW p \in DOMAIN dom, lists[p] # <<>>, NEW item \in Items, AppendTo(p, item)
    PROVE  /\ lists' \in [DOMAIN dom -> Seq(Seq(Items))] /\ lists'[p] # <<>>
           /\ Len(lists'[p]) = Len(lists[p]) /\ lists'[p][1] = Append(lists[p][1], item)
           /\ lists[p][1] \in Seq(Items)
           /\ \A q \in DOMAIN dom : q # p => lists'[q] = lists[q]
  <1> DEFINE l == lists[p]
             x == [l EXCEPT ![1] = Append(l[1], item)]
  <1>1. l \in Seq(Seq(Items)) /\ Len(l) \in Nat \ {0}
    BY EmptySeq DEF DomlyTypes
  <1>2. l[1] \in Seq(Items)
    BY <1>1
  <1>3. Append(l[1], item) \in Seq(Items)
    BY <1>2
  <1>4. x \in Seq(Seq(Items)) /\ Len(x) = Len(l) /\ x[1] = Append(l[1], item)
    BY <1>1, <1>3
  <1>5. x # <<>>
    BY <1>1, <1>4
  <1>6. lists' = [lists EXCEPT ![p] = x]
    BY DEF AppendTo
  <1> HIDE DEF x
  <1>7. /\ lists' \in [DOMAIN dom -> Seq(Seq(Items))] /\ lists'[p] = x
        /\ \A q \in DOMAIN dom : q # p => lists'[q] = lists[q]
    BY <1>4, <1>6, ListsUpdate
  <1> QED
    BY <1>2, <1>4, <1>5, <1>7

\* What an appended item leaves.
LEMMA AppendedItem ==
    ASSUME NEW S, NEW s \in Seq(S), NEW item \in S
    PROVE  /\ Append(s, item) \in Seq(S) /\ Len(s) \in Nat /\ Len(Append(s, item)) = Len(s) + 1
           /\ Append(s, item)[Len(s) + 1] = item
           /\ \A i \in 1..Len(s) : Append(s, item)[i] = s[i]
  OBVIOUS

\* The children in a list are numbers of children.
LEMMA KidsCount ==
    ASSUME NEW frag, IsFragment(frag), NEW p \in DOMAIN frag
    PROVE  /\ frag[p].kids \in Nat /\ KidsIn(frag, p) \subseteq 1..frag[p].kids
           /\ Len(frag[p].attrs) \in Nat /\ WrappersOf(frag, p) \subseteq 1..Len(frag[p].attrs)
           /\ HeadOf(frag, p) \in {1, 2}
  BY Fragment DEF KidsIn, WrappersOf, HeadOf

\* The head of a list stays when an item is appended.
LEMMA HeadKept ==
    ASSUME IsFragment(dom), NEW p \in DOMAIN dom, ListsHead(dom, lists, p), dom' = dom, NEW item \in Items,
           lists[p][1] \in Seq(Items), HeadOf(dom, p) <= Len(lists[p][1]),
           lists'[p][1] = Append(lists[p][1], item)
    PROVE  ListsHead(dom, lists, p)'
  <1> DEFINE l == lists[p][1]
  <1>1. l \in Seq(Items) /\ HeadOf(dom, p) <= Len(l)
    OBVIOUS
  <1>2. PICK s \in Seq(Items) : s = l
    BY <1>1
  <1>3. Append(s, item)[1] = s[1]
    BY <1>1, <1>2, KidsCount
  <1>4. dom[p].attrs # <<>> => Append(s, item)[2] = s[2]
    BY <1>1, <1>2, KidsCount DEF HeadOf
  <1>5. lists'[p][1][1] = lists[p][1][1] /\ (dom[p].attrs # <<>> => lists'[p][1][2] = lists[p][1][2])
    BY <1>2, <1>3, <1>4
  <1> QED
    <2>1. CASE dom[p].attrs = <<>>
      BY <1>5, <2>1 DEF ListsHead
    <2>2. CASE dom[p].attrs # <<>>
      <3>1. lists'[p][1][1] = lists[p][1][1] /\ lists'[p][1][2] = lists[p][1][2]
        BY <1>5, <2>2
      <3>2. {<<a[1], TextOf(a[2])>> : a \in lists'[p][1][2][2]} = {<<a[1], TextOf(a[2])>> : a \in lists[p][1][2][2]}
        BY <3>1
      <3> QED
        BY <3>1, <3>2 DEF ListsHead, WrappersOf
    <2> QED
      BY <2>1, <2>2

\* The next child is read into the list.
LEMMA KidAdded ==
    ASSUME DomlyTypes, NEW p \in DOMAIN dom, NEW n \in Nat, NEW k, k = n + 1, k \in KidsIn(dom, p),
           KidsRead(p, n), Touches(p), wrappers'[p] = wrappers[p], NEW item \in Items,
           lists[p][1] \in Seq(Items), lists'[p][1] = Append(lists[p][1], item), ItemOf(item, Append(p, k)),
           dom[Append(p, k)].type = "text" => Parses(dom[Append(p, k)].data),
           (p # <<>> \/ Clean(dom, Append(p, k))) /\ dom[Append(p, k)].type = "element" => Finished(Append(p, k))
    PROVE  KidsRead(p, k)'
  <1> DEFINE kids == KidsIn(dom, p)
             h == HeadLen(p)
  <1>1. IsFragment(dom) /\ dom' = dom /\ p \in Seq(Nat)
    BY Fragment DEF DomlyTypes, Touches
  <1>2. dom[p].kids \in Nat /\ kids \subseteq 1..dom[p].kids /\ h \in Nat
    BY <1>1, KidsCount DEF HeadLen
  <1>3. h' = h /\ kids' = kids
    BY <1>1 DEF HeadLen, HeadOf, KidsIn
  <1>4. /\ \A i \in Nat : UpTo(kids, i) \in Nat
        /\ UpTo(kids, k) = UpTo(kids, n) + 1
        /\ \A i \in kids : i <= n => UpTo(kids, i) <= UpTo(kids, n) /\ 1 <= UpTo(kids, i)
    <2>1. /\ \A i \in Nat : UpTo(kids, i) \in Nat
          /\ UpTo(kids, n + 1) = IF n + 1 \in kids THEN UpTo(kids, n) + 1 ELSE UpTo(kids, n)
          /\ \A i, j \in Nat : i <= j => UpTo(kids, i) <= UpTo(kids, j)
          /\ \A i \in kids : 1 <= UpTo(kids, i)
      BY <1>2, Counting
    <2> HIDE DEF kids
    <2> QED
      BY <1>2, <2>1 DEF kids
  <1>5. \A i \in kids : i <= k => i <= n \/ i = k
    BY <1>2
  <1>6. ASSUME NEW q \in Seq(Nat), NEW it, ItemOf(it, q), q # p, q \in DOMAIN dom PROVE ItemOf(it, q)'
    BY <1>1, <1>6 DEF ItemOf, ListOf, Touches
  <1>7. ASSUME NEW i \in kids
        PROVE  Append(p, i) \in Seq(Nat) /\ Append(p, i) # p /\ Append(p, i) \in DOMAIN dom
    <2>1. i \in Nat /\ i \in 1..dom[p].kids
      BY <1>2
    <2>2. Append(p, i) \in Seq(Nat) /\ Len(Append(p, i)) = Len(p) + 1
      BY <1>1, <2>1, PlaceOfKid
    <2> QED
      BY <1>1, <2>1, <2>2, Fragment
  <1>8. Len(lists[p][1]) = h + UpTo(kids, n)
        /\ \A i \in kids : i <= n => ItemOf(lists[p][1][h + UpTo(kids, i)], Append(p, i))
    BY DEF KidsRead, ItemsRead
  <1>9. ItemsRead(p, k)'
    <2> DEFINE l == lists[p][1]
               r == Append(l, item)
               c(i) == UpTo(kids, i)
    <2>1. /\ lists'[p][1] = r /\ Len(l) \in Nat /\ Len(r) = Len(l) + 1 /\ r[Len(l) + 1] = item
          /\ \A i \in 1..Len(l) : r[i] = l[i]
      BY AppendedItem
    <2>2. /\ Len(l) = h + c(n) /\ c(k) = c(n) + 1 /\ c(n) \in Nat /\ h \in Nat
          /\ \A i \in kids : i \in Nat /\ c(i) \in Nat
          /\ \A i \in kids : i <= n => c(i) <= c(n) /\ 1 <= c(i)
      BY <1>2, <1>4, <1>8
    <2> HIDE DEF kids, h, l, r, c
    <2>3. Len(r) = h + c(k) /\ Len(l) + 1 = h + c(k)
      BY <2>1, <2>2
    <2>4. \A i \in kids : i <= n => h + c(i) \in 1..Len(l)
      BY <2>2
    <2>5. \A i \in kids : i <= k => ItemOf(r[h + c(i)], Append(p, i))
      <3>1. \A i \in kids : i <= n => ItemOf(l[h + c(i)], Append(p, i))
        BY <1>8 DEF c, l
      <3>2. \A i \in kids : i <= n => ItemOf(r[h + c(i)], Append(p, i))
        BY <2>1, <2>4, <3>1
      <3>3. ItemOf(r[h + c(k)], Append(p, k))
        BY <2>1, <2>3
      <3> QED
        BY <1>5, <3>2, <3>3
    <2>6. ASSUME NEW i \in kids, i <= k, NEW it, it = r[h + c(i)]
          PROVE  ItemOf(it, Append(p, i))'
      BY <1>6, <1>7, <2>5, <2>6
    <2>7. \A i \in kids : i <= k => ItemOf(lists[p][1][h + c(i)], Append(p, i))'
      BY <1>1, <1>3, <2>1, <2>6 DEF ItemOf, c
    <2> QED
      BY <1>3, <2>1, <2>3, <2>7 DEF ItemsRead, h, kids, c
  <1>10. p # <<>> => AllAttrsRead(p)' /\ ListsHead(dom, lists, p)'
    <2> SUFFICES ASSUME p # <<>> PROVE AllAttrsRead(p)' /\ ListsHead(dom, lists, p)'
      OBVIOUS
    <2>1. AllAttrsRead(p) /\ ListsHead(dom, lists, p)
      BY DEF KidsRead
    <2>2. AllAttrsRead(p)'
      BY <1>1, <2>1 DEF AllAttrsRead, AttrsRead, WrappersOf
    <2>3. HeadOf(dom, p) <= Len(lists[p][1])
      <3>1. h = HeadOf(dom, p)
        BY DEF HeadLen
      <3> HIDE DEF h, kids
      <3> QED
        BY <1>2, <1>4, <1>8, <3>1
    <2> QED
      BY <1>1, <2>1, <2>2, <2>3, HeadKept
  <1>11. ASSUME NEW i \in 1..k
         PROVE  LET q == Append(p, i) IN
                /\ p # <<>> /\ dom'[q].type = "text" => Parses(dom'[q].data)
                /\ (p # <<>> \/ Clean(dom', q)) /\ dom'[q].type = "element" => Finished(q)'
    <2>1. i \in 1..n \/ i = k
      BY <1>11
    <2>2. \A q : Finished(q) => Finished(q)'
      BY FinishedStays
    <2>3. /\ p # <<>> /\ dom[Append(p, i)].type = "text" => Parses(dom[Append(p, i)].data)
          /\ (p # <<>> \/ Clean(dom, Append(p, i))) /\ dom[Append(p, i)].type = "element" => Finished(Append(p, i))
      BY <2>1 DEF KidsRead
    <2> QED
      BY <1>1, <2>2, <2>3
  <1>12. lists'[p] # <<>>
    BY DEF Touches
  <1> QED
    BY <1>9, <1>10, <1>11, <1>12 DEF KidsRead

\* A step at the node at hand keeps the invariant if it keeps what is known of it.
LEMMA KeptInPlace ==
    ASSUME DomlyInv, phase # "idle", at' = at, Touches(at), phase' \in {"attrs", "kids", "wrap", "return"},
           at = <<>> => phase' = "kids", next' \in Nat, attrs' \subseteq Attrs, err' \in BOOLEAN,
           wrappers' \in [DOMAIN dom -> Seq(Wrappers)], lists' \in [DOMAIN dom -> Seq(Seq(Items))],
           AtNode'
    PROVE  DomlyInv'
  <1>1. DomlyTypes /\ AtNode /\ Around /\ Over
    BY DEF DomlyInv
  <1>2. dom' = dom
    BY DEF Touches
  <1>3. DomlyTypes'
    BY <1>1, <1>2 DEF DomlyTypes
  <1>4. Around' /\ Over'
    BY <1>1, InPlace
  <1> QED
    BY <1>3, <1>4 DEF DomlyInv

\* What is known where an element is at hand.
LEMMA AtElement ==
    ASSUME DomlyTypes, phase \in {"attrs", "wrap", "return"}
    PROVE  /\ at # <<>> /\ at \in DOMAIN dom /\ at \in Seq(Nat) /\ IsFragment(dom) /\ dom[at].type = "element"
           /\ Len(dom[at].attrs) \in Nat /\ dom[at].kids \in Nat /\ dom[at].data \in STRING
           /\ dom[at].attrs \in Seq(STRING \X Texts)
           /\ next \in Nat
  <1>1. at # <<>> /\ at \in DOMAIN dom /\ IsFragment(dom) /\ dom[at].type = "element" /\ next \in Nat
    BY DEF DomlyTypes
  <1> QED
    BY <1>1, Fragment

\* An attribute in error is returned in place of the element.
LEMMA AttributeFailsKeeps ==
    ASSUME DomlyInv, NEW attr, AttributeFails(attr)
    PROVE  DomlyInv'
  <1>1. /\ DomlyTypes /\ AtNode /\ phase = "attrs" /\ next <= Len(dom[at].attrs) /\ attr = dom[at].attrs[next]
        /\ ~Parses(attr[2]) /\ lists' = [lists EXCEPT ![at] = <<Broken>>] /\ phase' = "return" /\ err' = TRUE
        /\ UNCHANGED <<dom, at, next, attrs, wrappers>>
    BY DEF DomlyInv, AttributeFails, Attribute
  <1>2. at # <<>> /\ at \in DOMAIN dom /\ IsFragment(dom) /\ next \in Nat
    BY <1>1, AtElement
  <1>3. <<Broken>> \in Seq(Seq(Items)) /\ <<Broken>> # <<>>
    BY ItemKinds
  <1>4. /\ lists' \in [DOMAIN dom -> Seq(Seq(Items))] /\ lists'[at] = <<Broken>>
        /\ \A q \in DOMAIN dom : q # at => lists'[q] = lists[q]
    BY <1>1, <1>2, <1>3 DEF DomlyTypes
  <1>5. Touches(at)
    BY <1>1, <1>2, <1>3, <1>4 DEF Touches
  <1>6. next \in 1..Len(dom[at].attrs)
    BY <1>1, <1>2 DEF AtNode
  <1>7. ~Clean(dom, at)
    BY <1>1, <1>2, <1>6, CleanIs DEF Breaks
  <1>8. AtNode'
    BY <1>1, <1>3, <1>4, <1>7 DEF AtNode
  <1> QED
    BY <1>1, <1>2, <1>4, <1>5, <1>8, KeptInPlace DEF DomlyTypes

\* One more attribute has been read.
LEMMA AttributeRead ==
    ASSUME DomlyTypes, NEW p \in DOMAIN dom, NEW n \in Nat, NEW k, k = n + 1, k <= Len(dom[p].attrs),
           AttrsRead(p, n), dom' = dom, Parses(dom[p].attrs[k][2]),
           wrappers'[p] = IF k \in WrappersOf(dom, p)
                          THEN Append(wrappers[p], Wrapper(dom[p].data, dom[p].attrs[k])) ELSE wrappers[p]
    PROVE  AttrsRead(p, k)'
  <1> DEFINE W == WrappersOf(dom, p)
             ws == wrappers[p]
             w(i) == Wrapper(dom[p].data, dom[p].attrs[i])
             c(i) == UpTo(W, i)
  <1>1. IsFragment(dom) /\ ws \in Seq(Wrappers) /\ k \in 1..Len(dom[p].attrs)
    <2>1. IsFragment(dom) /\ ws \in Seq(Wrappers)
      BY DEF DomlyTypes
    <2> QED
      BY <2>1, KidsCount
  <1>2. w(k) \in Wrappers
    <2>1. dom[p].data \in STRING /\ dom[p].attrs[k] \in STRING \X Texts
      BY <1>1, Fragment
    <2> QED
      BY <2>1, AttributeKinds
  <1>3. /\ W \subseteq Nat /\ \A i \in Nat : c(i) \in Nat
        /\ c(k) = IF k \in W THEN c(n) + 1 ELSE c(n)
        /\ \A i \in W : i <= n => c(i) <= c(n) /\ 1 <= c(i)
    <2>0. Len(dom[p].attrs) \in Nat /\ W \subseteq 1..Len(dom[p].attrs)
      BY <1>1, KidsCount
    <2>1. PICK m \in Nat : m = Len(dom[p].attrs)
      BY <2>0
    <2>2. PICK S : S = W
      OBVIOUS
    <2>3. S \subseteq 1..m
      BY <2>0, <2>1, <2>2
    <2>4. /\ S \subseteq Nat /\ \A i \in Nat : UpTo(S, i) \in Nat
          /\ UpTo(S, k) = IF k \in S THEN UpTo(S, n) + 1 ELSE UpTo(S, n)
          /\ \A i \in S : i <= n => UpTo(S, i) <= UpTo(S, n) /\ 1 <= UpTo(S, i)
      BY <2>3, CountingNext, ZenonT(40)
    <2> QED
      BY <2>2, <2>4, Zenon
  <1>4. Len(ws) = c(n) /\ \A i \in W : i <= n => ws[c(i)] = w(i)
    BY DEF AttrsRead
  <1>5. \A i \in 1..k : Parses(dom[p].attrs[i][2])
    <2>1. \A i \in 1..k : i \in 1..n \/ i = k
      OBVIOUS
    <2> QED
      BY <2>1 DEF AttrsRead
  <1> DEFINE r == IF k \in W THEN Append(ws, w(k)) ELSE ws
  <1>6. Len(r) = c(k) /\ \A i \in W : i <= k => r[c(i)] = w(i)
    <2>0. /\ Append(ws, w(k)) \in Seq(Wrappers) /\ Len(ws) \in Nat /\ Len(Append(ws, w(k))) = Len(ws) + 1
          /\ Append(ws, w(k))[Len(ws) + 1] = w(k)
          /\ \A i \in 1..Len(ws) : Append(ws, w(k))[i] = ws[i]
      BY <1>1, <1>2, AppendedItem
    <2>1. \A i \in W : i <= k => i <= n \/ i = k
      BY <1>3
    <2>2. \A i \in W : i <= n => c(i) \in 1..Len(ws)
      BY <1>3, <1>4
    <2> HIDE DEF W, ws, w, c
    <2>3. CASE k \in W
      <3>1. Len(r) = c(k) /\ r[c(k)] = w(k)
        BY <1>3, <1>4, <2>0, <2>3
      <3>2. \A i \in W : i <= n => r[c(i)] = w(i)
        BY <1>4, <2>0, <2>2, <2>3
      <3> QED
        BY <2>1, <3>1, <3>2
    <2>4. CASE k \notin W
      BY <1>3, <1>4, <2>1, <2>4
    <2> QED
      BY <2>3, <2>4
  <1>7. wrappers'[p] = r /\ W' = W
    BY DEF WrappersOf
  <1> QED
    BY <1>5, <1>6, <1>7 DEF AttrsRead

\* What is known of the attributes read so far.
LEMMA NextAttribute ==
    ASSUME DomlyInv, NEW attr, Attribute(attr)
    PROVE  /\ DomlyTypes /\ AtNode /\ phase = "attrs" /\ UNCHANGED <<dom, at>>
           /\ at # <<>> /\ at \in DOMAIN dom /\ IsFragment(dom)
           /\ next \in 1..Len(dom[at].attrs) /\ next - 1 \in Nat /\ attr = dom[at].attrs[next]
           /\ next \in WrappersOf(dom, at) <=> IsWrapper(dom[at].data, attr)
           /\ dom[at].data \in STRING /\ attr \in STRING \X Texts
           /\ wrappers[at] \in Seq(Wrappers) /\ lists[at] # <<>>
           /\ 1..next = (1..next - 1) \cup {next} /\ next \notin 1..next - 1
  <1>1. /\ DomlyTypes /\ AtNode /\ phase = "attrs" /\ UNCHANGED <<dom, at>>
        /\ next <= Len(dom[at].attrs) /\ attr = dom[at].attrs[next]
    BY DEF DomlyInv, Attribute
  <1>2. /\ at # <<>> /\ at \in DOMAIN dom /\ IsFragment(dom) /\ next \in Nat /\ dom[at].data \in STRING
        /\ dom[at].attrs \in Seq(STRING \X Texts) /\ Len(dom[at].attrs) \in Nat
    BY <1>1, AtElement
  <1>3. next \in 1..Len(dom[at].attrs) /\ next - 1 \in Nat
    BY <1>1, <1>2 DEF AtNode
  <1>4. next \in WrappersOf(dom, at) <=> IsWrapper(dom[at].data, attr)
    BY <1>1, <1>3 DEF WrappersOf
  <1>5. attr \in STRING \X Texts
    BY <1>1, <1>2, <1>3
  <1>6. wrappers[at] \in Seq(Wrappers)
    <2>1. wrappers \in [DOMAIN dom -> Seq(Wrappers)]
      BY <1>1, Zenon DEF DomlyTypes
    <2> QED
      BY <1>2, <2>1
  <1>7. lists[at] # <<>>
    <2>1. lists[at] = <<<<<<"tag", dom[at].data>>>>>>
      BY <1>1, Zenon DEF AtNode
    <2> QED
      BY <2>1
  <1>8. 1..next = (1..next - 1) \cup {next} /\ next \notin 1..next - 1
    BY <1>2, <1>3
  <1> QED
    BY <1>1, <1>2, <1>3, <1>4, <1>5, <1>6, <1>7, <1>8

\* An attribute that wraps the element is kept for later.
LEMMA AddWrapperKeeps ==
    ASSUME DomlyInv, NEW attr, AddWrapper(attr)
    PROVE  DomlyInv'
  <1>1. /\ Attribute(attr) /\ Parses(attr[2]) /\ IsWrapper(dom[at].data, attr)
        /\ wrappers' = [wrappers EXCEPT ![at] = Append(@, Wrapper(dom[at].data, attr))]
        /\ next' = next + 1 /\ UNCHANGED <<phase, attrs, lists, err>>
    BY DEF AddWrapper
  <1>2. /\ DomlyTypes /\ AtNode /\ phase = "attrs" /\ UNCHANGED <<dom, at>>
        /\ at # <<>> /\ at \in DOMAIN dom /\ IsFragment(dom)
        /\ next \in 1..Len(dom[at].attrs) /\ next - 1 \in Nat /\ attr = dom[at].attrs[next]
        /\ next \in WrappersOf(dom, at)
        /\ dom[at].data \in STRING /\ attr \in STRING \X Texts
        /\ wrappers[at] \in Seq(Wrappers) /\ lists[at] # <<>>
        /\ 1..next = (1..next - 1) \cup {next}
    BY <1>1, NextAttribute
  <1>3. Append(wrappers[at], Wrapper(dom[at].data, attr)) \in Seq(Wrappers)
    <2>1. Wrapper(dom[at].data, attr) \in Wrappers
      BY <1>2, AttributeKinds, ZenonT(30)
    <2> QED
      BY <1>2, <2>1
  <1>4. /\ wrappers' \in [DOMAIN dom -> Seq(Wrappers)]
        /\ wrappers'[at] = Append(wrappers[at], Wrapper(dom[at].data, attr))
        /\ \A q \in DOMAIN dom : q # at => wrappers'[q] = wrappers[q]
    BY <1>1, <1>2, <1>3 DEF DomlyTypes
  <1>5. Touches(at)
    BY <1>1, <1>2, <1>4 DEF Touches
  <1>6. PICK p \in DOMAIN dom : p = at
    BY <1>2
  <1>7. PICK k \in Nat : k = next
    BY <1>2 DEF DomlyTypes
  <1>8. PICK n \in Nat : n = next - 1
    BY <1>2
  <1>9. AttrsRead(p, n)
    BY <1>2, <1>6, <1>8 DEF AtNode
  <1>10. AttrsRead(p, k)'
    <2>1. k = n + 1 /\ k <= Len(dom[p].attrs)
      BY <1>2, <1>6, <1>7, <1>8
    <2>2. Parses(dom[p].attrs[k][2]) /\ k \in WrappersOf(dom, p)
          /\ wrappers'[p] = Append(wrappers[p], Wrapper(dom[p].data, dom[p].attrs[k]))
      BY <1>1, <1>2, <1>4, <1>6, <1>7
    <2> QED
      BY <1>2, <1>9, <2>1, <2>2, AttributeRead
  <1>11. /\ next' - 1 = k /\ at' = p /\ next' \in Nat /\ next' \in 1..Len(dom[at].attrs) + 1
    BY <1>1, <1>2, <1>6, <1>7
  <1>12. AttrsRead(at, next - 1)'
    BY <1>10, <1>11
  <1>13. (1..next' - 1) \ WrappersOf(dom, at) = (1..next - 1) \ WrappersOf(dom, at)
    BY <1>2, <1>7, <1>11
  <1>14. attrs' = {AttrOf(dom[at].data, dom[at].attrs[i]) : i \in (1..next' - 1) \ WrappersOf(dom, at)}
    BY <1>1, <1>2, <1>13 DEF AtNode
  <1>15. lists'[at] = <<<<<<"tag", dom[at].data>>>>>>
    BY <1>1, <1>2 DEF AtNode
  <1>16. WrappersOf(dom, at)' = WrappersOf(dom, at)
    BY <1>2
  <1>17. AtNode'
    <2>1. attrs' = {AttrOf(dom[at].data, dom[at].attrs[i]) : i \in (1..next - 1) \ WrappersOf(dom, at)}'
      BY <1>2, <1>14, <1>16
    <2> QED
      BY <1>1, <1>2, <1>11, <1>12, <1>15, <2>1 DEF AtNode
  <1> QED
    BY <1>1, <1>2, <1>4, <1>5, <1>11, <1>17, KeptInPlace DEF DomlyTypes

\* Any other is kept for the list.
LEMMA AddAttributeKeeps ==
    ASSUME DomlyInv, NEW attr, AddAttribute(attr)
    PROVE  DomlyInv'
  <1>1. /\ Attribute(attr) /\ Parses(attr[2]) /\ ~IsWrapper(dom[at].data, attr)
        /\ attrs' = attrs \cup {AttrOf(dom[at].data, attr)}
        /\ next' = next + 1 /\ UNCHANGED <<phase, wrappers, lists, err>>
    BY DEF AddAttribute
  <1>2. /\ DomlyTypes /\ AtNode /\ phase = "attrs" /\ UNCHANGED <<dom, at>>
        /\ at # <<>> /\ at \in DOMAIN dom /\ IsFragment(dom)
        /\ next \in 1..Len(dom[at].attrs) /\ next - 1 \in Nat /\ attr = dom[at].attrs[next]
        /\ next \notin WrappersOf(dom, at)
        /\ dom[at].data \in STRING /\ attr \in STRING \X Texts /\ lists[at] # <<>>
        /\ 1..next = (1..next - 1) \cup {next} /\ next \notin 1..next - 1
    BY <1>1, NextAttribute
  <1>3. Touches(at)
    BY <1>1, <1>2 DEF Touches
  <1>4. PICK p \in DOMAIN dom : p = at
    BY <1>2
  <1>5. PICK k \in Nat : k = next
    BY <1>2 DEF DomlyTypes
  <1>6. PICK n \in Nat : n = next - 1
    BY <1>2
  <1>7. AttrsRead(p, n)
    BY <1>2, <1>4, <1>6 DEF AtNode
  <1>8. AttrsRead(p, k)'
    <2>1. k = n + 1 /\ k <= Len(dom[p].attrs)
      BY <1>2, <1>4, <1>5, <1>6
    <2>2. Parses(dom[p].attrs[k][2]) /\ k \notin WrappersOf(dom, p) /\ wrappers'[p] = wrappers[p]
      BY <1>1, <1>2, <1>4, <1>5
    <2> QED
      BY <1>2, <1>7, <2>1, <2>2, AttributeRead
  <1>9. next' - 1 = k /\ at' = p /\ next' \in Nat /\ next' \in 1..Len(dom[at].attrs) + 1
    BY <1>1, <1>2, <1>4, <1>5
  <1>10. AttrsRead(at, next - 1)'
    BY <1>8, <1>9
  <1> DEFINE a(i) == AttrOf(dom[at].data, dom[at].attrs[i])
             W == WrappersOf(dom, at)
  <1>11. (1..next' - 1) \ W = ((1..next - 1) \ W) \cup {next}
    <2> HIDE DEF W
    <2>1. next' - 1 = next
      BY <1>5, <1>9
    <2> QED
      BY <1>2, <2>1 DEF W
  <1>12. attrs' = {a(i) : i \in (1..next' - 1) \ W}
    <2>1. attrs = {a(i) : i \in (1..next - 1) \ W} /\ attrs' = attrs \cup {a(next)}
      BY <1>1, <1>2 DEF AtNode
    <2> HIDE DEF a, W
    <2> QED
      BY <1>11, <2>1
  <1>13. attrs' \subseteq Attrs
    BY <1>1, <1>2, AttributeKinds DEF DomlyTypes
  <1>14. lists'[at] = <<<<<<"tag", dom[at].data>>>>>>
    BY <1>1, <1>2 DEF AtNode
  <1>15. AtNode'
    <2>1. attrs' = {AttrOf(dom[at].data, dom[at].attrs[i]) : i \in (1..next - 1) \ WrappersOf(dom, at)}'
      BY <1>2, <1>12
    <2> QED
      BY <1>1, <1>2, <1>9, <1>10, <1>14, <2>1 DEF AtNode
  <1> QED
    BY <1>1, <1>2, <1>3, <1>9, <1>13, <1>15, KeptInPlace DEF DomlyTypes

\* What the attributes are in a list when they are all read.
LEMMA AttributesTell ==
    ASSUME NEW frag, IsFragment(frag), NEW p \in DOMAIN frag,
           \A i \in 1..Len(frag[p].attrs) : Parses(frag[p].attrs[i][2]),
           NEW A, A = {AttrOf(frag[p].data, frag[p].attrs[i]) : i \in (1..Len(frag[p].attrs)) \ WrappersOf(frag, p)},
           NEW ls, ls[p][1][1] = <<"tag", frag[p].data>>, ls[p][1][2][1] = "attrs", ls[p][1][2][2] = A
    PROVE  ListsHead(frag, ls, p)
  <1> DEFINE I == (1..Len(frag[p].attrs)) \ WrappersOf(frag, p)
             attr(i) == frag[p].attrs[i]
             key(i) == KeyOf(frag[p].data, attr(i)[1])
             item(i) == AttrOf(frag[p].data, attr(i))
  <1>1. ASSUME NEW i \in I PROVE item(i)[1] = key(i) /\ TextOf(item(i)[2]) = attr(i)[2]
    <2>1. attr(i)[2] \in Texts
      <3>1. attr(i) \in STRING \X Texts
        BY Fragment
      <3> QED
        BY <3>1
    <2>2. TextOf(extractVal(ParsedText(attr(i)[2]))) = attr(i)[2]
      BY <2>1, ValueTells
    <2>3. item(i)[1] = key(i) /\ item(i)[2] = extractVal(ParsedText(attr(i)[2]))
      BY DEF AttrOf
    <2> QED
      BY <2>2, <2>3
  <1> HIDE DEF I, attr, key, item
  <1>2. A = {item(i) : i \in I}
    BY DEF I, attr, item
  <1>3. {<<a[1], TextOf(a[2])>> : a \in A} = {<<key(i), attr(i)[2]>> : i \in I}
    <2>1. {<<a[1], TextOf(a[2])>> : a \in A} = {<<item(i)[1], TextOf(item(i)[2])>> : i \in I}
      BY <1>2
    <2>2. {<<item(i)[1], TextOf(item(i)[2])>> : i \in I} = {<<key(i), attr(i)[2]>> : i \in I}
      BY <1>1
    <2> QED
      BY <2>1, <2>2
  <1>4. {<<KeyOf(frag[p].data, a[1]), a[2]>> : a \in {attr(i) : i \in I}} = {<<key(i), attr(i)[2]>> : i \in I}
    BY DEF key
  <1>5. {<<a[1], TextOf(a[2])>> : a \in ls[p][1][2][2]} = {<<a[1], TextOf(a[2])>> : a \in A}
    OBVIOUS
  <1> QED
    BY <1>3, <1>4, <1>5 DEF ListsHead, I, attr

\* After the attributes come the children.
LEMMA EndAttributesKeeps ==
    ASSUME DomlyInv, EndAttributes
    PROVE  DomlyInv'
  <1>1. /\ DomlyTypes /\ AtNode /\ phase = "attrs" /\ next > Len(dom[at].attrs)
        /\ IF dom[at].attrs = <<>> THEN UNCHANGED lists ELSE AppendTo(at, <<"attrs", attrs>>)
        /\ phase' = "kids" /\ next' = 1 /\ UNCHANGED <<dom, at, attrs, wrappers, err>>
    BY DEF DomlyInv, EndAttributes
  <1>2. /\ at # <<>> /\ at \in DOMAIN dom /\ IsFragment(dom) /\ dom[at].type = "element"
        /\ next \in Nat /\ Len(dom[at].attrs) \in Nat /\ dom[at].kids \in Nat /\ dom[at].data \in STRING
        /\ dom[at].attrs \in Seq(STRING \X Texts)
    BY <1>1, AtElement
  <1>3. next - 1 = Len(dom[at].attrs)
    BY <1>1, <1>2 DEF AtNode
  <1>4. PICK p \in DOMAIN dom : p = at
    BY <1>2
  <1>5. AllAttrsRead(p)
    <2>1. AttrsRead(at, next - 1)
      BY <1>1 DEF AtNode
    <2> QED
      BY <1>3, <1>4, <2>1 DEF AllAttrsRead
  <1>6. AllAttrsRead(p)'
    BY <1>1, <1>5 DEF AllAttrsRead, AttrsRead, WrappersOf
  <1> DEFINE t == <<"tag", dom[p].data>>
             plain == {dom[p].attrs[i] : i \in (1..Len(dom[p].attrs)) \ WrappersOf(dom, p)}
  <1>7. lists[p] = <<<<t>>>>
    BY <1>1, <1>4 DEF AtNode
  <1>8. /\ lists' \in [DOMAIN dom -> Seq(Seq(Items))] /\ Len(lists'[p]) = 1 /\ lists'[p] # <<>>
        /\ \A q \in DOMAIN dom : q # p => lists'[q] = lists[q]
        /\ Len(lists'[p][1]) = HeadOf(dom, p) /\ ListsHead(dom, lists, p)'
    <2>1. CASE dom[p].attrs = <<>>
      <3>1. lists' = lists /\ HeadOf(dom, p) = 1
        BY <1>1, <1>4, <2>1 DEF HeadOf
      <3>2. lists'[p][1] = <<t>>
        BY <1>7, <3>1
      <3> HIDE DEF t
      <3>3. Len(lists'[p][1]) = 1 /\ lists'[p][1][1] = t /\ Len(lists'[p]) = 1 /\ lists'[p] # <<>>
        BY <1>7, <3>1, <3>2
      <3>4. ListsHead(dom, lists, p)'
        BY <1>1, <2>1, <3>3 DEF ListsHead, t
      <3> QED
        BY <1>1, <3>1, <3>3, <3>4 DEF DomlyTypes
    <2>2. CASE dom[p].attrs # <<>>
      <3> DEFINE item == <<"attrs", attrs>>
      <3>1. AppendTo(p, item) /\ HeadOf(dom, p) = 2
        BY <1>1, <1>4, <2>2 DEF HeadOf
      <3>2. item \in Items
        BY <1>1, ItemKinds DEF DomlyTypes
      <3>3. item[1] = "attrs" /\ item[2] = attrs
        OBVIOUS
      <3>4. lists[p] # <<>> /\ lists[p][1] = <<t>> /\ Len(lists[p]) = 1
        <4> HIDE DEF t
        <4> QED
          BY <1>7
      <3> HIDE DEF t, item
      <3>5. PICK it \in Items : it = item
        BY <3>2
      <3>6. /\ lists' \in [DOMAIN dom -> Seq(Seq(Items))] /\ lists'[p] # <<>>
            /\ Len(lists'[p]) = Len(lists[p]) /\ lists'[p][1] = Append(lists[p][1], it)
            /\ \A q \in DOMAIN dom : q # p => lists'[q] = lists[q]
        <4>1. AppendTo(p, it)
          BY <3>1, <3>5
        <4> QED
          BY <1>1, <3>4, <4>1, AppendsTo
      <3>7. t \in Items
        BY <1>2, <1>4, ItemKinds DEF t
      <3>8. Len(lists'[p][1]) = 2 /\ lists'[p][1][1] = t /\ lists'[p][1][2] = it
        <4>1. <<t>> \in Seq(Items) /\ Len(<<t>>) = 1 /\ <<t>>[1] = t
          BY <3>7
        <4>2. PICK s \in Seq(Items) : s = <<t>>
          BY <4>1
        <4>3. /\ Len(Append(s, it)) = Len(s) + 1 /\ Append(s, it)[Len(s) + 1] = it
              /\ \A i \in 1..Len(s) : Append(s, it)[i] = s[i]
          BY AppendedItem
        <4>4. Len(s) = 1 /\ s[1] = t /\ lists'[p][1] = Append(s, it)
          BY <3>4, <3>6, <4>1, <4>2
        <4> QED
          BY <4>3, <4>4
      <3>9. PICK A : A = attrs
        OBVIOUS
      <3>10. A = {AttrOf(dom[p].data, dom[p].attrs[i]) : i \in (1..Len(dom[p].attrs)) \ WrappersOf(dom, p)}
        BY <1>1, <1>3, <1>4, <3>9 DEF AtNode
      <3>11. \A i \in 1..Len(dom[p].attrs) : Parses(dom[p].attrs[i][2])
        BY <1>5 DEF AllAttrsRead, AttrsRead
      <3>12. ListsHead(dom, lists, p)'
        <4>1. PICK frag : frag = dom
          OBVIOUS
        <4>2. PICK ls : ls = lists'
          OBVIOUS
        <4>3. it[1] = "attrs" /\ it[2] = A
          BY <3>3, <3>5, <3>9
        <4>4. ls[p][1][1] = <<"tag", frag[p].data>> /\ ls[p][1][2][1] = "attrs" /\ ls[p][1][2][2] = A
          BY <3>8, <4>1, <4>2, <4>3 DEF t
        <4>5. /\ IsFragment(frag) /\ p \in DOMAIN frag
              /\ \A i \in 1..Len(frag[p].attrs) : Parses(frag[p].attrs[i][2])
              /\ A = {AttrOf(frag[p].data, frag[p].attrs[i]) : i \in (1..Len(frag[p].attrs)) \ WrappersOf(frag, p)}
          BY <1>2, <3>10, <3>11, <4>1, Zenon
        <4>6. ListsHead(frag, ls, p)
          BY <4>4, <4>5, AttributesTell
        <4> QED
          BY <1>1, <4>1, <4>2, <4>6
      <3> QED
        BY <3>1, <3>4, <3>6, <3>8, <3>12
    <2> QED
      BY <2>1, <2>2
  <1>9. Touches(at)
    BY <1>1, <1>4, <1>8 DEF Touches
  <1>10. KidsRead(p, 0)'
    <2>1. HeadLen(p)' = HeadOf(dom, p) /\ HeadOf(dom, p) \in Nat
      BY <1>1, <1>2, <1>4, KidsCount DEF HeadLen, HeadOf
    <2>2. UpTo(KidsIn(dom, p), 0) = 0 /\ \A k \in KidsIn(dom, p) : ~(k <= 0)
      <3>1. dom[p].kids \in Nat /\ KidsIn(dom, p) \subseteq 1..dom[p].kids
        BY <1>2, KidsCount
      <3>2. UpTo(KidsIn(dom, p), 0) = 0
        BY <3>1, Counting
      <3> QED
        BY <3>1, <3>2
    <2>3. KidsIn(dom, p)' = KidsIn(dom, p)
      BY <1>1 DEF KidsIn
    <2>4. ItemsRead(p, 0)'
      BY <1>8, <2>1, <2>2, <2>3 DEF ItemsRead
    <2>5. 1..0 = {}
      OBVIOUS
    <2> QED
      BY <1>6, <1>8, <2>4, <2>5 DEF KidsRead
  <1>11. AtNode'
    <2>1. at' = p /\ next' - 1 = 0 /\ next' \in 1..dom'[at'].kids + 1 /\ at' # <<>>
      BY <1>1, <1>2, <1>4
    <2>2. KidsRead(at, next - 1)'
      BY <1>10, <2>1
    <2> QED
      BY <1>1, <1>8, <2>1, <2>2 DEF AtNode
  <1> QED
    BY <1>1, <1>2, <1>8, <1>9, <1>11, KeptInPlace DEF DomlyTypes

\* What a place begins with is what the place of a child begins with.
LEMMA PlaceBegins ==
    ASSUME NEW p \in Seq(Nat), NEW k \in Nat, NEW n \in 0..Len(p)
    PROVE  /\ SubSeq(Append(p, k), 1, n) = SubSeq(p, 1, n) /\ SubSeq(p, 1, Len(p)) = p
           /\ n + 1 <= Len(p) => Append(p, k)[n + 1] = p[n + 1]
  <1> DEFINE a == Append(p, k)
             s == SubSeq(a, 1, n)
             t == SubSeq(p, 1, n)
             u == SubSeq(p, 1, Len(p))
  <1>1. a \in Seq(Nat) /\ Len(a) = Len(p) + 1 /\ \A i \in 1..Len(p) : a[i] = p[i]
    BY PlaceOfKid
  <1>2. n \in Nat /\ n <= Len(p) /\ n <= Len(a)
    BY <1>1
  <1> HIDE DEF a
  <1>3. s \in Seq(Nat) /\ Len(s) = n /\ \A i \in 1..n : s[i] = a[i]
    BY <1>1, <1>2
  <1>4. t \in Seq(Nat) /\ Len(t) = n /\ \A i \in 1..n : t[i] = p[i]
    BY <1>2
  <1>5. u \in Seq(Nat) /\ Len(u) = Len(p) /\ \A i \in 1..Len(p) : u[i] = p[i]
    OBVIOUS
  <1> HIDE DEF s, t, u
  <1>6. \A i \in 1..n : s[i] = t[i]
    <2>1. \A i \in 1..n : i \in 1..Len(p)
      BY <1>2
    <2> QED
      BY <1>1, <1>3, <1>4, <2>1, Zenon
  <1>7. s = t
    BY <1>3, <1>4, <1>6, SeqEqual
  <1>8. u = p
    BY <1>5, SeqEqual
  <1> QED
    BY <1>1, <1>2, <1>7, <1>8 DEF a, s, t, u

\* The child k at q of the node at p is at hand.
KidAt(p, k, n, q, type) ==
    /\ p = at /\ k = next /\ k = n + 1 /\ q = Append(p, k) /\ dom[q].type = type
    /\ p \in Seq(Nat) /\ q \in Seq(Nat) /\ q # <<>> /\ Len(q) = Len(p) + 1 /\ q[Len(p) + 1] = k
    /\ k \in 1..dom[p].kids /\ dom[p].kids \in Nat
    /\ Len(lists[p]) = 1 /\ lists[p] # <<>> /\ KidsRead(p, n)
    /\ p = <<>> => (err <=> ~LastClean(n))
    /\ p # <<>> => dom[p].type = "element"

\* Where a child is at hand.
LEMMA NextKid ==
    ASSUME DomlyInv, NEW type, Kid(type)
    PROVE  \E p \in DOMAIN dom, k \in Nat, n \in Nat, q \in DOMAIN dom : KidAt(p, k, n, q, type)
  <1>1. /\ DomlyTypes /\ AtNode /\ phase = "kids" /\ next <= dom[at].kids /\ dom[Append(at, next)].type = type
    BY DEF DomlyInv, Kid
  <1>2. PICK p \in DOMAIN dom : p = at
    BY <1>1 DEF DomlyTypes
  <1>3. PICK k \in Nat : k = next
    BY <1>1 DEF DomlyTypes
  <1>4. IsFragment(dom) /\ p \in Seq(Nat) /\ dom[p].kids \in Nat
    BY <1>1, Fragment DEF DomlyTypes
  <1>5. k \in 1..dom[p].kids
    BY <1>1, <1>2, <1>3, <1>4 DEF AtNode
  <1>6. PICK n \in Nat : n = k - 1
    BY <1>5
  <1>7. PICK q \in DOMAIN dom : q = Append(p, k)
    BY <1>4, <1>5, Fragment
  <1>8. q \in Seq(Nat) /\ q # <<>> /\ Len(q) = Len(p) + 1 /\ q[Len(p) + 1] = k
    BY <1>4, <1>7, PlaceOfKid
  <1>9. Len(lists[p]) = 1 /\ KidsRead(p, n) /\ (p = <<>> => (err <=> ~LastClean(n)))
    BY <1>1, <1>2, <1>3, <1>6 DEF AtNode
  <1>10. lists[p] # <<>>
    BY <1>9 DEF KidsRead
  <1>11. p # <<>> => dom[p].type = "element"
    BY <1>1, <1>2 DEF DomlyTypes
  <1>12. k = n + 1
    BY <1>6
  <1>13. dom[q].type = type
    BY <1>1, <1>2, <1>3, <1>7
  <1> QED
    BY <1>2, <1>3, <1>4, <1>5, <1>7, <1>8, <1>9, <1>10, <1>11, <1>12, <1>13, Zenon DEF KidAt

\* An element among the children is entered.
LEMMA EnterElementKeeps ==
    ASSUME DomlyInv, EnterElement
    PROVE  DomlyInv'
  <1>1. /\ DomlyTypes /\ AtNode /\ Around /\ Over /\ phase = "kids" /\ Kid("element") /\ dom' = dom
        /\ at' = Append(at, next) /\ phase' = "attrs" /\ next' = 1 /\ attrs' = {}
        /\ wrappers' = [wrappers EXCEPT ![at'] = <<>>]
        /\ lists' = [lists EXCEPT ![at'] = <<<<<<"tag", dom[at'].data>>>>>>] /\ err' = err
    BY DEF DomlyInv, EnterElement, Kid
  <1>0. Kid("element")
    BY <1>1
  <1>2. PICK p \in DOMAIN dom, k \in Nat, n \in Nat, q \in DOMAIN dom : KidAt(p, k, n, q, "element")
    BY <1>0, NextKid, Zenon
  <1>2a. /\ p = at /\ k = next /\ k = n + 1 /\ q = Append(p, k) /\ dom[q].type = "element"
         /\ p \in Seq(Nat) /\ q \in Seq(Nat) /\ q # <<>> /\ Len(q) = Len(p) + 1 /\ q[Len(p) + 1] = k
         /\ k \in 1..dom[p].kids /\ dom[p].kids \in Nat
         /\ Len(lists[p]) = 1 /\ lists[p] # <<>> /\ KidsRead(p, n)
         /\ p = <<>> => (err <=> ~LastClean(n))
         /\ p # <<>> => dom[p].type = "element"
    BY <1>2 DEF KidAt
  <1>3. IsFragment(dom) /\ at' = q /\ dom[q].data \in STRING /\ Len(dom[q].attrs) \in Nat
    <2>1. IsFragment(dom) /\ at' = q
      BY <1>1, <1>2a DEF DomlyTypes
    <2>2. dom[q].data \in STRING /\ dom[q].attrs \in Seq(STRING \X Texts)
      BY <2>1, Fragment
    <2> QED
      BY <2>1, <2>2
  <1> DEFINE t == <<"tag", dom[q].data>>
  <1>4. t \in Items
    BY <1>3, ItemKinds
  <1>5. <<<<t>>>> \in Seq(Seq(Items)) /\ <<<<t>>>> # <<>>
    <2> HIDE DEF t
    <2> QED
      BY <1>4
  <1>6. lists' = [lists EXCEPT ![q] = <<<<t>>>>]
    BY <1>1, <1>3
  <1> HIDE DEF t
  <1>7. /\ lists' \in [DOMAIN dom -> Seq(Seq(Items))] /\ lists'[q] = <<<<t>>>>
        /\ \A x \in DOMAIN dom : x # q => lists'[x] = lists[x]
    BY <1>1, <1>2a, <1>5, <1>6, ListsUpdate
  <1>8. /\ wrappers' \in [DOMAIN dom -> Seq(Wrappers)] /\ wrappers'[q] = <<>>
        /\ \A x \in DOMAIN dom : x # q => wrappers'[x] = wrappers[x]
    BY <1>1, <1>2a, <1>3, SMTT(30) DEF DomlyTypes
  <1>9. Touches(q)
    BY <1>1, <1>2a, <1>5, <1>7, <1>8 DEF Touches
  <1>10. DomlyTypes'
    BY <1>1, <1>2a, <1>3, <1>7, <1>8 DEF DomlyTypes
  <1>11. AtNode'
    <2> DEFINE W == WrappersOf(dom, q)
    <2>1. UpTo(W, 0) = 0 /\ \A i \in W : ~(i <= 0)
      <3>1. Len(dom[q].attrs) \in Nat /\ W \subseteq 1..Len(dom[q].attrs)
        BY <1>3, KidsCount
      <3> HIDE DEF W
      <3>2. W \subseteq Nat \ {0}
        BY <3>1
      <3> QED
        BY <3>2, CountingNone
    <2>2. 1..0 = {}
      OBVIOUS
    <2>3. W' = W /\ Len(<<>>) = 0
      BY <1>1 DEF WrappersOf
    <2>4. AttrsRead(q, 0)'
      BY <1>8, <2>1, <2>2, <2>3 DEF AttrsRead
    <2>5. next' - 1 = 0 /\ next' \in 1..Len(dom[q].attrs) + 1
      BY <1>1, <1>3
    <2>6. attrs' = {AttrOf(dom[q].data, dom[q].attrs[i]) : i \in (1..0) \ W}
      BY <1>1, <2>2
    <2>7. lists'[q] = <<<<<<"tag", dom[q].data>>>>>>
      BY <1>7 DEF t
    <2> QED
      BY <1>1, <1>3, <2>3, <2>4, <2>5, <2>6, <2>7 DEF AtNode
  <1>12. Around'
    <2>1. ASSUME NEW i \in 0..Len(q) - 1
          PROVE  Len(lists'[SubSeq(q, 1, i)]) = 1 /\ KidsRead(SubSeq(q, 1, i), q[i + 1] - 1)'
      <3>1. CASE i < Len(p)
        <4>1. i \in 0..Len(p) /\ i \in 0..Len(at) - 1 /\ i + 1 <= Len(p)
          BY <1>2a, <3>1
        <4>2. SubSeq(q, 1, i) = SubSeq(p, 1, i) /\ q[i + 1] = p[i + 1]
          BY <1>2a, <4>1, PlaceBegins
        <4>3. PICK s : s = SubSeq(at, 1, i)
          OBVIOUS
        <4>4. PICK m : m = at[i + 1] - 1
          OBVIOUS
        <4>5. i < Len(q) /\ q[i + 1] = at[i + 1]
          BY <1>2a, <3>1, <4>2, SMTT(30)
        <4>6. Len(lists'[s]) = 1 /\ KidsRead(s, m)'
          BY <1>1, <1>2a, <1>9, <4>1, <4>3, <4>4, <4>5, AroundStays
        <4> QED
          BY <1>2a, <4>2, <4>3, <4>4, <4>6
      <3>2. CASE i = Len(p)
        <4>1. SubSeq(q, 1, i) = p /\ q[i + 1] - 1 = n
          <5>1. Len(p) \in 0..Len(p)
            BY <1>2a
          <5>2. SubSeq(q, 1, Len(p)) = p
            BY <1>2a, <5>1, PlaceBegins
          <5> QED
            BY <1>2a, <3>2, <5>2
        <4>2. p # q
          BY <1>2a
        <4>3. \A j \in 1..n : Append(p, j) # q
          <5>1. \A j \in 1..n : j \in Nat /\ j # k
            BY <1>2a
          <5> QED
            BY <1>2a, <5>1, PlaceOfKid
        <4>4. lists'[p] = lists[p] /\ wrappers'[p] = wrappers[p] /\ n <= dom[p].kids
          BY <1>2a, <1>7, <1>8, <4>2, SMTT(30)
        <4>5. KidsRead(p, n)'
          BY <1>2a, <1>3, <1>9, <4>3, <4>4, KidsStay
        <4> QED
          BY <1>2a, <4>1, <4>4, <4>5
      <3> QED
        BY <1>2a, <2>1, <3>1, <3>2
    <2> QED
      BY <1>3, <2>1 DEF Around
  <1>13. Over'
    <2>1. IsPrefix(q, at')
      BY <1>2a, <1>3, PrefixOfKid
    <2>2. \A x \in DOMAIN dom : ~IsPrefix(x, at') => ~IsPrefix(x, at)
      BY <1>2a, <1>3, Fragment, PrefixOfKid
    <2> QED
      BY <1>1, <1>2a, <1>3, <1>9, <2>1, <2>2, OverStays
  <1> QED
    BY <1>10, <1>11, <1>12, <1>13 DEF DomlyInv

\* A child that is no element and is not in the list is passed over.
LEMMA KidSkipped ==
    ASSUME IsFragment(dom), NEW p \in DOMAIN dom, NEW n \in Nat, NEW k, k = n + 1, k \in 1..dom[p].kids,
           k \notin KidsIn(dom, p), dom[Append(p, k)].type # "element", p = <<>> \/ dom[Append(p, k)].type # "text",
           KidsRead(p, n)
    PROVE  KidsRead(p, k)
  <1> DEFINE kids == KidsIn(dom, p)
  <1>1. dom[p].kids \in Nat /\ kids \subseteq 1..dom[p].kids
    BY KidsCount
  <1>2. UpTo(kids, k) = UpTo(kids, n)
    <2>1. PICK S : S = kids
      OBVIOUS
    <2>2. PICK m \in Nat : m = dom[p].kids
      BY <1>1
    <2>3. S \subseteq 1..m
      BY <1>1, <2>1, <2>2
    <2>4. UpTo(S, k) = IF k \in S THEN UpTo(S, n) + 1 ELSE UpTo(S, n)
      BY <2>3, CountingNext
    <2> QED
      BY <2>1, <2>4
  <1>3. \A i \in kids : i <= k => i <= n
    <2>1. \A i \in kids : i \in Nat /\ i # k
      BY <1>1
    <2> HIDE DEF kids
    <2> QED
      BY <2>1
  <1>4. ItemsRead(p, k)
    <2>1. ItemsRead(p, n)
      BY DEF KidsRead
    <2> QED
      BY <1>2, <1>3, <2>1 DEF ItemsRead
  <1>5. \A i \in 1..k : i \in 1..n \/ i = k
    OBVIOUS
  <1> QED
    BY <1>4, <1>5 DEF KidsRead

\* A comment, and a text at the top, is passed over.
LEMMA SkipKidKeeps ==
    ASSUME DomlyInv, SkipKid
    PROVE  DomlyInv'
  <1>1. /\ DomlyTypes /\ AtNode /\ phase = "kids" /\ next' = next + 1
        /\ Kid("comment") \/ (Kid("text") /\ at = <<>>)
        /\ UNCHANGED <<dom, at, phase, attrs, wrappers, lists, err>>
    BY DEF DomlyInv, SkipKid, Kid
  <1>2. PICK type \in {"comment", "text"} : Kid(type) /\ (type = "text" => at = <<>>)
    BY <1>1
  <1>3. PICK p \in DOMAIN dom, k \in Nat, n \in Nat, q \in DOMAIN dom : KidAt(p, k, n, q, type)
    BY <1>2, NextKid
  <1>3a. /\ p = at /\ k = next /\ k = n + 1 /\ q = Append(p, k) /\ dom[q].type = type
         /\ p \in Seq(Nat) /\ q \in Seq(Nat) /\ q # <<>> /\ Len(q) = Len(p) + 1 /\ q[Len(p) + 1] = k
         /\ k \in 1..dom[p].kids /\ dom[p].kids \in Nat
         /\ Len(lists[p]) = 1 /\ lists[p] # <<>> /\ KidsRead(p, n)
         /\ p = <<>> => (err <=> ~LastClean(n))
         /\ p # <<>> => dom[p].type = "element"
    BY <1>3 DEF KidAt
  <1>4. k \notin KidsIn(dom, p) /\ dom[q].type # "element" /\ (p = <<>> \/ dom[q].type # "text")
    BY <1>2, <1>3a DEF KidsIn
  <1>5. KidsRead(p, k)
    BY <1>1, <1>3a, <1>4, KidSkipped DEF DomlyTypes
  <1>6. KidsRead(p, k)'
    <2>1. \A i \in 1..k : Append(p, i) # p
      <3>1. \A i \in 1..k : i \in Nat
        OBVIOUS
      <3>2. \A i \in 1..k : Len(Append(p, i)) = Len(p) + 1
        BY <1>3a, <3>1, PlaceOfKid
      <3>3. Len(p) # Len(p) + 1
        BY <1>3a
      <3> QED
        BY <3>2, <3>3
    <2>2. Touches(p) /\ IsFragment(dom) /\ k <= dom[p].kids
      BY <1>1, <1>3a DEF Touches, DomlyTypes
    <2> QED
      BY <1>1, <1>3a, <1>5, <2>1, <2>2, KidsStay
  <1>7. ASSUME p = <<>> PROVE LastClean(k) <=> LastClean(n)
    <2>1. <<k>> = q
      BY <1>3a, <1>7
    <2>2. k \notin Elements(dom)
      BY <1>4, <2>1 DEF Elements
    <2>3. \A i \in Elements(dom) : i <= k <=> i <= n
      <3>1. \A i \in Elements(dom) : i \in Nat
        BY <1>3a, <1>7, Fragment DEF Elements
      <3> QED
        BY <1>3a, <2>2, <3>1
    <2> QED
      BY <2>3, Zenon DEF LastClean
  <1>8. AtNode'
    <2>1. at' = p /\ next' - 1 = k /\ next' \in 1..dom[p].kids + 1 /\ next' \in Nat /\ phase' = "kids" /\ dom' = dom
      BY <1>1, <1>3a
    <2>2. LastClean(k)' <=> LastClean(k)
      BY <1>1 DEF LastClean, Elements, Clean
    <2>3. Len(lists'[at']) = 1 /\ KidsRead(at, next - 1)' /\ (at' = <<>> => (err' <=> ~LastClean(next - 1)'))
      BY <1>1, <1>3a, <1>6, <1>7, <2>1, <2>2
    <2> QED
      BY <2>1, <2>3 DEF AtNode
  <1>9. Touches(at)
    BY <1>1, <1>3a DEF Touches
  <1> QED
    BY <1>1, <1>3a, <1>8, <1>9, KeptInPlace DEF DomlyTypes

\* A text is added to the list of the element.
LEMMA AddTextKeeps ==
    ASSUME DomlyInv, AddText
    PROVE  DomlyInv'
  <1>1. /\ DomlyTypes /\ AtNode /\ phase = "kids" /\ next' = next + 1 /\ Kid("text") /\ at # <<>>
        /\ Parses(dom[Append(at, next)].data)
        /\ AppendTo(at, extractVal(ParsedText(dom[Append(at, next)].data)))
        /\ UNCHANGED <<dom, at, phase, attrs, wrappers, err>>
    BY DEF DomlyInv, AddText, Kid
  <1>0. Kid("text")
    BY <1>1
  <1>2. PICK p \in DOMAIN dom, k \in Nat, n \in Nat, q \in DOMAIN dom : KidAt(p, k, n, q, "text")
    BY <1>0, NextKid, Zenon
  <1>2a. /\ p = at /\ k = next /\ k = n + 1 /\ q = Append(p, k) /\ dom[q].type = "text"
         /\ p \in Seq(Nat) /\ q \in Seq(Nat) /\ q # <<>> /\ Len(q) = Len(p) + 1 /\ q[Len(p) + 1] = k
         /\ k \in 1..dom[p].kids /\ dom[p].kids \in Nat
         /\ Len(lists[p]) = 1 /\ lists[p] # <<>> /\ KidsRead(p, n)
         /\ p = <<>> => (err <=> ~LastClean(n))
         /\ p # <<>> => dom[p].type = "element"
    BY <1>2 DEF KidAt
  <1>3. dom[q].data \in Texts
    BY <1>1, <1>2a, Fragment DEF DomlyTypes
  <1>4. PICK item \in Items : item = extractVal(ParsedText(dom[q].data))
    BY <1>3, ItemKinds
  <1>5. TextOf(item) = dom[q].data /\ Parses(dom[q].data) /\ AppendTo(p, item)
    BY <1>1, <1>2a, <1>3, <1>4, ValueTells
  <1>6. /\ lists' \in [DOMAIN dom -> Seq(Seq(Items))] /\ lists'[p] # <<>>
        /\ Len(lists'[p]) = Len(lists[p]) /\ lists'[p][1] = Append(lists[p][1], item)
        /\ lists[p][1] \in Seq(Items)
        /\ \A x \in DOMAIN dom : x # p => lists'[x] = lists[x]
    BY <1>1, <1>2a, <1>5, AppendsTo
  <1>7. Touches(p) /\ Touches(at)
    BY <1>1, <1>2a, <1>6 DEF Touches
  <1>8. ItemOf(item, q) /\ k \in KidsIn(dom, p)
    BY <1>1, <1>2a, <1>5 DEF ItemOf, KidsIn
  <1>9. KidsRead(p, k)'
    BY <1>1, <1>2a, <1>5, <1>6, <1>7, <1>8, KidAdded
  <1>10. AtNode'
    <2>1. /\ at' = p /\ next' - 1 = k /\ next' \in 1..dom[p].kids + 1 /\ phase' = "kids" /\ dom' = dom
          /\ Len(lists'[p]) = 1 /\ p # <<>>
      BY <1>1, <1>2a, <1>6, SMTT(30)
    <2> QED
      BY <1>9, <2>1 DEF AtNode
  <1>11. next' \in Nat
    BY <1>1, <1>2a
  <1> QED
    BY <1>1, <1>2a, <1>6, <1>7, <1>10, <1>11, KeptInPlace DEF DomlyTypes

\* A text in error is in the element that is returned with it.
LEMMA TextFailsKeeps ==
    ASSUME DomlyInv, TextFails
    PROVE  DomlyInv'
  <1>1. /\ DomlyTypes /\ AtNode /\ phase = "kids" /\ Kid("text") /\ at # <<>>
        /\ ~Parses(dom[Append(at, next)].data) /\ phase' = "return" /\ err' = TRUE
        /\ UNCHANGED <<dom, at, next, attrs, wrappers, lists>>
    BY DEF DomlyInv, TextFails, Kid
  <1>0. Kid("text")
    BY <1>1
  <1>2. PICK p \in DOMAIN dom, k \in Nat, n \in Nat, q \in DOMAIN dom : KidAt(p, k, n, q, "text")
    BY <1>0, NextKid, Zenon
  <1>2a. /\ p = at /\ k = next /\ k = n + 1 /\ q = Append(p, k) /\ dom[q].type = "text"
         /\ p \in Seq(Nat) /\ q \in Seq(Nat) /\ q # <<>> /\ Len(q) = Len(p) + 1 /\ q[Len(p) + 1] = k
         /\ k \in 1..dom[p].kids /\ dom[p].kids \in Nat
         /\ Len(lists[p]) = 1 /\ lists[p] # <<>> /\ KidsRead(p, n)
         /\ p = <<>> => (err <=> ~LastClean(n))
         /\ p # <<>> => dom[p].type = "element"
    BY <1>2 DEF KidAt
  <1>3. IsFragment(dom)
    BY <1>1 DEF DomlyTypes
  <1>4. ~Clean(dom, q)
    BY <1>1, <1>2a, <1>3, LeavesBreak
  <1>5. ~Clean(dom, p)
    BY <1>2a, <1>3, <1>4, CleanIs
  <1>6. AtNode'
    <2>1. at' = p /\ dom' = dom /\ lists'[p] # <<>>
      BY <1>1, <1>2a
    <2> QED
      BY <1>1, <1>5, <2>1 DEF AtNode, Clean
  <1>7. Touches(at)
    BY <1>1, <1>2a DEF Touches
  <1> QED
    BY <1>1, <1>6, <1>7, KeptInPlace DEF DomlyTypes

\* As many wrappers were kept as there are.
LEMMA WrappersCount ==
    ASSUME IsFragment(dom), NEW p \in DOMAIN dom, AllAttrsRead(p)
    PROVE  /\ Len(wrappers[p]) = Cardinality(WrappersOf(dom, p)) /\ Cardinality(WrappersOf(dom, p)) \in Nat
           /\ \A i \in WrappersOf(dom, p) :
                /\ wrappers[p][UpTo(WrappersOf(dom, p), i)] = Wrapper(dom[p].data, dom[p].attrs[i])
                /\ UpTo(WrappersOf(dom, p), i) \in Nat
                /\ 1 <= UpTo(WrappersOf(dom, p), i)
                /\ UpTo(WrappersOf(dom, p), i) <= Cardinality(WrappersOf(dom, p))
  <1>1. PICK m \in Nat : m = Len(dom[p].attrs)
    BY KidsCount
  <1>2. PICK S : S = WrappersOf(dom, p)
    OBVIOUS
  <1>3. S \subseteq 1..m
    BY <1>1, <1>2, KidsCount
  <1>4. PICK x : x = UpTo(S, m)
    OBVIOUS
  <1>5. /\ Cardinality(S) \in Nat /\ UpTo(S, m) = Cardinality(S)
        /\ \A i \in Nat : UpTo(S, i) \in Nat /\ UpTo(S, i) <= Cardinality(S)
        /\ \A i \in S : 1 <= UpTo(S, i)
    BY <1>3, <1>4, Counting
  <1>6. \A i \in S : i \in Nat /\ i <= m
    BY <1>3
  <1>7. Len(wrappers[p]) = UpTo(S, m)
        /\ \A i \in S : i <= m => wrappers[p][UpTo(S, i)] = Wrapper(dom[p].data, dom[p].attrs[i])
    BY <1>1, <1>2 DEF AllAttrsRead, AttrsRead
  <1>8. /\ Len(wrappers[p]) = Cardinality(S) /\ Cardinality(S) \in Nat
        /\ \A i \in S :
            /\ wrappers[p][UpTo(S, i)] = Wrapper(dom[p].data, dom[p].attrs[i])
            /\ UpTo(S, i) \in Nat /\ 1 <= UpTo(S, i) /\ UpTo(S, i) <= Cardinality(S)
    BY <1>5, <1>6, <1>7
  <1> QED
    BY <1>2, <1>8

\* After the children come the wrappers.
LEMMA EndKidsKeeps ==
    ASSUME DomlyInv, EndKids
    PROVE  DomlyInv'
  <1>1. /\ DomlyTypes /\ AtNode /\ phase = "kids" /\ at # <<>> /\ next > dom[at].kids
        /\ phase' = "wrap" /\ next' = Len(wrappers[at])
        /\ UNCHANGED <<dom, at, attrs, wrappers, lists, err>>
    BY DEF DomlyInv, EndKids
  <1>2. PICK p \in DOMAIN dom : p = at
    BY <1>1 DEF DomlyTypes
  <1>3. IsFragment(dom) /\ dom[p].kids \in Nat
    BY <1>1, Fragment DEF DomlyTypes
  <1>4. next \in 1..dom[p].kids + 1 /\ next \in Nat
    BY <1>1, <1>2 DEF AtNode, DomlyTypes
  <1>5. next - 1 = dom[p].kids
    BY <1>1, <1>2, <1>3, <1>4
  <1>6. Len(lists[p]) = 1 /\ KidsRead(p, dom[p].kids)
    <2>1. Len(lists[at]) = 1 /\ KidsRead(at, next - 1)
      BY <1>1 DEF AtNode
    <2> QED
      BY <1>2, <1>5, <2>1
  <1> DEFINE W == WrappersOf(dom, p)
             w == Cardinality(W)
  <1>7. Len(wrappers[p]) = w /\ w \in Nat /\ \A i \in W : UpTo(W, i) \in Nat /\ UpTo(W, i) <= w
    <2>1. AllAttrsRead(p)
      BY <1>1, <1>2, <1>6 DEF KidsRead
    <2> QED
      BY <1>3, <2>1, WrappersCount
  <1>8. Wrapped(p, w)
    <2>1. w + 1 - w = 1 /\ \A i \in W : ~(UpTo(W, i) > w)
      <3> HIDE DEF W
      <3>1. w \in Nat /\ \A i \in W : UpTo(W, i) \in Nat /\ UpTo(W, i) <= w
        BY <1>7
      <3> HIDE DEF w
      <3> QED
        BY <3>1
    <2> QED
      BY <1>6, <2>1 DEF Wrapped
  <1>9. AtNode'
    <2>1. at' = p /\ dom' = dom /\ next' = w /\ next' <= w /\ W' = W
      <3>1. at' = p /\ dom' = dom /\ next' = w /\ W' = W
        BY <1>1, <1>2, <1>7
      <3>2. w <= w
        <4> HIDE DEF w
        <4> QED
          BY <1>7
      <3> QED
        BY <3>1, <3>2
    <2>2. PICK n : n = w
      OBVIOUS
    <2>3. PICK m : m = dom[p].kids
      OBVIOUS
    <2>4. KidsRead(p, m) /\ Wrapped(p, n)
      BY <1>6, <1>8, <2>2, <2>3
    <2>5. Wrapped(p, n)'
      BY <1>1, <2>4 DEF Wrapped, WrappersOf
    <2>6. \A i \in 1..m : Append(p, i) # p
      <3>1. p \in Seq(Nat) /\ \A i \in 1..m : i \in Nat
        BY <1>3, <2>3, Fragment
      <3> QED
        BY <3>1, PlaceOfKid, PrefixOfKid
    <2>7. Touches(p) /\ m \in Nat /\ m <= dom[p].kids /\ lists[p] # <<>>
      BY <1>1, <1>2, <1>3, <1>6, <2>3 DEF Touches, KidsRead
    <2>8. KidsRead(p, m)'
      BY <1>1, <1>3, <2>4, <2>6, <2>7, KidsStay
    <2> QED
      BY <1>1, <2>1, <2>2, <2>3, <2>5, <2>8 DEF AtNode
  <1>10. Touches(at)
    BY <1>1, <1>2, <1>6 DEF Touches, KidsRead
  <1>11. next' \in Nat
    BY <1>1, <1>2, <1>7
  <1> QED
    BY <1>1, <1>9, <1>10, <1>11, KeptInPlace DEF DomlyTypes

\* A wrapper is put round the list for the element.
LEMMA WrapKeeps ==
    ASSUME DomlyInv, Wrap
    PROVE  DomlyInv'
  <1>1. /\ DomlyTypes /\ AtNode /\ phase = "wrap" /\ next > 0
        /\ lists' = [lists EXCEPT ![at] = Append(@, <<wrappers[at][next], ListOf(at)>>)]
        /\ next' = next - 1
        /\ UNCHANGED <<dom, at, phase, attrs, wrappers, err>>
    BY DEF DomlyInv, Wrap
  <1>2. /\ at # <<>> /\ at \in DOMAIN dom /\ at \in Seq(Nat) /\ IsFragment(dom) /\ dom[at].kids \in Nat /\ next \in Nat
    BY <1>1, AtElement
  <1>3. PICK p \in DOMAIN dom : p = at
    BY <1>2
  <1>4. PICK k \in Nat : k = next
    BY <1>2
  <1>5. PICK m \in Nat : m = dom[p].kids
    BY <1>2, <1>3
  <1> DEFINE W == WrappersOf(dom, p)
             w == Cardinality(W)
             ls == lists[p]
             x == <<wrappers[p][k], ListOf(p)>>
  <1>6. k <= w /\ KidsRead(p, m) /\ Wrapped(p, k) /\ k > 0
    BY <1>1, <1>3, <1>4, <1>5 DEF AtNode
  <1>7. /\ Len(wrappers[p]) = w /\ w \in Nat
        /\ \A i \in W :
            /\ wrappers[p][UpTo(W, i)] = Wrapper(dom[p].data, dom[p].attrs[i])
            /\ UpTo(W, i) \in Nat /\ 1 <= UpTo(W, i) /\ UpTo(W, i) <= w
    <2>1. AllAttrsRead(p)
      BY <1>2, <1>3, <1>6 DEF KidsRead
    <2> QED
      BY <1>2, <2>1, WrappersCount
  <1>8. ls \in Seq(Seq(Items)) /\ wrappers[p] \in Seq(Wrappers)
    BY <1>1 DEF DomlyTypes
  <1>9. /\ Len(ls) = w + 1 - k
        /\ \A i \in W : UpTo(W, i) > k =>
            ls[w + 1 - UpTo(W, i) + 1]
            = <<Wrapper(dom[p].data, dom[p].attrs[i]), <<"node", p, w + 1 - UpTo(W, i)>>>>
    BY <1>6 DEF Wrapped
  <1>10. x \in Seq(Items)
    <2>1. wrappers[p][k] \in Wrappers
      <3>1. k \in 1..Len(wrappers[p])
        <4>1. k <= w /\ k > 0 /\ Len(wrappers[p]) = w /\ w \in Nat
          BY <1>6, <1>7
        <4> HIDE DEF w
        <4> QED
          BY <4>1
      <3> QED
        BY <1>8, <3>1
    <2>2. ListOf(p) \in Items
      <3>1. p \in Seq(Nat) /\ Len(ls) \in Nat
        BY <1>2, <1>3, <1>8
      <3> QED
        BY <3>1, ItemKinds DEF ListOf
    <2>3. wrappers[p][k] \in Items
      BY <2>1, ItemKinds
    <2> QED
      BY <2>2, <2>3
  <1> DEFINE r == Append(ls, x)
  <1> HIDE DEF x
  <1>11. /\ r \in Seq(Seq(Items)) /\ Len(ls) \in Nat /\ Len(r) = Len(ls) + 1 /\ r[Len(ls) + 1] = x
         /\ \A i \in 1..Len(ls) : r[i] = ls[i]
    BY <1>8, <1>10, AppendedItem
  <1>12. lists' = [lists EXCEPT ![p] = r]
    BY <1>1, <1>3, <1>4 DEF x
  <1> HIDE DEF r
  <1>13. /\ lists' \in [DOMAIN dom -> Seq(Seq(Items))] /\ lists'[p] = r
         /\ \A q \in DOMAIN dom : q # p => lists'[q] = lists[q]
    BY <1>1, <1>11, <1>12, ListsUpdate
  <1>14. ls # <<>> /\ r # <<>> /\ r[1] = ls[1]
    <2>1. ls # <<>>
      BY <1>6 DEF KidsRead
    <2>2. 1 \in 1..Len(ls)
      BY <1>8, <2>1, EmptySeq
    <2>3. r # <<>>
      <3>1. Len(r) # 0
        BY <1>11
      <3> QED
        BY <3>1
    <2> QED
      BY <1>11, <2>1, <2>2, <2>3
  <1>15. Touches(p) /\ Touches(at)
    BY <1>1, <1>3, <1>13, <1>14 DEF Touches
  <1>16. PICK n \in Nat : n = k - 1
    BY <1>6
  <1>17. Wrapped(p, n)'
    <2> DEFINE c(i) == UpTo(W, i)
               wr(i) == Wrapper(dom[p].data, dom[p].attrs[i])
               node(i) == <<"node", p, i>>
    <2>1. x = <<wrappers[p][k], node(w + 1 - k)>>
      BY <1>9 DEF x, ListOf
    <2>2. \A i \in W : c(i) > k => ls[w + 1 - c(i) + 1] = <<wr(i), node(w + 1 - c(i))>>
      BY <1>9
    <2>3. \A i \in W : wrappers[p][c(i)] = wr(i) /\ c(i) \in Nat /\ 1 <= c(i) /\ c(i) <= w
      BY <1>7
    <2>4. Len(ls) = w + 1 - k /\ w \in Nat /\ k <= w /\ k > 0
      BY <1>6, <1>7, <1>9
    <2> HIDE DEF W, w, ls, c, wr, node
    <2>5. Len(r) = w + 1 - n
      BY <1>11, <1>16, <2>4
    <2>6. ASSUME NEW i \in W, c(i) > n
          PROVE  r[w + 1 - c(i) + 1] = <<wr(i), node(w + 1 - c(i))>>
      <3>1. CASE c(i) = k
        <4>1. w + 1 - c(i) + 1 = Len(ls) + 1
          BY <2>4, <3>1
        <4>2. r[w + 1 - c(i) + 1] = x
          BY <1>11, <4>1
        <4>3. wrappers[p][k] = wr(i)
          BY <2>3, <3>1
        <4> QED
          BY <2>1, <3>1, <4>2, <4>3
      <3>2. CASE c(i) > k
        <4>1. w + 1 - c(i) + 1 \in 1..Len(ls)
          BY <2>3, <2>4, <3>2
        <4> QED
          BY <1>11, <2>2, <3>2, <4>1
      <3> QED
        BY <1>16, <2>3, <2>6, <3>1, <3>2
    <2>7. W' = W /\ dom' = dom
      BY <1>1 DEF WrappersOf, W
    <2> QED
      BY <1>13, <2>5, <2>6, <2>7 DEF Wrapped, W, w, c, wr, node
  <1>18. KidsRead(p, m)'
    <2>1. \A i \in 1..m : Append(p, i) # p
      <3>1. p \in Seq(Nat) /\ \A i \in 1..m : i \in Nat
        BY <1>2, <1>3
      <3> QED
        BY <3>1, PlaceOfKid, PrefixOfKid
    <2>2. lists'[p][1] = lists[p][1] /\ lists'[p] # <<>> /\ wrappers'[p] = wrappers[p] /\ m <= dom[p].kids
      BY <1>1, <1>5, <1>13, <1>14, SMTT(30)
    <2> QED
      BY <1>2, <1>6, <1>15, <2>1, <2>2, KidsStay
  <1>19. AtNode'
    <2>1. at' = p /\ dom' = dom /\ next' = n /\ n <= w /\ W' = W /\ phase' = "wrap"
      <3>1. at' = p /\ dom' = dom /\ next' = n /\ W' = W /\ phase' = "wrap"
        BY <1>1, <1>3, <1>4, <1>16
      <3>2. n <= w
        <4>1. k <= w /\ w \in Nat
          BY <1>6, <1>7
        <4> HIDE DEF w
        <4> QED
          BY <1>16, <4>1
      <3> QED
        BY <3>1, <3>2
    <2> QED
      BY <1>5, <1>17, <1>18, <2>1 DEF AtNode
  <1>20. next' \in Nat
    BY <1>1, <1>4, <1>16
  <1> QED
    BY <1>1, <1>2, <1>13, <1>15, <1>19, <1>20, KeptInPlace DEF DomlyTypes

\* An element is returned whole.
LEMMA ReturnNodeKeeps ==
    ASSUME DomlyInv, ReturnNode
    PROVE  DomlyInv'
  <1>1. /\ DomlyTypes /\ AtNode /\ phase = "wrap" /\ next = 0 /\ phase' = "return" /\ err' = FALSE
        /\ UNCHANGED <<dom, at, next, attrs, wrappers, lists>>
    BY DEF DomlyInv, ReturnNode
  <1>2. /\ at # <<>> /\ at \in DOMAIN dom /\ at \in Seq(Nat) /\ IsFragment(dom) /\ dom[at].kids \in Nat
        /\ dom[at].type = "element" /\ next \in Nat
    BY <1>1, AtElement
  <1>3. PICK p \in DOMAIN dom : p = at
    BY <1>2
  <1>4. KidsRead(p, dom[p].kids) /\ Wrapped(p, 0)
    BY <1>1, <1>3 DEF AtNode
  <1>5. AllAttrsRead(p) /\ ListsHead(dom, lists, p) /\ ItemsRead(p, dom[p].kids) /\ lists[p] # <<>>
    BY <1>2, <1>3, <1>4 DEF KidsRead
  <1>6. \A k \in 1..dom[p].kids :
            /\ Append(p, k) \in DOMAIN dom /\ Append(p, k) # <<>>
            /\ dom[Append(p, k)].type = "text" => Parses(dom[Append(p, k)].data)
            /\ dom[Append(p, k)].type = "element" => Finished(Append(p, k))
    <2>1. \A k \in 1..dom[p].kids : Append(p, k) \in DOMAIN dom
      BY <1>2, Fragment
    <2>2. \A k \in 1..dom[p].kids : Append(p, k) # <<>>
      <3>1. \A k \in 1..dom[p].kids : k \in Nat
        BY <1>2, <1>3
      <3> QED
        BY <1>2, <1>3, <3>1, PlaceOfKid
    <2> QED
      BY <1>2, <1>3, <1>4, <2>1, <2>2 DEF KidsRead
  <1>7. \A k \in 1..dom[p].kids : Clean(dom, Append(p, k))
    <2> SUFFICES ASSUME NEW k \in 1..dom[p].kids PROVE Clean(dom, Append(p, k))
      OBVIOUS
    <2>1. CASE dom[Append(p, k)].type = "element"
      BY <1>6, <2>1 DEF Finished
    <2>2. CASE dom[Append(p, k)].type # "element"
      BY <1>2, <1>6, <2>2, LeavesBreak
    <2> QED
      BY <2>1, <2>2
  <1>8. ~Breaks(dom[p])
    BY <1>2, <1>3, <1>5 DEF Breaks, AllAttrsRead, AttrsRead
  <1>9. Clean(dom, p)
    BY <1>2, <1>7, <1>8, CleanIs
  <1>10. ASSUME NEW q \in DOMAIN dom, IsPrefix(p, q), dom[q].type = "element"
         PROVE  lists[q] # <<>>
    <2>1. CASE q = p
      BY <1>5, <2>1
    <2>2. CASE q # p
      <3>1. PICK k \in 1..dom[p].kids : IsPrefix(Append(p, k), q)
        BY <1>2, <1>10, <2>2, FragmentBelow
      <3>2. PICK c \in DOMAIN dom : c = Append(p, k)
        BY <1>6
      <3>3. CASE dom[c].type = "element"
        BY <1>6, <1>10, <3>1, <3>2, <3>3 DEF Finished
      <3>4. CASE dom[c].type # "element"
        <4>1. dom[c].kids = 0
          BY <1>2, <1>6, <3>2, <3>4, Fragment
        <4>2. q = c
          <5>1. IsPrefix(c, q) /\ 1..dom[c].kids = {}
            BY <3>1, <3>2, <4>1
          <5> QED
            BY <1>2, <5>1, FragmentBelow
        <4> QED
          BY <1>10, <3>4, <4>2
      <3> QED
        BY <3>3, <3>4
    <2> QED
      BY <2>1, <2>2
  <1>11. Finished(p)
    BY <1>9, <1>10 DEF Finished
  <1>12. Whole(p)
    BY <1>4, <1>5 DEF Whole
  <1>13. Touches(p) /\ Touches(at)
    BY <1>1, <1>2, <1>3, <1>5 DEF Touches
  <1>14. Finished(p)' /\ Whole(p)'
    <2>1. Finished(p)'
      BY <1>11, <1>13, FinishedStays
    <2>2. ListsHead(dom, lists, p)' /\ Wrapped(p, 0)'
      BY <1>1, <1>4, <1>5, HeadStays DEF Wrapped, WrappersOf
    <2>3. PICK m \in Nat : m = dom[p].kids
      BY <1>2, <1>3
    <2>4. \A k \in 1..m : Append(p, k) # p
      <3>1. \A k \in 1..m : k \in Nat
        OBVIOUS
      <3> QED
        BY <1>2, <1>3, <3>1, PlaceOfKid, PrefixOfKid
    <2>5. ItemsRead(p, m)'
      BY <1>1, <1>2, <1>5, <1>13, <2>3, <2>4, ItemsStay
    <2>6. dom[p].kids' = m
      BY <1>1, <2>3
    <2> QED
      BY <2>1, <2>2, <2>5, <2>6 DEF Whole
  <1>15. AtNode'
    BY <1>1, <1>3, <1>5, <1>14 DEF AtNode
  <1> QED
    BY <1>1, <1>2, <1>13, <1>15, KeptInPlace DEF DomlyTypes

\* The child k at c of the node at p is returned to it.
ReturnTo(p, k, n, c) ==
    /\ c = at /\ p = Front(at) /\ k = Last(at) /\ k = n + 1 /\ c = Append(p, k)
    /\ p \in Seq(Nat) /\ c \in Seq(Nat) /\ Len(c) = Len(p) + 1 /\ c # p
    /\ k \in 1..dom[p].kids /\ dom[p].kids \in Nat /\ dom[c].type = "element"
    /\ Len(lists[p]) = 1 /\ lists[p] # <<>> /\ KidsRead(p, n) /\ lists[c] # <<>>
    /\ p # <<>> => dom[p].type = "element"

\* Where an element is returned.
LEMMA Returning ==
    ASSUME DomlyInv, phase = "return"
    PROVE  \E p \in DOMAIN dom, k \in Nat, n \in Nat, c \in DOMAIN dom : ReturnTo(p, k, n, c)
  <1>1. DomlyTypes /\ AtNode /\ Around
    BY DEF DomlyInv
  <1>2. /\ at # <<>> /\ at \in DOMAIN dom /\ at \in Seq(Nat) /\ IsFragment(dom) /\ dom[at].type = "element"
    BY <1>1, AtElement
  <1>3. PICK c \in DOMAIN dom : c = at
    BY <1>2
  <1>4. PICK p \in DOMAIN dom : p = Front(c)
    BY <1>2, <1>3, FragmentParent
  <1>5. /\ p \in Seq(Nat) /\ Last(c) \in Nat /\ c = Append(p, Last(c)) /\ Len(p) = Len(c) - 1
        /\ Last(c) = c[Len(c)] /\ p = SubSeq(c, 1, Len(c) - 1)
    BY <1>2, <1>3, <1>4, PlaceInParent
  <1>6. PICK k \in Nat : k = Last(c)
    BY <1>5
  <1>7. k \in 1..dom[p].kids /\ (p # <<>> => dom[p].type = "element")
    BY <1>2, <1>3, <1>4, <1>6, FragmentParent
  <1>8. dom[p].kids \in Nat
    BY <1>2, Fragment
  <1>9. PICK n \in Nat : n = k - 1
    BY <1>7, <1>8
  <1>10. Len(c) = Len(p) + 1 /\ Len(p) \in Nat /\ c # p
    <2>1. Len(c) \in Nat /\ Len(p) \in Nat
      BY <1>2, <1>3, <1>5
    <2>2. Len(c) = Len(p) + 1
      BY <1>5, <2>1
    <2> QED
      BY <2>1, <2>2
  <1>11. Len(lists[p]) = 1 /\ KidsRead(p, n)
    <2>1. PICK i \in Nat : i = Len(p)
      BY <1>10
    <2>2. i \in 0..Len(at) - 1 /\ i = Len(c) - 1 /\ i + 1 = Len(c)
      BY <1>3, <1>10, <2>1
    <2>3. SubSeq(at, 1, i) = p /\ at[i + 1] - 1 = n
      BY <1>3, <1>5, <1>6, <1>9, <2>2
    <2> QED
      BY <1>1, <2>2, <2>3 DEF Around
  <1>12. lists[p] # <<>>
    BY <1>11 DEF KidsRead
  <1>13. lists[c] # <<>>
    BY <1>1, <1>3 DEF AtNode
  <1>14. k = n + 1
    BY <1>9
  <1> QED
    BY <1>2, <1>3, <1>4, <1>5, <1>6, <1>7, <1>8, <1>10, <1>11, <1>12, <1>13, <1>14, Zenon DEF ReturnTo

\* A step back leaves what is round the parent and the calls that are over.
LEMMA StepOut ==
    ASSUME DomlyInv, phase = "return", NEW p \in DOMAIN dom, NEW k \in Nat, NEW n \in Nat, NEW c \in DOMAIN dom,
           ReturnTo(p, k, n, c), Touches(p), at' = p
    PROVE  Around' /\ Over'
  <1>1. DomlyTypes /\ AtNode /\ Around /\ Over /\ IsFragment(dom)
    BY DEF DomlyInv, DomlyTypes
  <1>2. c = at /\ c = Append(p, k) /\ p \in Seq(Nat) /\ c \in Seq(Nat) /\ Len(c) = Len(p) + 1
    BY DEF ReturnTo
  <1>3. ASSUME NEW i \in 0..Len(p) - 1
        PROVE  Len(lists'[SubSeq(p, 1, i)]) = 1 /\ KidsRead(SubSeq(p, 1, i), p[i + 1] - 1)'
    <2>1. i \in 0..Len(p) /\ i \in 0..Len(at) - 1 /\ i + 1 <= Len(p) /\ i < Len(p)
      BY <1>2
    <2>2. SubSeq(c, 1, i) = SubSeq(p, 1, i) /\ c[i + 1] = p[i + 1]
      BY <1>2, <2>1, PlaceBegins
    <2>3. PICK s : s = SubSeq(at, 1, i)
      OBVIOUS
    <2>4. PICK m : m = at[i + 1] - 1
      OBVIOUS
    <2>5. p[i + 1] = at[i + 1]
      BY <1>2, <2>2
    <2>6. Len(lists'[s]) = 1 /\ KidsRead(s, m)'
      BY <1>1, <1>2, <2>1, <2>3, <2>4, <2>5, AroundStays
    <2> QED
      BY <1>2, <2>2, <2>3, <2>4, <2>6
  <1>4. Around'
    BY <1>3 DEF Around
  <1>5. Over'
    <2>1. IsPrefix(p, at')
      BY <1>2, PrefixOfKid
    <2>2. \A x \in DOMAIN dom : ~IsPrefix(x, at') => ~IsPrefix(x, at) \/ (x = at /\ phase = "return")
      BY <1>1, <1>2, Fragment, PrefixOfKid, SMTT(30)
    <2> QED
      BY <1>1, <1>2, <2>1, <2>2, OverStays
  <1> QED
    BY <1>4, <1>5

\* An element in error is in the element that is returned with it.
LEMMA ElementFailsKeeps ==
    ASSUME DomlyInv, ElementFails
    PROVE  DomlyInv'
  <1>1. /\ DomlyTypes /\ AtNode /\ phase = "return" /\ Len(at) > 1 /\ err /\ at' = Front(at)
        /\ UNCHANGED <<dom, phase, next, attrs, wrappers, lists, err>>
    BY DEF DomlyInv, ElementFails
  <1>2. PICK p \in DOMAIN dom, k \in Nat, n \in Nat, c \in DOMAIN dom : ReturnTo(p, k, n, c)
    BY <1>1, Returning
  <1>3. /\ c = at /\ p = Front(at) /\ c = Append(p, k) /\ p \in Seq(Nat) /\ Len(c) = Len(p) + 1
        /\ k \in 1..dom[p].kids /\ lists[p] # <<>> /\ (p # <<>> => dom[p].type = "element")
    BY <1>2 DEF ReturnTo
  <1>4. at' = p /\ p # <<>> /\ IsFragment(dom)
    BY <1>1, <1>3 DEF DomlyTypes
  <1>5. Touches(p)
    BY <1>1, <1>3 DEF Touches
  <1>6. ~Clean(dom, p)
    <2>1. ~Clean(dom, c)
      BY <1>1, <1>3 DEF AtNode
    <2>2. k \in 1..dom[p].kids /\ ~Clean(dom, Append(p, k))
      BY <1>3, <2>1
    <2> QED
      BY <1>4, <2>2, CleanIs
  <1>7. Around' /\ Over'
    BY <1>1, <1>2, <1>4, <1>5, StepOut
  <1>8. AtNode'
    BY <1>1, <1>3, <1>4, <1>6 DEF AtNode, Clean
  <1>9. DomlyTypes'
    BY <1>1, <1>3, <1>4 DEF DomlyTypes
  <1> QED
    BY <1>7, <1>8, <1>9 DEF DomlyInv

\* An element is added to the list of its parent.
LEMMA AddElementKeeps ==
    ASSUME DomlyInv, AddElement
    PROVE  DomlyInv'
  <1>1. /\ DomlyTypes /\ AtNode /\ phase = "return" /\ (Len(at) = 1 \/ ~err) /\ AppendTo(Front(at), ListOf(at))
        /\ at' = Front(at) /\ phase' = "kids" /\ next' = Last(at) + 1
        /\ UNCHANGED <<dom, attrs, wrappers, err>>
    BY DEF DomlyInv, AddElement
  <1>2. PICK p \in DOMAIN dom, k \in Nat, n \in Nat, c \in DOMAIN dom : ReturnTo(p, k, n, c)
    BY <1>1, Returning
  <1>3. /\ c = at /\ p = Front(at) /\ k = Last(at) /\ k = n + 1 /\ c = Append(p, k)
        /\ p \in Seq(Nat) /\ c \in Seq(Nat) /\ Len(c) = Len(p) + 1 /\ c # p
        /\ k \in 1..dom[p].kids /\ dom[p].kids \in Nat /\ dom[c].type = "element"
        /\ Len(lists[p]) = 1 /\ lists[p] # <<>> /\ KidsRead(p, n) /\ lists[c] # <<>>
        /\ p # <<>> => dom[p].type = "element"
    BY <1>2 DEF ReturnTo
  <1>4. IsFragment(dom) /\ lists[c] \in Seq(Seq(Items))
    BY <1>1 DEF DomlyTypes
  <1>5. ListOf(c) \in Items
    <2>1. Len(lists[c]) \in Nat
      BY <1>4
    <2> QED
      BY <1>3, <2>1, ItemKinds DEF ListOf
  <1>6. PICK item \in Items : item = ListOf(c)
    BY <1>5
  <1>7. AppendTo(p, item)
    BY <1>1, <1>3, <1>6
  <1>8. /\ lists' \in [DOMAIN dom -> Seq(Seq(Items))] /\ lists'[p] # <<>>
        /\ Len(lists'[p]) = Len(lists[p]) /\ lists'[p][1] = Append(lists[p][1], item)
        /\ lists[p][1] \in Seq(Items)
        /\ \A x \in DOMAIN dom : x # p => lists'[x] = lists[x]
    BY <1>1, <1>3, <1>7, AppendsTo
  <1>9. Touches(p) /\ wrappers'[p] = wrappers[p]
    BY <1>1, <1>8 DEF Touches
  <1>10. ItemOf(item, c) /\ k \in KidsIn(dom, p)
    BY <1>3, <1>6 DEF ItemOf, KidsIn
  <1>11. IF err THEN ~Clean(dom, c) ELSE Finished(c) /\ Clean(dom, c)
    BY <1>1, <1>3 DEF AtNode, Finished
  <1>12. p = <<>> \/ ~err
    <2>1. Len(at) = 1 => p = <<>>
      BY <1>3, EmptySeq
    <2> QED
      BY <1>1, <2>1
  <1>13. KidsRead(p, k)'
    BY <1>1, <1>3, <1>8, <1>9, <1>10, <1>11, <1>12, KidAdded
  <1>14. p = <<>> => (LastClean(k) <=> Clean(dom, c))
    <2> SUFFICES ASSUME p = <<>> PROVE LastClean(k) <=> Clean(dom, c)
      OBVIOUS
    <2>1. <<k>> = c
      BY <1>3
    <2>2. k \in Elements(dom)
      BY <1>3, <2>1 DEF Elements
    <2>3. ASSUME NEW i \in Elements(dom)
          PROVE  i <= k /\ (\A j \in Elements(dom) : j <= k => j <= i) <=> i = k
      <3>1. \A j \in Elements(dom) : j \in Nat
        BY <1>4, Fragment DEF Elements
      <3>2. i \in Nat /\ k \in Nat
        BY <2>2, <3>1
      <3>3. CASE i = k
        BY <3>2, <3>3
      <3>4. CASE i # k
        <4>1. i <= k => ~(k <= i)
          BY <3>2, <3>4
        <4>2. k <= k
          BY <3>2
        <4> QED
          BY <2>2, <3>4, <4>1, <4>2, Zenon
      <3> QED
        BY <3>3, <3>4
    <2> QED
      BY <2>1, <2>2, <2>3, Zenon DEF LastClean
  <1>15. AtNode'
    <2>1. /\ at' = p /\ next' - 1 = k /\ next' \in 1..dom[p].kids + 1 /\ phase' = "kids" /\ dom' = dom
          /\ Len(lists'[p]) = 1 /\ err' = err
      BY <1>1, <1>3, <1>8, SMTT(30)
    <2>2. LastClean(k)' <=> LastClean(k)
      BY <1>1 DEF LastClean, Elements, Clean
    <2>3. p = <<>> => (err' <=> ~LastClean(k)')
      BY <1>11, <1>14, <2>1, <2>2
    <2> QED
      BY <1>13, <2>1, <2>3 DEF AtNode
  <1>16. Around' /\ Over'
    BY <1>1, <1>2, <1>3, <1>9, StepOut
  <1>17. DomlyTypes'
    <2>1. next' \in Nat /\ at' = p
      BY <1>1, <1>3
    <2> QED
      BY <1>1, <1>3, <1>8, <2>1 DEF DomlyTypes
  <1> QED
    BY <1>15, <1>16, <1>17 DEF DomlyInv

\* GenDomly begins.
LEMMA GenDomlyKeeps ==
    ASSUME NEW frag, IsFragment(frag), GenDomly(frag)
    PROVE  DomlyInv'
  <1>1. /\ dom' = frag /\ at' = <<>> /\ phase' = "kids" /\ next' = 1 /\ attrs' = {}
        /\ wrappers' = [p \in DOMAIN frag |-> <<>>]
        /\ lists' = [p \in DOMAIN frag |-> IF p = <<>> THEN <<<<>>>> ELSE <<>>]
        /\ err' = FALSE
    BY DEF GenDomly
  <1>2. /\ <<>> \in DOMAIN frag /\ frag[<<>>].kids \in Nat
    BY Fragment DEF IsFragment
  <1>3. lists'[<<>>] = <<<<>>>> /\ \A q \in DOMAIN frag : q # <<>> => lists'[q] = <<>>
    BY <1>1, <1>2
  <1>4. Len(<<<<>>>>) = 1 /\ <<<<>>>>[1] = <<>> /\ <<<<>>>> # <<>> /\ Len(<<>>) = 0
    OBVIOUS
  <1>5. DomlyTypes'
    <2>1. wrappers' \in [DOMAIN frag -> Seq(Wrappers)]
      BY <1>1
    <2>2. lists' \in [DOMAIN frag -> Seq(Seq(Items))]
      <3>1. <<<<>>>> \in Seq(Seq(Items)) /\ <<>> \in Seq(Seq(Items))
        OBVIOUS
      <3> QED
        BY <1>1, <3>1
    <2> QED
      BY <1>1, <1>2, <2>1, <2>2 DEF DomlyTypes
  <1>6. KidsRead(<<>>, 0)'
    <2>1. UpTo(KidsIn(frag, <<>>), 0) = 0 /\ \A k \in KidsIn(frag, <<>>) : ~(k <= 0)
      <3>1. KidsIn(frag, <<>>) \subseteq Nat \ {0}
        BY <1>2, KidsCount
      <3> QED
        BY <3>1, CountingNone
    <2>2. ItemsRead(<<>>, 0)'
      BY <1>1, <1>3, <1>4, <2>1 DEF ItemsRead, HeadLen
    <2>3. 1..0 = {}
      OBVIOUS
    <2> QED
      BY <1>3, <1>4, <2>2, <2>3 DEF KidsRead
  <1>7. AtNode'
    <2>1. \A k \in Elements(frag) : ~(k <= 0)
      BY <1>2 DEF Elements
    <2>2. LastClean(0)'
      BY <1>1, <2>1 DEF LastClean
    <2>3. next' - 1 = 0 /\ next' \in 1..dom'[at'].kids + 1
      BY <1>1, <1>2
    <2> QED
      BY <1>1, <1>3, <1>4, <1>6, <2>2, <2>3 DEF AtNode
  <1>8. Around'
    <2>1. 0..Len(at') - 1 = {}
      BY <1>1
    <2> QED
      BY <2>1 DEF Around
  <1>9. Over'
    BY <1>1, <1>3, Fragment DEF Over
  <1> QED
    BY <1>5, <1>7, <1>8, <1>9 DEF DomlyInv

\* Each step of GenDomly keeps the invariant.
LEMMA DomlyKeeps ==
    ASSUME DomlyInv, DomlyNext
    PROVE  DomlyInv'
  <1>1. CASE phase = "attrs" /\ next <= Len(dom[at].attrs) /\ AtAttribute(dom[at].attrs[next])
    <2>1. PICK attr : attr = dom[at].attrs[next]
      OBVIOUS
    <2>2. AttributeFails(attr) \/ AddWrapper(attr) \/ AddAttribute(attr)
      BY <1>1, <2>1 DEF AtAttribute
    <2> QED
      BY <2>2, AttributeFailsKeeps, AddWrapperKeeps, AddAttributeKeeps
  <1>2. CASE AtKid
    BY <1>2, EnterElementKeeps, SkipKidKeeps, AddTextKeeps, TextFailsKeeps DEF AtKid
  <1>3. CASE EndAttributes \/ EndKids
    BY <1>3, EndAttributesKeeps, EndKidsKeeps
  <1>4. CASE Wrap \/ ReturnNode \/ AddElement \/ ElementFails
    BY <1>4, WrapKeeps, ReturnNodeKeeps, AddElementKeeps, ElementFailsKeeps
  <1> QED
    BY <1>1, <1>2, <1>3, <1>4 DEF DomlyNext

\* No step leaves GenDomly or the fragment.
LEMMA DomlyGoesOn ==
    ASSUME DomlyNext
    PROVE  dom' = dom /\ phase' # "idle"
  BY DEF DomlyNext, AtAttribute, AtKid, AttributeFails, AddWrapper, AddAttribute, Attribute, EndAttributes,
         EnterElement, SkipKid, AddText, TextFails, Kid, EndKids, Wrap, ReturnNode, AddElement, ElementFails

\* Nor does a step of others disturb it.
LEMMA DomlyStays ==
    ASSUME DomlyInv, UNCHANGED domlyVars
    PROVE  DomlyInv'
  <1>1. UNCHANGED <<dom, at, phase, next, attrs, wrappers, lists, err>>
    BY DEF domlyVars
  <1>2. CASE phase = "idle"
    BY <1>1, <1>2 DEF DomlyInv
  <1>3. CASE phase # "idle"
    <2>1. DomlyTypes /\ AtNode
      BY <1>3 DEF DomlyInv
    <2>2. /\ at \in DOMAIN dom /\ at \in Seq(Nat) /\ IsFragment(dom) /\ dom[at].kids \in Nat /\ next \in Nat
          /\ phase \in {"attrs", "kids", "wrap", "return"}
      BY <2>1, Fragment DEF DomlyTypes
    <2>3. PICK p \in DOMAIN dom : p = at
      BY <2>2
    <2>4. PICK k \in Nat : k = next
      BY <2>2
    <2>5. PICK m \in Nat : m = dom[p].kids
      BY <2>2, <2>3
    <2>6. PICK n : n = k - 1
      OBVIOUS
    <2>7. lists[p] # <<>>
      <3>1. CASE phase = "attrs"
        <4>1. lists[p] = <<<<<<"tag", dom[p].data>>>>>>
          BY <2>1, <2>3, <3>1 DEF AtNode
        <4> QED
          BY <4>1
      <3>2. CASE phase = "kids"
        <4>1. KidsRead(at, next - 1)
          BY <2>1, <3>2 DEF AtNode
        <4> QED
          BY <2>3, <4>1 DEF KidsRead
      <3>3. CASE phase = "wrap"
        <4>1. KidsRead(at, dom[at].kids)
          BY <2>1, <3>3 DEF AtNode
        <4> QED
          BY <2>3, <4>1 DEF KidsRead
      <3>4. CASE phase = "return"
        BY <2>1, <2>3, <3>4 DEF AtNode
      <3> QED
        BY <2>2, <3>1, <3>2, <3>3, <3>4
    <2>8. Touches(p) /\ Touches(at)
      BY <1>1, <2>2, <2>3, <2>7 DEF Touches
    <2>9. \A i \in Nat : Append(p, i) # p
      BY <2>2, <2>3, PlaceOfKid, PrefixOfKid
    <2>10. ASSUME NEW j \in Nat, j <= m, KidsRead(p, j) PROVE KidsRead(p, j)'
      <3>1. \A i \in 1..j : Append(p, i) # p
        BY <2>9
      <3> QED
        BY <1>1, <2>2, <2>5, <2>7, <2>8, <2>10, <3>1, KidsStay
    <2>11. ASSUME NEW j, Wrapped(p, j) PROVE Wrapped(p, j)'
      BY <1>1, <2>11 DEF Wrapped, WrappersOf
    <2>12. ASSUME Whole(p) PROVE Whole(p)'
      <3>1. ListsHead(dom, lists, p)' /\ Wrapped(p, 0)'
        BY <1>1, <2>11, <2>12, HeadStays DEF Whole
      <3>2. ItemsRead(p, m)
        BY <2>5, <2>12 DEF Whole
      <3>3. \A i \in 1..m : Append(p, i) # p
        BY <2>9
      <3>4. ItemsRead(p, m)'
        BY <1>1, <2>2, <2>5, <2>8, <3>2, <3>3, ItemsStay
      <3> QED
        BY <1>1, <2>5, <3>1, <3>4 DEF Whole
    <2>13. ASSUME AttrsRead(p, n) PROVE AttrsRead(p, n)'
      BY <1>1, <2>13 DEF AttrsRead, WrappersOf
    <2>14. at' = p /\ next' = k /\ next' - 1 = n /\ phase' = phase /\ dom' = dom /\ lists' = lists /\ err' = err
      BY <1>1, <2>3, <2>4, <2>6
    <2>15. AtNode'
      <3>1. CASE phase = "attrs"
        <4>1. /\ k \in 1..Len(dom[p].attrs) + 1 /\ AttrsRead(p, n) /\ lists[p] = <<<<<<"tag", dom[p].data>>>>>>
              /\ attrs = {AttrOf(dom[p].data, dom[p].attrs[i]) : i \in (1..n) \ WrappersOf(dom, p)}
          BY <2>1, <2>3, <2>4, <2>6, <3>1 DEF AtNode
        <4>2. AttrsRead(p, n)'
          BY <2>13, <4>1
        <4>3. attrs' = {AttrOf(dom'[p].data, dom'[p].attrs[i]) : i \in (1..n) \ WrappersOf(dom', p)}
          BY <1>1, <4>1
        <4> QED
          BY <1>1, <2>14, <3>1, <4>1, <4>2, <4>3 DEF AtNode
      <3>2. CASE phase = "kids"
        <4>1. k \in 1..m + 1 /\ Len(lists[p]) = 1 /\ KidsRead(p, n) /\ (p = <<>> => (err <=> ~LastClean(n)))
          BY <2>1, <2>3, <2>4, <2>5, <2>6, <3>2 DEF AtNode
        <4>2. n \in Nat /\ n <= m
          BY <2>6, <4>1
        <4>3. KidsRead(p, n)'
          BY <2>10, <4>1, <4>2
        <4>4. LastClean(n)' <=> LastClean(n)
          BY <1>1 DEF LastClean, Elements, Clean
        <4> QED
          BY <2>5, <2>14, <3>2, <4>1, <4>3, <4>4 DEF AtNode
      <3>3. CASE phase = "wrap"
        <4>1. k <= Cardinality(WrappersOf(dom, p)) /\ KidsRead(p, m) /\ Wrapped(p, k)
          BY <2>1, <2>3, <2>4, <2>5, <3>3 DEF AtNode
        <4>2. m <= m
          OBVIOUS
        <4>3. KidsRead(p, m)' /\ Wrapped(p, k)'
          BY <2>10, <2>11, <4>1, <4>2
        <4> QED
          BY <2>5, <2>14, <3>3, <4>1, <4>3 DEF AtNode
      <3>4. CASE phase = "return"
        <4>1. lists[p] # <<>> /\ IF err THEN ~Clean(dom, p) ELSE Finished(p) /\ Whole(p)
          BY <2>1, <2>3, <3>4 DEF AtNode
        <4>2. ~err => Finished(p)' /\ Whole(p)'
          BY <2>8, <2>12, <4>1, FinishedStays
        <4> QED
          BY <2>14, <3>4, <4>1, <4>2 DEF AtNode
      <3> QED
        BY <2>2, <3>1, <3>2, <3>3, <3>4
    <2> QED
      BY <1>1, <1>3, <2>1, <2>2, <2>8, <2>15, KeptInPlace DEF DomlyTypes
  <1> QED
    BY <1>2, <1>3

\* The place of a node below the fragment begins with that of a child of it.
LEMMA TopPlace ==
    ASSUME NEW frag, IsFragment(frag), NEW p \in DOMAIN frag, p # <<>>
    PROVE  /\ p[1] \in 1..frag[<<>>].kids /\ <<p[1]>> \in DOMAIN frag /\ <<p[1]>> \in Seq(Nat)
           /\ <<p[1]>> = Append(<<>>, p[1]) /\ IsPrefix(<<p[1]>>, p)
           /\ frag[p].type = "element" => frag[<<p[1]>>].type = "element"
  <1>1. p \in Seq(Nat) /\ Len(p) \in Nat /\ 1 \in 1..Len(p) /\ p[1] \in Nat
    BY Fragment, EmptySeq
  <1>2. SubSeq(p, 1, 1 - 1) = <<>>
    BY <1>1
  <1>3. p[1] \in 1..frag[<<>>].kids /\ <<>> \in DOMAIN frag
    BY <1>1, <1>2 DEF IsFragment
  <1>4. PICK k \in Nat : k = p[1]
    BY <1>1
  <1>5. <<k>> \in Seq(Nat) /\ Append(<<>>, k) = <<k>> /\ Len(<<k>>) = 1 /\ <<k>>[1] = k
    <2>1. <<k>> \in Seq(Nat) /\ Len(<<k>>) = 1 /\ <<k>>[1] = k
      OBVIOUS
    <2>2. PICK e : e = <<>> /\ e \in Seq(Nat)
      <3>1. <<>> \in Seq(Nat)
        OBVIOUS
      <3> QED
        BY <3>1, Zenon
    <2>3. Append(e, k) \in Seq(Nat) /\ Len(Append(e, k)) = 1 /\ Append(e, k)[1] = k
      BY <2>2
    <2>4. PICK s \in Seq(Nat) : s = Append(e, k)
      BY <2>3
    <2>5. PICK u \in Seq(Nat) : u = <<k>>
      BY <2>1
    <2>6. Len(s) = Len(u) /\ \A i \in 1..Len(s) : s[i] = u[i]
      BY <2>1, <2>3, <2>4, <2>5
    <2>7. s = u
      BY <2>6, SeqEqual
    <2>8. Append(e, k) = <<k>>
      BY <2>4, <2>5, <2>7
    <2>9. Append(<<>>, k) = <<k>>
      BY <2>2, <2>8, Zenon
    <2> QED
      BY <2>1, <2>9
  <1>6. <<k>> \in DOMAIN frag
    <2>1. PICK e \in DOMAIN frag : e = <<>>
      BY <1>3, Zenon
    <2>2. k \in 1..frag[e].kids
      BY <1>3, <1>4, <2>1
    <2>3. Append(e, k) \in DOMAIN frag
      BY <2>2, Fragment
    <2> QED
      BY <1>5, <2>1, <2>3
  <1>7. IsPrefix(<<k>>, p)
    <2>1. Len(<<k>>) <= Len(p) /\ \A i \in 1..Len(<<k>>) : <<k>>[i] = p[i]
      BY <1>1, <1>4, <1>5
    <2> QED
      BY <1>1, <1>5, <2>1, PrefixIs
  <1>8. frag[p].type = "element" => frag[<<k>>].type = "element"
    <2> SUFFICES ASSUME frag[p].type = "element", frag[<<k>>].type # "element" PROVE FALSE
      OBVIOUS
    <2>1. PICK c \in DOMAIN frag : c = <<k>>
      BY <1>6
    <2>2. c # <<>>
      BY <1>5, <2>1
    <2>3. frag[c].kids = 0
      BY <2>1, <2>2, Fragment
    <2>4. IsPrefix(c, p) /\ 1..frag[c].kids = {}
      BY <1>7, <2>1, <2>3
    <2>5. p = c
      BY <2>4, FragmentBelow
    <2> QED
      BY <2>1, <2>5
  <1> QED
    BY <1>1, <1>3, <1>4, <1>5, <1>6, <1>7, <1>8

\* The items of a list are those for the children.
LEMMA ItemsTell ==
    ASSUME IsFragment(dom), NEW p \in DOMAIN dom, ItemsRead(p, dom[p].kids)
    PROVE  ListsKids(dom, lists, p, HeadLen(p))
  <1>1. PICK m \in Nat : m = dom[p].kids
    BY KidsCount
  <1>2. PICK S : S = KidsIn(dom, p)
    OBVIOUS
  <1>3. S \subseteq 1..m
    BY <1>1, <1>2, KidsCount
  <1>4. PICK x : x = UpTo(S, m)
    OBVIOUS
  <1>5. UpTo(S, m) = Cardinality(S)
    BY <1>3, <1>4, Counting
  <1>6. \A k \in S : k <= m
    BY <1>3
  <1>7. /\ Len(lists[p][1]) = HeadLen(p) + Cardinality(S)
        /\ \A k \in S : ItemOf(lists[p][1][HeadLen(p) + UpTo(S, k)], Append(p, k))
    BY <1>1, <1>2, <1>5, <1>6 DEF ItemsRead
  <1> QED
    BY <1>2, <1>7 DEF ListsKids, ItemOf, ListOf

\* When GenDomly comes to the end, it returns an error just when the last
\* element has one, and the lists are what they are to be.
LEMMA GeneratedRight ==
    ASSUME DomlyInv, Generated
    PROVE  (~err <=> EndsClean(dom)) /\ Faithful(dom, lists)
  <1>1. /\ DomlyTypes /\ AtNode /\ Over /\ IsFragment(dom) /\ phase = "kids" /\ at = <<>> /\ next > dom[<<>>].kids
    BY DEF DomlyInv, Generated, DomlyTypes
  <1>2. <<>> \in DOMAIN dom /\ dom[<<>>].kids \in Nat /\ next \in Nat
    BY <1>1, Fragment DEF DomlyTypes
  <1>3. PICK m \in Nat : m = dom[<<>>].kids
    BY <1>2
  <1>4. next - 1 = m
    BY <1>1, <1>2, <1>3 DEF AtNode
  <1>5. KidsRead(<<>>, m) /\ (err <=> ~LastClean(m)) /\ err \in BOOLEAN
    BY <1>1, <1>4 DEF AtNode, DomlyTypes
  <1>6. LastClean(m) <=> EndsClean(dom)
    <2>1. \A k \in Elements(dom) : k <= m
      BY <1>3 DEF Elements
    <2> QED
      BY <2>1, Zenon DEF LastClean, EndsClean
  <1>7. ListsKids(dom, lists, <<>>, 0)
    <2>1. ItemsRead(<<>>, dom[<<>>].kids)
      BY <1>3, <1>5 DEF KidsRead
    <2>2. HeadLen(<<>>) = 0
      BY DEF HeadLen
    <2> QED
      BY <1>1, <1>2, <2>1, <2>2, ItemsTell
  <1>8. ASSUME NEW p \in DOMAIN dom, dom[p].type = "element", Clean(dom, <<p[1]>>)
        PROVE  ListsHead(dom, lists, p) /\ ListsKids(dom, lists, p, HeadOf(dom, p)) /\ ListsWrappers(dom, lists, p)
    <2>1. p # <<>> /\ p \in Seq(Nat)
      BY <1>1, <1>8, Fragment
    <2>2. PICK k : k = p[1]
      OBVIOUS
    <2>3. /\ k \in 1..dom[<<>>].kids /\ <<k>> \in DOMAIN dom /\ <<k>> \in Seq(Nat) /\ <<k>> = Append(<<>>, k)
          /\ IsPrefix(<<k>>, p) /\ dom[<<k>>].type = "element" /\ Clean(dom, <<k>>)
      BY <1>1, <1>8, <2>1, <2>2, TopPlace
    <2>4. Finished(<<k>>)
      BY <1>3, <1>5, <2>3 DEF KidsRead
    <2>5. lists[p] # <<>>
      BY <1>8, <2>3, <2>4 DEF Finished
    <2>6. ~IsPrefix(p, at)
      <3>1. at \in Seq(Nat) /\ Len(at) = 0 /\ Len(p) \in Nat
        BY <1>1, <2>1
      <3>2. Len(p) # 0
        BY <2>1, EmptySeq
      <3>3. ~(Len(p) <= Len(at))
        BY <3>1, <3>2
      <3> QED
        BY <2>1, <3>1, <3>3, PrefixIs
    <2>7. Clean(dom, p)
      <3>1. \A q \in DOMAIN dom : IsPrefix(p, q) => IsPrefix(<<k>>, q)
        <4> SUFFICES ASSUME NEW q \in DOMAIN dom, IsPrefix(p, q) PROVE IsPrefix(<<k>>, q)
          OBVIOUS
        <4>1. PICK c \in Seq(Nat) : c = <<k>>
          BY <2>3
        <4>2. q \in Seq(Nat)
          BY <1>1, Fragment
        <4>3. Len(p) <= Len(q) /\ \A i \in 1..Len(p) : p[i] = q[i]
          BY <2>1, <4>2, PrefixIs
        <4>4. Len(c) <= Len(p) /\ \A i \in 1..Len(c) : c[i] = p[i]
          BY <2>1, <2>3, <4>1, PrefixIs
        <4>5. Len(c) <= Len(q) /\ \A i \in 1..Len(c) : c[i] = q[i]
          BY <2>1, <4>1, <4>2, <4>3, <4>4
        <4> QED
          BY <4>1, <4>2, <4>5, PrefixIs
      <3> QED
        BY <2>3, <3>1 DEF Clean
    <2>8. Whole(p)
      BY <1>1, <1>8, <2>5, <2>6, <2>7 DEF Over
    <2>9. ListsKids(dom, lists, p, HeadOf(dom, p))
      <3>1. HeadLen(p) = HeadOf(dom, p)
        BY <2>1 DEF HeadLen
      <3> QED
        BY <1>1, <2>8, <3>1, ItemsTell DEF Whole
    <2>10. ListsWrappers(dom, lists, p)
      <3>1. PICK S : S = WrappersOf(dom, p)
        OBVIOUS
      <3>2. PICK n \in Nat : n = Len(dom[p].attrs)
        BY <1>1, KidsCount
      <3>3. S \subseteq 1..n
        BY <1>1, <3>1, <3>2, KidsCount
      <3>4. PICK x : x = UpTo(S, n)
        OBVIOUS
      <3>5. Cardinality(S) \in Nat /\ (\A i \in Nat : UpTo(S, i) \in Nat) /\ \A i \in S : 1 <= UpTo(S, i)
        BY <3>3, <3>4, Counting
      <3>6. \A i \in S : UpTo(S, i) > 0
        BY <3>3, <3>5
      <3>7. Cardinality(S) + 1 - 0 = Cardinality(S) + 1
        BY <3>5
      <3>8. /\ Len(lists[p]) = Cardinality(S) + 1
            /\ \A i \in S : LET m0 == Cardinality(S) + 1 - UpTo(S, i)
                            IN  lists[p][m0 + 1] = <<Wrapper(dom[p].data, dom[p].attrs[i]), <<"node", p, m0>>>>
        BY <2>8, <3>1, <3>6, <3>7 DEF Whole, Wrapped
      <3> QED
        BY <3>1, <3>8 DEF ListsWrappers
    <2> QED
      BY <2>8, <2>9, <2>10 DEF Whole
  <1> QED
    BY <1>5, <1>6, <1>7, <1>8 DEF Faithful

----------------------------------------------------------------------------
(* The templates and what is exported of them.                             *)

Contained == Fragments \cup {Nothing}
Files == [exists : BOOLEAN, time : Nat, frag : Contained]

H2DTypes ==
    /\ templates \in [Names -> Files]
    /\ \A n \in HtmlNames : templates[n].exists => IsFragment(templates[n].frag)
    /\ \E Exported : coffee \in [exists : BOOLEAN, time : Nat, exports : [Names -> Exported]]
    /\ now \in Nat /\ disturbed \in BOOLEAN /\ todo \subseteq Names
    /\ h2d \in {"build", "fresh", "create", "list", "compile"}

\* No file is of a later time than the last change.
Dated == coffee.time <= now /\ \A n \in Names : templates[n].time <= now

\* The fragment in GenDomly is that of a template still to compile.
Reading ==
    /\ reading = {} <=> phase = "idle"
    /\ reading # {} =>
        /\ h2d = "compile"
        /\ \E n \in todo \cap HtmlNames : reading = {n} /\ (~disturbed => dom = templates[n].frag)
    /\ ~disturbed => DomlyInv

\* Nothing is exported yet.
Emptied == coffee.exists /\ \A n \in HtmlNames : coffee.exports[n] = NoData

\* What has been compiled is exported, and nothing else.
Compiled ==
    /\ coffee.exists /\ todo \subseteq Listing
    /\ \A n \in HtmlNames : IF n \in todo THEN coffee.exports[n] = NoData ELSE Current(n)

\* What is not current any more is newer than the file.
Kept(n) == Current(n) \/ (templates[n].exists /\ templates[n].time > coffee.time)
KeptAll == coffee.exists /\ \A n \in HtmlNames : Kept(n)

Exporting ==
    ~disturbed =>
        /\ h2d = "list" => Emptied
        /\ h2d = "compile" => Compiled
        /\ h2d = "build" => KeptAll
        /\ h2d = "fresh" => coffee.exists /\ \A n \in HtmlNames : Current(n)

H2DInv == H2DTypes /\ Dated /\ Reading /\ Exporting

\* What is current stays so while neither the template nor its export changes.
LEMMA CurrentStays ==
    ASSUME NEW n, templates'[n] = templates[n], coffee'.exports[n] = coffee.exports[n]
    PROVE  Current(n)' <=> Current(n)
  BY DEF Current

\* A step outside GenDomly leaves what is read as it is.
LEMMA ReadingStays ==
    ASSUME Reading, UNCHANGED domlyVars, reading' = reading, disturbed => disturbed',
           reading = {} \/ (h2d' = h2d /\ todo' = todo /\ (~disturbed' => templates' = templates))
    PROVE  Reading'
  <1>1. dom' = dom /\ phase' = phase
    BY DEF domlyVars
  <1>2. ~disturbed' => ~disturbed /\ DomlyInv'
    BY DomlyStays DEF Reading
  <1>3. CASE reading = {}
    BY <1>1, <1>2, <1>3 DEF Reading
  <1>4. CASE reading # {}
    <2>1. PICK n \in todo \cap HtmlNames : reading = {n} /\ (~disturbed => dom = templates[n].frag)
      BY <1>4 DEF Reading
    <2>2. h2d' = "compile" /\ n \in todo' \cap HtmlNames /\ (~disturbed' => dom' = templates'[n].frag)
      BY <1>1, <1>2, <1>4, <2>1 DEF Reading
    <2> QED
      BY <1>1, <1>2, <2>1, <2>2 DEF Reading
  <1> QED
    BY <1>3, <1>4

\* When it is left there is nothing to know of GenDomly.
LEMMA ForgetReads ==
    ASSUME Forget, reading' = {}
    PROVE  Reading'
  BY DEF Forget, Reading, DomlyInv

\* A file that is written is one of the files templates may be.
LEMMA FileIsTyped ==
    /\ NoFile \in Files
    /\ \A name \in Names, time \in Nat : \A frag \in Contents(name) : File(frag, time) \in Files
    /\ \A name \in HtmlNames, time \in Nat : \A frag \in Contents(name) : IsFragment(File(frag, time).frag)
  BY FragmentAssumption DEF NoFile, File, Files, Contents, Contained

\* At the start nothing has been generated.
LEMMA H2DStart == H2DInit => H2DInv
  <1> SUFFICES ASSUME H2DInit PROVE H2DInv
    OBVIOUS
  <1> USE EditAssumption
  <1>1. /\ templates \in [Names -> {NoFile} \cup {File(frag, 0) : frag \in Fragments \cup {Nothing}}]
        /\ \A n \in Names : templates[n].exists => templates[n].frag \in Contents(n)
        /\ coffee = NoCoffee /\ h2d = "build" /\ todo = {} /\ reading = {} /\ now = 0 /\ disturbed = TRUE
        /\ phase = "idle"
    BY DEF H2DInit, DomlyInit
  <1>2. templates \in [Names -> Files] /\ \A n \in Names : templates[n].time = 0
    <2> DEFINE Starting == {NoFile} \cup {File(frag, 0) : frag \in Contained}
    <2>1. templates \in [Names -> Starting]
      BY <1>1 DEF Contained
    <2>2. ASSUME NEW f \in Starting PROVE f \in Files /\ f.time = 0
      <3>1. CASE f = NoFile
        BY <3>1 DEF NoFile, Contained, Files
      <3>2. ASSUME NEW frag \in Contained, f = File(frag, 0)
            PROVE  f \in Files /\ f.time = 0
        BY <3>2 DEF File, Files
      <3> QED
        BY <3>1, <3>2
    <2> HIDE DEF Starting
    <2> QED
      BY <2>1, <2>2
  <1>3. \A n \in HtmlNames : templates[n].exists => IsFragment(templates[n].frag)
    BY <1>1, FragmentAssumption DEF Contents
  <1>4. \E Exported : coffee \in [exists : BOOLEAN, time : Nat, exports : [Names -> Exported]]
    <2>1. [n \in Names |-> NoData] \in [Names -> {NoData}]
      OBVIOUS
    <2>2. coffee \in [exists : BOOLEAN, time : Nat, exports : [Names -> {NoData}]]
      BY <1>1, <2>1 DEF NoCoffee
    <2> QED
      BY <2>2
  <1>5. H2DTypes
    BY <1>1, <1>2, <1>3, <1>4 DEF H2DTypes
  <1>6. Dated /\ Reading /\ Exporting
    BY <1>1, <1>2 DEF NoCoffee, Dated, Reading, Exporting
  <1> QED
    BY <1>5, <1>6 DEF H2DInv

\* The build leaves the file alone only when no template is newer.
LEMMA DecideExports == H2DInv /\ Decide => H2DInv'
  <1> SUFFICES ASSUME H2DInv, Decide PROVE H2DInv'
    OBVIOUS
  <1> USE EditAssumption
  <1>1. h2d = "build" /\ UNCHANGED <<templates, coffee, todo, now, disturbed, reading, domlyVars>>
        /\ h2d' = IF Stale THEN "create" ELSE "fresh"
    BY DEF Decide
  <1>2. H2DTypes' /\ Dated'
    BY <1>1 DEF H2DInv, H2DTypes, Dated
  <1>3. Reading'
    <2>1. reading = {}
      BY <1>1 DEF H2DInv, Reading
    <2> QED
      BY <1>1, <2>1, ReadingStays DEF H2DInv, H2DTypes
  <1>4. Exporting'
    <2> SUFFICES ASSUME ~disturbed', h2d' = "fresh"
                 PROVE  coffee'.exists /\ \A n \in HtmlNames : Current(n)'
      BY <1>1 DEF Exporting
    <2>1. ~disturbed /\ ~Stale
      BY <1>1
    <2>2. KeptAll
      BY <1>1, <2>1 DEF H2DInv, Exporting
    <2>3. ASSUME NEW n \in HtmlNames PROVE Current(n)'
      <3>1. n \in Names
        OBVIOUS
      <3>2. Kept(n)
        BY <2>2 DEF KeptAll
      <3>3. templates[n].exists => ~(templates[n].time > coffee.time)
        BY <3>1, <2>1 DEF Stale, Listing
      <3>4. Current(n)
        BY <3>2, <3>3 DEF Kept
      <3> QED
        BY <1>1, <3>4, CurrentStays
    <2> QED
      BY <1>1, <2>2, <2>3 DEF KeptAll
  <1> QED
    BY <1>2, <1>3, <1>4 DEF H2DInv

\* html2domly starts with a file that exports nothing.
LEMMA CreateExports == H2DInv /\ CreateFile => H2DInv'
  <1> SUFFICES ASSUME H2DInv, CreateFile PROVE H2DInv'
    OBVIOUS
  <1> USE EditAssumption
  <1>1. /\ h2d = "create" /\ h2d' = "list" /\ disturbed' = FALSE
        /\ UNCHANGED <<templates, todo, now, reading, domlyVars>>
    BY DEF CreateFile
  <1>2. coffee' = [exists |-> TRUE, time |-> now, exports |-> [n \in Names |-> NoData]]
    BY DEF CreateFile, NoCoffee
  <1>3. H2DTypes' /\ Dated'
    <2>1. now \in Nat
      BY DEF H2DInv, H2DTypes
    <2>2. [n \in Names |-> NoData] \in [Names -> {NoData}]
      OBVIOUS
    <2>3. coffee' \in [exists : BOOLEAN, time : Nat, exports : [Names -> {NoData}]]
      BY <1>2, <2>1, <2>2
    <2>4. H2DTypes'
      BY <1>1, <2>3 DEF H2DInv, H2DTypes
    <2>5. coffee'.time = now
      BY <1>2
    <2> QED
      BY <1>1, <2>1, <2>4, <2>5 DEF H2DInv, Dated
  <1>4. Reading'
    <2>1. reading = {} /\ phase = "idle" /\ phase' = phase
      BY <1>1 DEF H2DInv, Reading, domlyVars
    <2> QED
      BY <1>1, <2>1 DEF Reading, DomlyInv
  <1>5. Emptied'
    BY <1>2 DEF Emptied
  <1>6. Exporting'
    BY <1>1, <1>5 DEF Exporting
  <1> QED
    BY <1>3, <1>4, <1>6 DEF H2DInv

\* What is not listed is not there to be exported.
LEMMA ListExports == H2DInv /\ List => H2DInv'
  <1> SUFFICES ASSUME H2DInv, List PROVE H2DInv'
    OBVIOUS
  <1> USE EditAssumption
  <1>1. /\ h2d = "list" /\ todo' = Listing /\ h2d' = "compile"
        /\ UNCHANGED <<templates, coffee, now, disturbed, reading, domlyVars>>
    BY DEF List
  <1>2. H2DTypes' /\ Dated'
    BY <1>1 DEF H2DInv, H2DTypes, Dated, Listing
  <1>3. Reading'
    <2>1. reading = {}
      BY <1>1 DEF H2DInv, Reading
    <2> QED
      BY <1>1, <2>1, ReadingStays DEF H2DInv, H2DTypes
  <1>4. ASSUME ~disturbed' PROVE Compiled'
    <2>1. Emptied
      BY <1>1, <1>4 DEF H2DInv, Exporting
    <2>2. ASSUME NEW n \in HtmlNames
          PROVE  IF n \in todo' THEN coffee'.exports[n] = NoData ELSE Current(n)'
      <3>1. coffee'.exports[n] = NoData /\ n \in Names
        BY <1>1, <2>1 DEF Emptied
      <3>2. CASE n \in todo'
        BY <3>1, <3>2
      <3>3. CASE n \notin todo'
        <4>1. ~templates'[n].exists
          BY <1>1, <3>1, <3>3 DEF Listing
        <4>2. coffee'.exports[n].err
          BY <3>1 DEF NoData
        <4> QED
          BY <3>3, <4>1, <4>2 DEF Current
      <3> QED
        BY <3>2, <3>3
    <2>3. todo' \subseteq Listing' /\ coffee'.exists
      BY <1>1, <2>1 DEF Listing, Emptied
    <2> QED
      BY <2>2, <2>3 DEF Compiled
  <1>5. Exporting'
    BY <1>1, <1>4 DEF Exporting
  <1> QED
    BY <1>2, <1>3, <1>5 DEF H2DInv

\* A name that is no template's is left out.
LEMMA SkipExports == ASSUME NEW name \in Names PROVE H2DInv /\ SkipName(name) => H2DInv'
  <1> SUFFICES ASSUME H2DInv, SkipName(name) PROVE H2DInv'
    OBVIOUS
  <1> USE EditAssumption
  <1>1. /\ h2d = "compile" /\ reading = {} /\ name \notin HtmlNames /\ todo' = todo \ {name}
        /\ UNCHANGED <<templates, coffee, h2d, now, disturbed, reading, domlyVars>>
    BY DEF SkipName
  <1>2. H2DTypes' /\ Dated'
    BY <1>1 DEF H2DInv, H2DTypes, Dated
  <1>3. Reading'
    BY <1>1, ReadingStays DEF H2DInv
  <1>4. ASSUME ~disturbed' PROVE Compiled'
    <2>1. Compiled
      BY <1>1, <1>4 DEF H2DInv, Exporting
    <2>2. \A n \in HtmlNames : (n \in todo' <=> n \in todo) /\ (Current(n)' <=> Current(n))
      BY <1>1, CurrentStays
    <2> QED
      BY <1>1, <2>1, <2>2 DEF Compiled, Listing
  <1>5. Exporting'
    BY <1>1, <1>4 DEF Exporting
  <1> QED
    BY <1>2, <1>3, <1>5 DEF H2DInv

\* GenDomly begins with the template.
LEMMA ParseExports == ASSUME NEW name \in Names PROVE H2DInv /\ ParseTemplate(name) => H2DInv'
  <1> SUFFICES ASSUME H2DInv, ParseTemplate(name) PROVE H2DInv'
    OBVIOUS
  <1> USE EditAssumption
  <1>1. /\ h2d = "compile" /\ reading = {} /\ name \in todo \cap HtmlNames /\ reading' = {name}
        /\ GenDomly(templates[name].frag) /\ UNCHANGED <<templates, coffee, h2d, todo, now, disturbed>>
    BY DEF ParseTemplate
  <1>2. H2DTypes' /\ Dated'
    BY <1>1 DEF H2DInv, H2DTypes, Dated
  <1>3. ASSUME ~disturbed PROVE Compiled /\ Compiled'
    <2>1. Compiled
      BY <1>1, <1>3 DEF H2DInv, Exporting
    <2>2. \A n \in HtmlNames : Current(n)' <=> Current(n)
      BY <1>1, CurrentStays
    <2> QED
      BY <1>1, <2>1, <2>2 DEF Compiled, Listing
  <1>4. Reading'
    <2>1. dom' = templates[name].frag /\ phase' = "kids"
      BY <1>1 DEF GenDomly
    <2>2. ASSUME ~disturbed' PROVE DomlyInv'
      <3>1. templates[name].exists
        BY <1>1, <1>3, <2>2 DEF Compiled, Listing
      <3>2. PICK frag : frag = templates[name].frag
        OBVIOUS
      <3>3. IsFragment(frag)
        BY <1>1, <3>1, <3>2 DEF H2DInv, H2DTypes
      <3> QED
        BY <1>1, <3>2, <3>3, GenDomlyKeeps
    <2> QED
      BY <1>1, <2>1, <2>2 DEF Reading
  <1>5. Exporting'
    BY <1>1, <1>3 DEF Exporting
  <1> QED
    BY <1>2, <1>4, <1>5 DEF H2DInv

\* GenDomly goes on.
LEMMA WalkExports == H2DInv /\ Walk => H2DInv'
  <1> SUFFICES ASSUME H2DInv, Walk PROVE H2DInv'
    OBVIOUS
  <1> USE EditAssumption
  <1>1. reading # {} /\ DomlyNext /\ UNCHANGED <<templates, coffee, h2d, todo, reading, now, disturbed>>
    BY DEF Walk
  <1>2. H2DTypes' /\ Dated'
    BY <1>1 DEF H2DInv, H2DTypes, Dated
  <1>3. Reading'
    <2>1. dom' = dom /\ phase' # "idle"
      BY <1>1, DomlyGoesOn
    <2>2. PICK n \in todo \cap HtmlNames : reading = {n} /\ (~disturbed => dom = templates[n].frag)
      BY <1>1 DEF H2DInv, Reading
    <2>3. ~disturbed' => DomlyInv'
      BY <1>1, DomlyKeeps DEF H2DInv, Reading
    <2>4. h2d' = "compile" /\ n \in todo' \cap HtmlNames /\ reading' = {n} /\ (~disturbed' => dom' = templates'[n].frag)
      BY <1>1, <2>1, <2>2 DEF H2DInv, Reading
    <2> QED
      BY <2>1, <2>3, <2>4 DEF Reading
  <1>4. ASSUME ~disturbed, h2d = "compile" PROVE Compiled'
    <2>1. Compiled
      BY <1>4 DEF H2DInv, Exporting
    <2>2. \A n \in HtmlNames : Current(n)' <=> Current(n)
      BY <1>1, CurrentStays
    <2> QED
      BY <1>1, <2>1, <2>2 DEF Compiled, Listing
  <1>5. Exporting'
    <2>1. h2d = "compile"
      BY <1>1 DEF H2DInv, Reading
    <2> QED
      BY <1>1, <1>4, <2>1 DEF Exporting
  <1> QED
    BY <1>2, <1>3, <1>5 DEF H2DInv

\* What has been generated is exported, or left out if its last element fails.
LEMMA ExportExports == ASSUME NEW name \in Names PROVE H2DInv /\ Export(name) => H2DInv'
  <1> SUFFICES ASSUME H2DInv, Export(name) PROVE H2DInv'
    OBVIOUS
  <1> USE EditAssumption
  <1> DEFINE r == [err |-> FALSE, data |-> lists]
             new == [coffee EXCEPT !.time = now, !.exports = [@ EXCEPT ![name] = r]]
  <1>1. /\ reading = {name} /\ Generated /\ todo' = todo \ {name} /\ reading' = {} /\ Forget
        /\ coffee' = IF err THEN coffee ELSE new
        /\ UNCHANGED <<templates, h2d, now, disturbed>>
    BY DEF Export
  <1>2. PICK Exported : coffee \in [exists : BOOLEAN, time : Nat, exports : [Names -> Exported]]
    BY DEF H2DInv, H2DTypes
  <1>3. h2d = "compile" /\ name \in todo \cap HtmlNames /\ now \in Nat
        /\ (~disturbed => dom = templates[name].frag /\ DomlyInv)
    <2>1. PICK n \in todo \cap HtmlNames : reading = {n} /\ (~disturbed => dom = templates[n].frag)
      BY <1>1 DEF H2DInv, Reading
    <2>2. n = name
      BY <1>1, <2>1
    <2> QED
      BY <1>1, <2>1, <2>2 DEF H2DInv, H2DTypes, Reading
  <1> DEFINE More == Exported \cup {r}
  <1>4. /\ new \in [exists : BOOLEAN, time : Nat, exports : [Names -> More]]
        /\ new.exists = coffee.exists /\ new.time = now
        /\ \A n \in Names : new.exports[n] = IF n = name THEN r ELSE coffee.exports[n]
    <2>1. r \in More
      OBVIOUS
    <2>2. coffee \in [exists : BOOLEAN, time : Nat, exports : [Names -> More]]
      <3> HIDE DEF r
      <3> QED
        BY <1>2
    <2> HIDE DEF r, More
    <2> QED
      BY <1>3, <2>1, <2>2
  <1>5. H2DTypes' /\ Dated'
    <2>1. coffee \in [exists : BOOLEAN, time : Nat, exports : [Names -> More]]
      <3> HIDE DEF r
      <3> QED
        BY <1>2
    <2> HIDE DEF r, More, new
    <2>2. coffee' \in [exists : BOOLEAN, time : Nat, exports : [Names -> More]]
      BY <1>1, <1>4, <2>1
    <2>3. coffee'.time <= now
      BY <1>1, <1>3, <1>4 DEF H2DInv, Dated
    <2> QED
      BY <1>1, <2>2, <2>3 DEF H2DInv, H2DTypes, Dated
  <1>6. Reading'
    BY <1>1, ForgetReads
  <1>7. ASSUME ~disturbed' PROVE Compiled'
    <2>1. Compiled
      BY <1>1, <1>3, <1>7 DEF H2DInv, Exporting
    <2>2. (~err <=> EndsClean(dom)) /\ Faithful(dom, lists) /\ dom = templates[name].frag
      BY <1>1, <1>3, <1>7, GeneratedRight
    <2>3. templates[name].exists
      BY <1>3, <2>1 DEF Compiled, Listing
    <2>4. coffee.exports[name] = NoData
      BY <1>3, <2>1 DEF Compiled
    <2>5. Current(name)'
      <3>1. CASE err
        <4>1. coffee'.exports[name].err
          BY <1>1, <2>4, <3>1 DEF NoData
        <4> QED
          BY <1>1, <2>2, <3>1, <4>1 DEF Current
      <3>2. CASE ~err
        <4>1. coffee'.exports[name] = r
          <5> HIDE DEF r, new
          <5> QED
            BY <1>1, <1>4, <3>2
        <4>2. ~coffee'.exports[name].err /\ coffee'.exports[name].data = lists
          BY <4>1
        <4> QED
          BY <1>1, <2>2, <2>3, <3>2, <4>2 DEF Current
      <3> QED
        BY <3>1, <3>2
    <2>6. ASSUME NEW n \in HtmlNames
          PROVE  IF n \in todo' THEN coffee'.exports[n] = NoData ELSE Current(n)'
      <3>1. CASE n = name
        BY <1>1, <2>5, <3>1
      <3>2. CASE n # name
        <4>1. n \in Names /\ (n \in todo' <=> n \in todo) /\ templates'[n] = templates[n]
          BY <1>1, <3>2
        <4>2. coffee'.exports[n] = coffee.exports[n]
          <5> HIDE DEF r, new
          <5> QED
            BY <1>1, <1>4, <3>2, <4>1
        <4>3. Current(n)' <=> Current(n)
          BY <4>1, <4>2, CurrentStays
        <4> QED
          BY <2>1, <4>1, <4>2, <4>3 DEF Compiled
      <3> QED
        BY <3>1, <3>2
    <2>7. coffee'.exists
      <3> HIDE DEF r, new
      <3> QED
        BY <1>1, <1>4, <2>1 DEF Compiled
    <2>8. todo' \subseteq Listing'
      BY <1>1, <2>1 DEF Compiled, Listing
    <2> QED
      BY <2>6, <2>7, <2>8 DEF Compiled
  <1>8. Exporting'
    BY <1>1, <1>3, <1>7 DEF Exporting
  <1> QED
    BY <1>5, <1>6, <1>8 DEF H2DInv

\* When html2domly returns everything has been compiled.
LEMMA ReturnExports == H2DInv /\ Return => H2DInv'
  <1> SUFFICES ASSUME H2DInv, Return PROVE H2DInv'
    OBVIOUS
  <1> USE EditAssumption
  <1>1. /\ h2d = "compile" /\ todo = {} /\ coffee' = [coffee EXCEPT !.time = now] /\ h2d' = "build"
        /\ UNCHANGED <<templates, todo, now, disturbed, reading, domlyVars>>
    BY DEF Return
  <1>2. PICK Exported : coffee \in [exists : BOOLEAN, time : Nat, exports : [Names -> Exported]]
    BY DEF H2DInv, H2DTypes
  <1>3. /\ coffee' \in [exists : BOOLEAN, time : Nat, exports : [Names -> Exported]]
        /\ coffee'.exists = coffee.exists /\ coffee'.exports = coffee.exports /\ coffee'.time = now
    BY <1>1, <1>2 DEF H2DInv, H2DTypes
  <1>4. H2DTypes' /\ Dated'
    BY <1>1, <1>3 DEF H2DInv, H2DTypes, Dated
  <1>5. Reading'
    <2>1. reading = {}
      BY <1>1 DEF H2DInv, Reading
    <2> QED
      BY <1>1, <2>1, ReadingStays DEF H2DInv
  <1>6. ASSUME ~disturbed' PROVE KeptAll'
    <2>1. Compiled
      BY <1>1, <1>6 DEF H2DInv, Exporting
    <2>2. \A n \in HtmlNames : Current(n)' <=> Current(n)
      BY <1>1, <1>3, CurrentStays
    <2> QED
      BY <1>1, <1>3, <2>1, <2>2 DEF Compiled, KeptAll, Kept
  <1>7. Exporting'
    BY <1>1, <1>6 DEF Exporting
  <1> QED
    BY <1>4, <1>5, <1>7 DEF H2DInv

\* An interruption disturbs.
LEMMA InterruptExports == H2DInv /\ Interrupt => H2DInv'
  <1> SUFFICES ASSUME H2DInv, Interrupt PROVE H2DInv'
    OBVIOUS
  <1>1. /\ h2d' = "build" /\ todo' = {} /\ reading' = {} /\ disturbed' = TRUE /\ Forget
        /\ UNCHANGED <<templates, coffee, now>>
    BY DEF Interrupt
  <1>2. H2DTypes' /\ Dated'
    BY <1>1 DEF H2DInv, H2DTypes, Dated
  <1>3. Reading'
    BY <1>1, ForgetReads
  <1>4. Exporting'
    BY <1>1 DEF Exporting
  <1> QED
    BY <1>2, <1>3, <1>4 DEF H2DInv

\* The next build finds what the last one left.
LEMMA BuildAgainExports == H2DInv /\ BuildAgain => H2DInv'
  <1> SUFFICES ASSUME H2DInv, BuildAgain PROVE H2DInv'
    OBVIOUS
  <1>1. h2d = "fresh" /\ h2d' = "build" /\ UNCHANGED <<templates, coffee, todo, now, disturbed, reading, domlyVars>>
    BY DEF BuildAgain
  <1>2. H2DTypes' /\ Dated'
    BY <1>1 DEF H2DInv, H2DTypes, Dated
  <1>3. Reading'
    <2>1. reading = {}
      BY <1>1 DEF H2DInv, Reading
    <2> QED
      BY <1>1, <2>1, ReadingStays DEF H2DInv
  <1>4. ASSUME ~disturbed' PROVE KeptAll'
    <2>1. coffee.exists /\ \A n \in HtmlNames : Current(n)
      BY <1>1, <1>4 DEF H2DInv, Exporting
    <2>2. \A n \in HtmlNames : Current(n)' <=> Current(n)
      BY <1>1, CurrentStays
    <2> QED
      BY <1>1, <2>1, <2>2 DEF KeptAll, Kept
  <1>5. Exporting'
    BY <1>1, <1>4 DEF Exporting
  <1> QED
    BY <1>2, <1>3, <1>5 DEF H2DInv

\* A change before the build looks leaves a template that is newer than the
\* file; a removal, or a change at another time, disturbs.
LEMMA ChangeExports == ASSUME NEW name \in Names PROVE H2DInv /\ Change(name) => H2DInv'
  <1> SUFFICES ASSUME H2DInv, Change(name) PROVE H2DInv'
    OBVIOUS
  <1> USE EditAssumption
  <1>1. PICK file \in Files :
            /\ templates' = [templates EXCEPT ![name] = file]
            /\ file.time <= now + 1 /\ (file.exists => file.time = now + 1)
            /\ name \in HtmlNames /\ file.exists => IsFragment(file.frag)
    <2>1. CASE \E frag \in Contents(name) : templates' = [templates EXCEPT ![name] = File(frag, now')]
      <3>1. PICK frag \in Contents(name) : templates' = [templates EXCEPT ![name] = File(frag, now + 1)]
        BY <2>1 DEF Change
      <3>2. now + 1 \in Nat
        BY DEF H2DInv, H2DTypes
      <3>3. File(frag, now + 1) \in Files /\ (name \in HtmlNames => IsFragment(File(frag, now + 1).frag))
        BY <3>2, FileIsTyped
      <3>4. File(frag, now + 1).time = now + 1
        BY DEF File
      <3>5. now + 1 <= now + 1
        BY <3>2
      <3> QED
        BY <3>1, <3>3, <3>4, <3>5
    <2>2. CASE templates' = [templates EXCEPT ![name] = NoFile]
      <3>1. NoFile.time = 0 /\ NoFile.exists = FALSE
        BY DEF NoFile
      <3>2. 0 <= now + 1
        BY DEF H2DInv, H2DTypes
      <3> QED
        BY <2>2, <3>1, <3>2, FileIsTyped
    <2> QED
      BY <2>1, <2>2 DEF Change
  <1>2. \A n \in Names : templates'[n] = IF n = name THEN file ELSE templates[n]
    BY <1>1 DEF H2DInv, H2DTypes
  <1>3. /\ now' = now + 1 /\ UNCHANGED <<coffee, h2d, todo, reading, domlyVars>>
        /\ disturbed' = (disturbed \/ h2d \in {"list", "compile", "fresh"} \/ ~templates'[name].exists)
    BY DEF Change
  <1>4. H2DTypes'
    <2>1. templates' \in [Names -> Files]
      BY <1>1 DEF H2DInv, H2DTypes
    <2>2. \A n \in HtmlNames : templates'[n].exists => IsFragment(templates'[n].frag)
      BY <1>1, <1>2 DEF H2DInv, H2DTypes
    <2>3. disturbed' \in BOOLEAN
      BY <1>3
    <2> QED
      BY <1>3, <2>1, <2>2, <2>3 DEF H2DInv, H2DTypes
  <1>5. Dated'
    <2>1. ASSUME NEW n \in Names PROVE templates'[n].time <= now + 1
      <3>1. templates[n].time \in Nat /\ now \in Nat /\ templates[n].time <= now
        BY DEF H2DInv, H2DTypes, Dated, Files
      <3> QED
        BY <1>1, <1>2, <3>1
    <2>2. coffee.time <= now + 1
      <3>1. PICK Exported : coffee \in [exists : BOOLEAN, time : Nat, exports : [Names -> Exported]]
        BY DEF H2DInv, H2DTypes
      <3>2. coffee.time \in Nat /\ now \in Nat /\ coffee.time <= now
        BY <3>1 DEF H2DInv, H2DTypes, Dated
      <3> QED
        BY <3>2
    <2> QED
      BY <1>3, <2>1, <2>2 DEF Dated
  <1>6. Reading'
    <2>1. reading = {} \/ disturbed'
      BY <1>3 DEF H2DInv, Reading
    <2>2. disturbed => disturbed'
      BY <1>3
    <2> QED
      BY <1>3, <2>1, <2>2, ReadingStays DEF H2DInv
  <1>7. ASSUME ~disturbed', h2d = "build" PROVE KeptAll'
    <2>1. ~disturbed /\ file.exists
      BY <1>2, <1>3, <1>7
    <2>2. KeptAll
      BY <2>1, <1>7 DEF H2DInv, Exporting
    <2>3. ASSUME NEW n \in HtmlNames PROVE Kept(n)'
      <3>1. n \in Names
        OBVIOUS
      <3>2. CASE n = name
        <4>1. templates'[n].exists /\ templates'[n].time = now + 1
          BY <3>1, <3>2, <1>1, <1>2, <2>1
        <4>2. now + 1 > coffee.time
          <5>1. PICK Exported : coffee \in [exists : BOOLEAN, time : Nat, exports : [Names -> Exported]]
            BY DEF H2DInv, H2DTypes
          <5>2. coffee.time \in Nat /\ now \in Nat /\ coffee.time <= now
            BY <5>1 DEF H2DInv, H2DTypes, Dated
          <5> QED
            BY <5>2
        <4> QED
          BY <4>1, <4>2, <1>3 DEF Kept
      <3>3. CASE n # name
        <4>1. templates'[n] = templates[n]
          BY <3>1, <3>3, <1>2
        <4>2. Current(n)' <=> Current(n)
          BY <1>3, <4>1, CurrentStays
        <4> QED
          BY <4>1, <4>2, <1>3, <2>2 DEF Kept, KeptAll
      <3> QED
        BY <3>2, <3>3
    <2> QED
      BY <2>2, <2>3, <1>3 DEF KeptAll
  <1>8. Exporting'
    <2>1. ~disturbed' => h2d \notin {"list", "compile", "fresh"}
      BY <1>3
    <2> QED
      BY <2>1, <1>3, <1>7 DEF Exporting
  <1> QED
    BY <1>4, <1>5, <1>6, <1>8 DEF H2DInv

\* Every step keeps it.
LEMMA H2DStep == H2DInv /\ [H2DNext]_h2dVars => H2DInv'
  <1> SUFFICES ASSUME H2DInv, [H2DNext]_h2dVars PROVE H2DInv'
    OBVIOUS
  <1>1. CASE UNCHANGED h2dVars
    <2>1. UNCHANGED <<templates, coffee, h2d, todo, reading, now, disturbed, domlyVars>>
      BY <1>1 DEF h2dVars
    <2>2. \A n \in HtmlNames : Current(n)' <=> Current(n)
      BY <2>1, CurrentStays
    <2>3. Reading'
      BY <2>1, ReadingStays DEF H2DInv
    <2>4. H2DTypes' /\ Dated'
      BY <2>1 DEF H2DInv, H2DTypes, Dated
    <2>5. Exporting'
      BY <2>1, <2>2 DEF H2DInv, Exporting, Emptied, Compiled, Listing, KeptAll, Kept
    <2> QED
      BY <2>3, <2>4, <2>5 DEF H2DInv
  <1> QED
    BY <1>1, DecideExports, CreateExports, ListExports, SkipExports, ParseExports, WalkExports, ExportExports,
       ReturnExports, InterruptExports, BuildAgainExports, ChangeExports DEF H2DNext

\* TemplatesCurrent: a templates.coffee that the build leaves alone exports just
\* the templates whose last element is sound, and all the sound elements of these.
THEOREM TemplatesStayCurrent == H2DSpec => []TemplatesCurrent
  <1>1. H2DInv => TemplatesCurrent
    BY DEF H2DInv, Exporting, TemplatesCurrent
  <1> QED
    BY <1>1, H2DStart, H2DStep, PTL DEF H2DSpec

(* genapi. *)

\* The path b is a, or below it.
Below(a, b) == Len(a) <= Len(b) /\ \A x \in 1..Len(a) : a[x] = b[x]

Frame == [path : Seq(STRING), next : Nat \ {0}, files : SUBSET Nat, decl : Nat \ {0}]

\* A call has come past the declaration d of the entry j.
Past(c, j, d) == j < c.next /\ (j \notin c.files \/ (d < c.decl /\ \A k \in c.files : j <= k))

\* A call has still to enter a directory that p is, or is below.
Ahead(c, p) ==
    /\ c.path \in DOMAIN tree
    /\ \E j \in 1..Len(tree[c.path]) : c.next <= j /\ Is(c.path, j, "dir") /\ Below(Sub(c.path, j), p)

\* A call has met no link, and dropped no file in error.
Sound(c) ==
    /\ c \in Frame /\ Entered(c.path)
    /\ c.path \notin DOMAIN tree => c.next = 1
    /\ c.path \in DOMAIN tree =>
           /\ c.next <= Len(tree[c.path]) + 1
           /\ c.next <= Len(tree[c.path]) => c.decl = 1
           /\ \A j \in 1..c.next - 1 :
                  /\ ~Is(c.path, j, "link") /\ (j \notin c.files => ~Is(c.path, j, "broken"))
           /\ \A j \in c.files : j \in 1..c.next - 1 /\ (Is(c.path, j, "file") \/ Is(c.path, j, "broken"))

\* A call has the methods of what it has come past, and of nothing else.
Tallied(c, ms) ==
    /\ c.path \in DOMAIN tree => \A j \in 1..Len(tree[c.path]) : \A d \in DeclaredIn(c.path, j) :
           Is(c.path, j, "file") /\ Past(c, j, d) => Method(c.path, j, d) \in ToSet(ms)
    /\ \A m \in ToSet(ms) :
           ~Ahead(c, m.pkgpath) /\ (m.pkgpath = c.path => Past(c, m.file, m.decl))

Chain(cs) ==
    \A k \in 1..Len(cs) : \A i \in 1..k - 1 :
        /\ cs[i].path \in DOMAIN tree /\ cs[i].next > 1
        /\ Is(cs[i].path, cs[i].next - 1, "dir") /\ Below(Sub(cs[i].path, cs[i].next - 1), cs[k].path)

Covered(p, cs, ms) ==
    Offers(p) \subseteq ToSet(ms) \/ \E k \in 1..Len(cs) : cs[k].path = p \/ Ahead(cs[k], p)

Known == UNION {Declares(p) : p \in Reached}

CallsInv(cs, ms) ==
    /\ cs \in Seq(Frame) /\ Chain(cs) /\ (cs # <<>> => cs[1].path = Root)
    /\ \A k \in 1..Len(cs) : Sound(cs[k]) /\ Tallied(cs[k], ms)
    /\ ms \in Seq(Known) /\ Injective(ms)
    /\ \A p \in Reached : Covered(p, cs, ms)

Outcome ==
    /\ apiState = "failed" => Root \notin DOMAIN tree \/ InError(Root)
    /\ apiState = "logged" => Root \in DOMAIN tree /\ ~InError(Root)

APIInv ==
    /\ tree \in Packages /\ apiState \in {"start", "parsing", "failed", "logged"}
    /\ apiState = "start" => calls = <<>> /\ methods = <<>>
    /\ calls # <<>> <=> apiState = "parsing"
    /\ apiState # "start" => CallsInv(calls, methods)
    /\ Outcome

\* A step leaves the tree as it is.
LEMMA TreeStays ==
    ASSUME tree' = tree
    PROVE  /\ \A p, i : Sub(p, i)' = Sub(p, i)
           /\ \A p, i, kind : Is(p, i, kind)' <=> Is(p, i, kind)
           /\ \A p : Entered(p)' <=> Entered(p)
           /\ Reached' = Reached
           /\ \A p, i : DeclaredIn(p, i)' = DeclaredIn(p, i)
           /\ \A p, i, d : Method(p, i, d)' = Method(p, i, d)
           /\ \A p : InError(p)' <=> InError(p)
           /\ \A p : Declares(p)' = Declares(p)
           /\ \A p : Offers(p)' = Offers(p)
           /\ Known' = Known
  <1>1. \A p, i : Sub(p, i)' = Sub(p, i)
    BY DEF Sub
  <1>2. \A p, i, kind : Is(p, i, kind)' <=> Is(p, i, kind)
    BY <1>1 DEF Is, Ignored
  <1>3. \A p : Entered(p)' <=> Entered(p)
    <2>1. \A p, n : Leads(p, n)' <=> Leads(p, n)
      BY <1>2 DEF Leads
    <2> QED
      BY <2>1 DEF Entered
  <1>4. Reached' = Reached
    BY <1>3 DEF Reached
  <1>5. \A p, i : DeclaredIn(p, i)' = DeclaredIn(p, i)
    BY DEF DeclaredIn
  <1>6. \A p, i, d : Method(p, i, d)' = Method(p, i, d)
    BY DEF Method
  <1>7. \A p : InError(p)' <=> InError(p)
    BY <1>2 DEF InError
  <1>8. \A p : Declares(p)' = Declares(p)
    BY <1>2, <1>5, <1>6 DEF Declares
  <1>9. \A p : Offers(p)' = Offers(p)
    BY <1>7, <1>8 DEF Offers
  <1>10. Known' = Known
    BY <1>4, <1>8 DEF Known
  <1> QED
    BY <1>1, <1>2, <1>3, <1>4, <1>5, <1>6, <1>7, <1>8, <1>9, <1>10

\* A step that leaves the tree as it is changes the invariant only through the
\* calls and the methods.
LEMMA CallsStay ==
    ASSUME tree' = tree, CallsInv(calls', methods')
    PROVE  CallsInv(calls, methods)'
  <1>1. \A c, p : Ahead(c, p)' <=> Ahead(c, p)
    BY TreeStays DEF Ahead
  <1>2. \A c : Sound(c)' <=> Sound(c)
    BY TreeStays DEF Sound
  <1>3. \A c, ms : Tallied(c, ms)' <=> Tallied(c, ms)
    BY TreeStays, <1>1 DEF Tallied
  <1>4. \A cs : Chain(cs)' <=> Chain(cs)
    BY TreeStays DEF Chain
  <1>5. \A p, cs, ms : Covered(p, cs, ms)' <=> Covered(p, cs, ms)
    BY TreeStays, <1>1 DEF Covered
  <1>6. Reached' = Reached /\ Known' = Known
    BY TreeStays
  <1> QED
    BY <1>2, <1>3, <1>4, <1>5, <1>6 DEF CallsInv

\* What a tree is made of.
LEMMA TreeTypes ==
    ASSUME tree \in Packages, NEW p \in DOMAIN tree
    PROVE  /\ p \in Seq(STRING) /\ tree[p] \in Seq(Entry) /\ Len(tree[p]) \in Nat
           /\ \A i \in 1..Len(tree[p]) :
                  /\ tree[p][i] \in Entry /\ Sub(p, i) \in Seq(STRING) /\ Len(Sub(p, i)) = Len(p) + 1
                  /\ Len(tree[p][i].decls) \in Nat
           /\ \A i, j \in 1..Len(tree[p]) : tree[p][i].name = tree[p][j].name => i = j
  <1>1. /\ p \in Seq(STRING) /\ tree[p] \in Seq(Entry)
        /\ Injective([i \in 1..Len(tree[p]) |-> tree[p][i].name])
    BY TreeAssumption
  <1>2. Len(tree[p]) \in Nat /\ \A i \in 1..Len(tree[p]) : tree[p][i] \in Entry
    BY <1>1
  <1>3. \A e \in Entry : e.name \in STRING /\ Len(e.decls) \in Nat
    BY DEF Entry
  <1>4. \A x \in STRING : Append(p, x) \in Seq(STRING) /\ Len(Append(p, x)) = Len(p) + 1
    BY <1>1
  <1>5. \A i \in 1..Len(tree[p]) : Sub(p, i) \in Seq(STRING) /\ Len(Sub(p, i)) = Len(p) + 1
    BY <1>2, <1>3, <1>4 DEF Sub
  <1>6. \A i, j \in 1..Len(tree[p]) : tree[p][i].name = tree[p][j].name => i = j
    <2> DEFINE names == [i \in 1..Len(tree[p]) |-> tree[p][i].name]
    <2>1. Len(names) = Len(tree[p])
      BY <1>2
    <2> QED
      BY <1>1, <2>1 DEF Injective
  <1> QED
    BY <1>1, <1>2, <1>3, <1>5, <1>6

\* A path is below itself, and begins with what it is below.
LEMMA BelowSame ==
    ASSUME NEW a \in Seq(STRING), NEW b \in Seq(STRING)
    PROVE  /\ Below(a, a)
           /\ Below(a, b) /\ Len(a) = Len(b) => a = b
           /\ Below(a, b) /\ Len(a) < Len(b) => SubSeq(b, 1, Len(a)) = a
  <1>1. Below(a, a)
    BY DEF Below
  <1>2. ASSUME Below(a, b), Len(a) = Len(b)
        PROVE  a = b
    BY <1>2, SeqEqual DEF Below
  <1>3. ASSUME Below(a, b), Len(a) < Len(b)
        PROVE  SubSeq(b, 1, Len(a)) = a
    <2>1. SubSeq(b, 1, Len(a)) \in Seq(STRING) /\ Len(SubSeq(b, 1, Len(a))) = Len(a)
      BY <1>3
    <2>2. \A k \in 1..Len(a) : SubSeq(b, 1, Len(a))[k] = a[k]
      BY <1>3 DEF Below
    <2> QED
      BY <2>1, <2>2, SeqEqual
  <1> QED
    BY <1>1, <1>2, <1>3

\* What is below a subdirectory is below the directory, by the name of the
\* subdirectory.
LEMMA BelowSub ==
    ASSUME NEW a \in Seq(STRING), NEW x \in STRING, NEW b \in Seq(STRING)
    PROVE  Below(Append(a, x), b) <=> Below(a, b) /\ Len(a) < Len(b) /\ b[Len(a) + 1] = x
  <1>1. Len(Append(a, x)) = Len(a) + 1 /\ Append(a, x)[Len(a) + 1] = x
    BY AppendProperties
  <1>2. \A k \in 1..Len(a) : Append(a, x)[k] = a[k]
    BY AppendProperties
  <1>3. \A k : k \in 1..Len(a) + 1 <=> k \in 1..Len(a) \/ k = Len(a) + 1
    OBVIOUS
  <1>4. Len(a) + 1 <= Len(b) <=> Len(a) <= Len(b) /\ Len(a) < Len(b)
    OBVIOUS
  <1> QED
    BY <1>1, <1>2, <1>3, <1>4, Zenon DEF Below

\* What is below a path is below every path above it.
LEMMA BelowTrans ==
    ASSUME NEW a \in Seq(STRING), NEW b \in Seq(STRING), NEW c \in Seq(STRING), Below(a, b), Below(b, c)
    PROVE  Below(a, c)
  BY DEF Below

\* Down to a directory that is reached every directory leads, past no dead link.
LEMMA ReachedLeads ==
    ASSUME tree \in Packages, NEW p \in Reached, NEW q \in Seq(STRING), q # <<>>, Below(q, p)
    PROVE  /\ p \in Seq(STRING) /\ (Len(q) = Len(p) => q = p)
           /\ Len(q) < Len(p) => q \in DOMAIN tree /\ Leads(q, p[Len(q) + 1])
  <1>1. p \in Seq(STRING) /\ p \in DOMAIN tree /\ Entered(p)
    BY TreeTypes DEF Reached
  <1>2. Len(q) = Len(p) => q = p
    BY <1>1, SeqEqual DEF Below
  <1>3. ASSUME Len(q) < Len(p)
        PROVE  q \in DOMAIN tree /\ Leads(q, p[Len(q) + 1])
    <2>1. SubSeq(p, 1, Len(q)) = q
      BY <1>1, <1>3, BelowSame
    <2>2. Len(q) \in 1..Len(p) - 1
      BY <1>1, <1>3
    <2> QED
      BY <1>1, <2>1, <2>2 DEF Entered
  <1> QED
    BY <1>1, <1>2, <1>3

\* A directory that is reached through an entry lies past no dead link.
LEMMA ReachedThrough ==
    ASSUME tree \in Packages, NEW p \in Reached, NEW q \in DOMAIN tree, q # <<>>,
           NEW j \in 1..Len(tree[q]), Below(Sub(q, j), p)
    PROVE  \A i \in 1..j : ~Is(q, i, "link")
  <1>1. /\ q \in Seq(STRING) /\ tree[q][j].name \in STRING
        /\ \A i \in 1..Len(tree[q]) : tree[q][i].name = tree[q][j].name => i = j
    BY TreeTypes DEF Entry
  <1>2. p \in Seq(STRING)
    BY TreeTypes DEF Reached
  <1>3. Below(q, p) /\ Len(q) < Len(p) /\ p[Len(q) + 1] = tree[q][j].name
    BY <1>1, <1>2, BelowSub, ZenonT(40) DEF Sub
  <1>4. Leads(q, tree[q][j].name)
    BY <1>1, <1>3, ReachedLeads
  <1> QED
    BY <1>1, <1>4 DEF Leads

\* A call that begins has what is reached below it ahead, but itself.
LEMMA CallAhead ==
    ASSUME tree \in Packages, NEW p \in Reached, NEW q \in Seq(STRING), q # <<>>, Below(q, p)
    PROVE  p = q \/ Ahead(Call(q), p)
  <1>1. CASE Len(q) = Len(p)
    BY <1>1, ReachedLeads
  <1>2. CASE Len(q) # Len(p)
    <2>1. Len(q) < Len(p) /\ p \in Seq(STRING)
      BY <1>2, ReachedLeads DEF Below
    <2>2. q \in DOMAIN tree /\ Leads(q, p[Len(q) + 1])
      BY <2>1, ReachedLeads
    <2>3. PICK j \in 1..Len(tree[q]) : tree[q][j].name = p[Len(q) + 1] /\ Is(q, j, "dir")
      BY <2>2 DEF Leads
    <2>4. tree[q][j].name \in STRING
      BY <2>2, TreeTypes DEF Entry
    <2>5. Below(Sub(q, j), p)
      <3>1. Below(Append(q, tree[q][j].name), p)
        BY <2>1, <2>3, <2>4, BelowSub
      <3> QED
        BY <3>1 DEF Sub
    <2> QED
      BY <2>2, <2>3, <2>5 DEF Ahead, Call
  <1> QED
    BY <1>1, <1>2

\* A call that goes on leaves nothing ahead but the directory it has come past.
LEMMA AheadOn ==
    ASSUME tree \in Packages, NEW c \in Frame, NEW d \in Frame, d.path = c.path, NEW p
    PROVE  /\ c.next <= d.next /\ Ahead(d, p) => Ahead(c, p)
           /\ d.next = c.next /\ Ahead(c, p) => Ahead(d, p)
           /\ d.next = c.next + 1 /\ ~Is(c.path, c.next, "dir") /\ Ahead(c, p) => Ahead(d, p)
  <1>1. c.next \in Nat /\ d.next \in Nat
    BY DEF Frame
  <1>2. ASSUME c.next <= d.next, Ahead(d, p)
        PROVE  Ahead(c, p)
    <2>1. PICK j \in 1..Len(tree[c.path]) : d.next <= j /\ Is(c.path, j, "dir") /\ Below(Sub(c.path, j), p)
      BY <1>2 DEF Ahead
    <2>2. c.path \in DOMAIN tree
      BY <1>2 DEF Ahead
    <2>3. Len(tree[c.path]) \in Nat
      BY <2>2, TreeTypes
    <2>4. c.next <= j
      BY <1>1, <1>2, <2>1, <2>3
    <2> QED
      BY <2>1, <2>2, <2>4 DEF Ahead
  <1>3. d.next = c.next /\ Ahead(c, p) => Ahead(d, p)
    BY DEF Ahead
  <1>4. ASSUME d.next = c.next + 1, ~Is(c.path, c.next, "dir"), Ahead(c, p)
        PROVE  Ahead(d, p)
    <2>1. PICK j \in 1..Len(tree[c.path]) : c.next <= j /\ Is(c.path, j, "dir") /\ Below(Sub(c.path, j), p)
      BY <1>4 DEF Ahead
    <2>2. c.path \in DOMAIN tree
      BY <1>4 DEF Ahead
    <2>3. Len(tree[c.path]) \in Nat
      BY <2>2, TreeTypes
    <2>4. d.next <= j
      BY <1>1, <1>4, <2>1, <2>3
    <2> QED
      BY <2>1, <2>2, <2>4 DEF Ahead
  <1> QED
    BY <1>2, <1>3, <1>4

\* A call whose state changes, and what the innermost call may change.
LEMMA SetCall ==
    ASSUME tree \in Packages, NEW cs, NEW ms, NEW ns, CallsInv(cs, ms), cs # <<>>, NEW d \in Frame,
           d.path = cs[Len(cs)].path, Sound(d), Tallied(d, ns),
           ns \in Seq(Known), Injective(ns), ToSet(ms) \subseteq ToSet(ns),
           \A p \in Reached : Ahead(cs[Len(cs)], p) => Ahead(d, p),
           \A k \in 1..Len(cs) - 1 : Tallied(cs[k], ns)
    PROVE  CallsInv([cs EXCEPT ![Len(cs)] = d], ns)
  <1> DEFINE n == Len(cs)
             ds == [cs EXCEPT ![n] = d]
  <1>1. cs \in Seq(Frame) /\ n \in Nat /\ n > 0
    BY DEF CallsInv
  <1>2. /\ ds \in Seq(Frame) /\ Len(ds) = n /\ ds[n] = d
        /\ \A k \in 1..n : k # n => ds[k] = cs[k]
    BY <1>1
  <1>3. \A k \in 1..n : ds[k].path = cs[k].path
    BY <1>2
  <1> HIDE DEF ds
  <1>4. ds # <<>>
    BY <1>1, <1>2
  <1>5. Chain(ds)
    <2> SUFFICES ASSUME NEW k \in 1..n, NEW i \in 1..k - 1
                 PROVE  /\ ds[i].path \in DOMAIN tree /\ ds[i].next > 1
                        /\ Is(ds[i].path, ds[i].next - 1, "dir") /\ Below(Sub(ds[i].path, ds[i].next - 1), ds[k].path)
      BY <1>2 DEF Chain
    <2>1. i \in 1..n /\ i # n
      BY <1>1
    <2>2. ds[i] = cs[i] /\ ds[k].path = cs[k].path
      BY <1>2, <1>3, <2>1
    <2> QED
      BY <2>2 DEF CallsInv, Chain
  <1>6. ds[1].path = Root
    BY <1>1, <1>3, <1>4 DEF CallsInv
  <1>7. \A k \in 1..n : Sound(ds[k]) /\ Tallied(ds[k], ns)
    <2> TAKE k \in 1..n
    <2>1. CASE k = n
      BY <1>2, <2>1
    <2>2. CASE k # n
      <3>1. ds[k] = cs[k] /\ k \in 1..n - 1
        BY <1>1, <1>2, <2>2
      <3> QED
        BY <3>1 DEF CallsInv
    <2> QED
      BY <2>1, <2>2
  <1>8. \A p \in Reached : Covered(p, ds, ns)
    <2> SUFFICES ASSUME NEW p \in Reached, ~(Offers(p) \subseteq ToSet(ns))
                 PROVE  \E k \in 1..n : ds[k].path = p \/ Ahead(ds[k], p)
      BY <1>2 DEF Covered
    <2>1. PICK k \in 1..n : cs[k].path = p \/ Ahead(cs[k], p)
      BY DEF CallsInv, Covered
    <2>2. CASE k = n
      BY <1>2, <1>3, <2>1, <2>2
    <2>3. CASE k # n
      BY <1>2, <1>3, <2>1, <2>3
    <2> QED
      BY <2>2, <2>3
  <1> QED
    BY <1>2, <1>5, <1>6, <1>7, <1>8 DEF CallsInv, ds

\* A call that returns: what it leaves ahead, itself with it, is in error.
LEMMA PopCall ==
    ASSUME tree \in Packages, NEW cs, NEW ms, CallsInv(cs, ms), cs # <<>>,
           \A p \in Reached : p = cs[Len(cs)].path \/ Ahead(cs[Len(cs)], p) => Offers(p) \subseteq ToSet(ms)
    PROVE  CallsInv(SubSeq(cs, 1, Len(cs) - 1), ms)
  <1> DEFINE n == Len(cs)
             ds == SubSeq(cs, 1, n - 1)
  <1>1. cs \in Seq(Frame) /\ n \in Nat /\ n > 0
    BY DEF CallsInv
  <1>2. /\ ds \in Seq(Frame) /\ Len(ds) = n - 1
        /\ \A k \in 1..n - 1 : ds[k] = cs[k]
    <2>1. \A k \in 1..n - 1 : cs[k] \in Frame /\ 1 + k - 1 = k
      BY <1>1
    <2> HIDE DEF n
    <2>2. 1 \in Int /\ n - 1 \in Int /\ (n - 1) - 1 + 1 = n - 1
      BY <1>1
    <2>. (IF 1 <= n - 1 THEN (n - 1) - 1 + 1 ELSE 0) = n - 1
      BY <1>1
    <2>3. ds \in Seq(Frame) /\ Len(ds) = n - 1
      BY <2>1, <2>2, SubSeqProperties
    <2>4. \A k \in 1..(n - 1) - 1 + 1 : ds[k] = cs[1 + k - 1]
      BY <2>1, <2>2, SubSeqProperties
    <2> QED
      BY <2>1, <2>2, <2>3, <2>4
  <1> HIDE DEF ds
  <1>3. \A k \in 1..n - 1 : k \in 1..n
    BY <1>1
  <1>4. Chain(ds)
    <2> SUFFICES ASSUME NEW k \in 1..n - 1, NEW i \in 1..k - 1
                 PROVE  /\ ds[i].path \in DOMAIN tree /\ ds[i].next > 1
                        /\ Is(ds[i].path, ds[i].next - 1, "dir") /\ Below(Sub(ds[i].path, ds[i].next - 1), ds[k].path)
      BY <1>2 DEF Chain
    <2>1. i \in 1..n - 1 /\ k \in 1..n
      BY <1>1
    <2>2. ds[i] = cs[i] /\ ds[k] = cs[k]
      BY <1>2, <2>1
    <2> QED
      BY <2>1, <2>2 DEF CallsInv, Chain
  <1>5. ds # <<>> => ds[1].path = Root
    <2> SUFFICES ASSUME ds # <<>>
                 PROVE  ds[1].path = Root
      OBVIOUS
    <2>1. 1 \in 1..n - 1
      BY <1>1, <1>2
    <2> QED
      BY <1>2, <2>1 DEF CallsInv
  <1>6. \A k \in 1..n - 1 : Sound(ds[k]) /\ Tallied(ds[k], ms)
    BY <1>2, <1>3 DEF CallsInv
  <1>7. \A p \in Reached : Covered(p, ds, ms)
    <2> SUFFICES ASSUME NEW p \in Reached, ~(Offers(p) \subseteq ToSet(ms))
                 PROVE  \E k \in 1..n - 1 : ds[k].path = p \/ Ahead(ds[k], p)
      BY <1>2 DEF Covered
    <2>1. PICK k \in 1..n : cs[k].path = p \/ Ahead(cs[k], p)
      BY DEF CallsInv, Covered
    <2>2. k # n
      BY <2>1
    <2>3. k \in 1..n - 1
      BY <1>1, <2>2
    <2> QED
      BY <1>2, <2>1, <2>3
  <1> QED
    BY <1>2, <1>4, <1>5, <1>6, <1>7 DEF CallsInv, ds

\* What a listed method is.
LEMMA KnownMethods ==
    ASSUME tree \in Packages, NEW m \in Known
    PROVE  /\ m.pkgpath \in Reached /\ m.file \in 1..Len(tree[m.pkgpath])
           /\ m.decl \in DeclaredIn(m.pkgpath, m.file) /\ m.decl \in Nat \ {0}
  <1>1. PICK p \in Reached : m \in Declares(p)
    BY DEF Known
  <1>2. PICK k \in 1..Len(tree[p]) : \E d \in DeclaredIn(p, k) : m = Method(p, k, d)
    BY <1>1 DEF Declares
  <1>3. PICK d \in DeclaredIn(p, k) : m = Method(p, k, d)
    BY <1>2
  <1>4. m.pkgpath = p /\ m.file = k /\ m.decl = d
    BY <1>3 DEF Method
  <1>5. Len(tree[p][k].decls) \in Nat
    BY TreeTypes DEF Reached
  <1>6. d \in Nat \ {0}
    BY <1>5 DEF DeclaredIn
  <1> QED
    BY <1>4, <1>6

\* The directory of a call can be read up to its next entry, which is no
\* directory and no link: it is a Go file, which the call puts by, or nothing
\* that the call needs.
LEMMA EntryDone ==
    ASSUME tree \in Packages, NEW c \in Frame, NEW d \in Frame, NEW ms \in Seq(Known), Sound(c), Tallied(c, ms),
           c.path \in DOMAIN tree, c.next <= Len(tree[c.path]),
           d.path = c.path, d.next = c.next + 1, d.decl = c.decl,
           ~Is(c.path, c.next, "dir"), ~Is(c.path, c.next, "link"),
           \/ d.files = c.files /\ ~Is(c.path, c.next, "file") /\ ~Is(c.path, c.next, "broken")
           \/ d.files = c.files \cup {c.next} /\ (Is(c.path, c.next, "file") \/ Is(c.path, c.next, "broken"))
    PROVE  Sound(d) /\ Tallied(d, ms) /\ \A p : Ahead(c, p) => Ahead(d, p)
  <1>1. /\ c.next \in Nat \ {0} /\ d.next \in Nat /\ Len(tree[c.path]) \in Nat /\ c.decl = 1
        /\ c.files \subseteq Nat /\ d.files \subseteq Nat
    BY TreeTypes DEF Frame, Sound
  <1>2. \A j : j \in 1..d.next - 1 => j \in 1..c.next - 1 \/ j = c.next
    BY <1>1
  <1>3. \A j : j \in 1..c.next - 1 => j \in 1..d.next - 1 /\ j # c.next
    BY <1>1
  <1>4. d.next <= Len(tree[d.path]) + 1 /\ c.next \in 1..d.next - 1
    BY <1>1
  <1>5. Sound(d)
    <2>1. \A j \in 1..d.next - 1 :
              ~Is(d.path, j, "link") /\ (j \notin d.files => ~Is(d.path, j, "broken"))
      BY <1>2 DEF Sound
    <2>2. \A j \in d.files : j \in 1..d.next - 1 /\ (Is(d.path, j, "file") \/ Is(d.path, j, "broken"))
      BY <1>3, <1>4 DEF Sound
    <2> QED
      BY <1>1, <1>4, <2>1, <2>2 DEF Sound
  <1>6. \A j, e : e \in Nat \ {0} /\ j \in Nat /\ Past(c, j, e) => Past(d, j, e)
    BY <1>1 DEF Past
  <1>7. \A j, e : e \in Nat \ {0} /\ j \in Nat /\ Past(d, j, e) => Past(c, j, e) \/ (j = c.next /\ ~Is(c.path, j, "file"))
    BY <1>1 DEF Past
  <1>8. Tallied(d, ms)
    <2>1. ASSUME NEW j \in 1..Len(tree[d.path]), NEW e \in DeclaredIn(d.path, j), Is(d.path, j, "file"), Past(d, j, e)
          PROVE  Method(d.path, j, e) \in ToSet(ms)
      <3>1. Len(tree[c.path][j].decls) \in Nat
        BY TreeTypes
      <3>2. e \in Nat \ {0} /\ j \in Nat
        BY <1>1, <3>1 DEF DeclaredIn
      <3> QED
        BY <1>7, <2>1, <3>2 DEF Tallied
    <2>2. ASSUME NEW m \in ToSet(ms)
          PROVE  ~Ahead(d, m.pkgpath) /\ (m.pkgpath = d.path => Past(d, m.file, m.decl))
      <3>1. m \in Known
        BY DEF ToSet
      <3>2. m.decl \in Nat \ {0} /\ m.file \in 1..Len(tree[m.pkgpath])
        BY <3>1, KnownMethods
      <3>3. ~Ahead(d, m.pkgpath)
        BY <1>1, AheadOn DEF Tallied
      <3>4. m.pkgpath = d.path => m.file \in Nat
        BY <1>1, <3>2
      <3> QED
        BY <1>6, <3>2, <3>3, <3>4 DEF Tallied
    <2> QED
      BY <2>1, <2>2 DEF Tallied
  <1> QED
    BY <1>5, <1>8, AheadOn

\* All files but those from the first on are parsed: the first is parsed up to
\* a declaration, or to its end.
LEMMA FileOn ==
    ASSUME tree \in Packages, NEW c \in Frame, NEW d \in Frame, NEW k, Sound(c),
           c.path \in DOMAIN tree, c.next > Len(tree[c.path]),
           d.path = c.path, d.next = c.next,
           k \in c.files, \A j \in c.files : k <= j, tree[c.path][k].kind = "file",
           \/ d.files = c.files /\ d.decl = c.decl + 1 /\ c.decl <= Len(tree[c.path][k].decls)
           \/ d.files = c.files \ {k} /\ d.decl = 1 /\ c.decl > Len(tree[c.path][k].decls)
    PROVE  /\ Sound(d) /\ k \in 1..Len(tree[c.path]) /\ Is(c.path, k, "file")
           /\ \A p : ~Ahead(d, p)
           /\ \A j, e : e \in DeclaredIn(c.path, j) /\ j \in 1..Len(tree[c.path]) =>
                  /\ Past(c, j, e) => Past(d, j, e)
                  /\ Past(d, j, e) => Past(c, j, e) \/ (j = k /\ e = c.decl /\ d.files = c.files)
           /\ c.decl \in Nat /\ ~Past(c, k, c.decl)
           /\ d.files = c.files => Past(d, k, c.decl)
  <1>1. /\ c.next \in Nat \ {0} /\ d.next \in Nat /\ Len(tree[c.path]) \in Nat /\ c.decl \in Nat
        /\ c.files \subseteq Nat /\ d.files \subseteq c.files /\ c.next <= Len(tree[c.path]) + 1
    BY TreeTypes DEF Frame, Sound
  <1>2. k \in 1..c.next - 1 /\ k \in 1..Len(tree[c.path]) /\ Is(c.path, k, "file")
    BY <1>1 DEF Sound, Is
  <1>3. ~Is(c.path, k, "broken")
    BY DEF Is
  <1>4. Sound(d)
    BY <1>1, <1>3 DEF Sound
  <1>5. \A p : ~Ahead(d, p)
    BY <1>1 DEF Ahead
  <1>6. ASSUME NEW j \in 1..Len(tree[c.path]), NEW e \in DeclaredIn(c.path, j)
        PROVE  /\ Past(c, j, e) => Past(d, j, e)
               /\ Past(d, j, e) => Past(c, j, e) \/ (j = k /\ e = c.decl /\ d.files = c.files)
    <2>1. Len(tree[c.path][j].decls) \in Nat
      BY TreeTypes
    <2>2. e \in Nat \ {0} /\ e <= Len(tree[c.path][j].decls) /\ j \in Nat
      BY <1>1, <2>1 DEF DeclaredIn
    <2>3. Past(c, j, e) => Past(d, j, e)
      BY <1>1, <2>2 DEF Past
    <2>4. Past(d, j, e) => Past(c, j, e) \/ (j = k /\ e = c.decl /\ d.files = c.files)
      BY <1>1, <1>2, <2>2, SMTT(30) DEF Past
    <2> QED
      BY <2>3, <2>4
  <1>7. ~Past(c, k, c.decl)
    BY <1>1 DEF Past
  <1>8. d.files = c.files => Past(d, k, c.decl)
    BY <1>1, <1>2 DEF Past
  <1> QED
    BY <1>1, <1>2, <1>4, <1>5, <1>6, <1>7, <1>8

\* A call with a file put by, or done.
FileAdded(c, i) == [c EXCEPT !.next = i + 1, !.files = @ \cup {i}]
FileDone(c, k) == [c EXCEPT !.files = @ \ {k}, !.decl = 1]

\* It is a call still.
LEMMA FrameAdd ==
    ASSUME NEW c \in Frame, NEW i \in Nat, NEW d, d = FileAdded(c, i)
    PROVE  d \in Frame /\ d.path = c.path /\ d.next = i + 1 /\ d.files = c.files \cup {i} /\ d.decl = c.decl
  <1>1. c = [path |-> c.path, next |-> c.next, files |-> c.files, decl |-> c.decl]
    BY DEF Frame
  <1>2. d.path = c.path
    BY <1>1 DEF FileAdded
  <1>3. d.next = i + 1
    BY <1>1 DEF FileAdded
  <1>4. d.files = c.files \cup {i}
    BY <1>1 DEF FileAdded
  <1>5. d.decl = c.decl
    BY <1>1 DEF FileAdded
  <1>6. DOMAIN d = DOMAIN c
    BY DEF FileAdded
  <1>7. d = [path |-> d.path, next |-> d.next, files |-> d.files, decl |-> d.decl]
    BY <1>1, <1>6 DEF FileAdded
  <1>8. c.files \cup {i} \in SUBSET Nat /\ i + 1 \in Nat \ {0}
    BY DEF Frame
  <1>9. d \in Frame
    BY <1>2, <1>3, <1>4, <1>5, <1>7, <1>8 DEF Frame
  <1> QED
    BY <1>2, <1>3, <1>4, <1>5, <1>9

\* So is one whose first file is done.
LEMMA FrameDone ==
    ASSUME NEW c \in Frame, NEW k, NEW d, d = FileDone(c, k)
    PROVE  d \in Frame /\ d.path = c.path /\ d.next = c.next /\ d.files = c.files \ {k} /\ d.decl = 1
  <1>1. c = [path |-> c.path, next |-> c.next, files |-> c.files, decl |-> c.decl]
    BY DEF Frame
  <1>2. d.path = c.path
    BY <1>1 DEF FileDone
  <1>3. d.next = c.next
    BY <1>1 DEF FileDone
  <1>4. d.files = c.files \ {k}
    BY <1>1 DEF FileDone
  <1>5. d.decl = 1
    BY <1>1 DEF FileDone
  <1>6. DOMAIN d = DOMAIN c
    BY DEF FileDone
  <1>7. d = [path |-> d.path, next |-> d.next, files |-> d.files, decl |-> d.decl]
    BY <1>1, <1>6 DEF FileDone
  <1>8. c.files \ {k} \in SUBSET Nat
    BY DEF Frame
  <1>9. d \in Frame
    BY <1>2, <1>3, <1>4, <1>5, <1>7, <1>8 DEF Frame
  <1> QED
    BY <1>2, <1>3, <1>4, <1>5, <1>9

\* What holds of the innermost call.
LEMMA TopCall ==
    ASSUME APIInv, calls # <<>>
    PROVE  /\ tree \in Packages /\ CallsInv(calls, methods) /\ apiState = "parsing"
           /\ Top = calls[Len(calls)] /\ Top \in Frame /\ Sound(Top) /\ Tallied(Top, methods)
           /\ methods \in Seq(Known) /\ Len(calls) \in Nat \ {0}
  <1>1. tree \in Packages /\ CallsInv(calls, methods) /\ apiState = "parsing"
    BY DEF APIInv
  <1>2. calls \in Seq(Frame) /\ methods \in Seq(Known)
    BY <1>1 DEF CallsInv
  <1>3. Len(calls) \in Nat \ {0} /\ Len(calls) \in 1..Len(calls)
    BY <1>2
  <1> QED
    BY <1>1, <1>2, <1>3 DEF CallsInv, Top

\* A call that changes without a method.
LEMMA SetTopKeeps ==
    ASSUME APIInv, calls # <<>>, NEW d \in Frame, calls' = [calls EXCEPT ![Len(calls)] = d], methods' = methods,
           d.path = Top.path, Sound(d), Tallied(d, methods),
           \A p \in Reached : Ahead(Top, p) => Ahead(d, p)
    PROVE  CallsInv(calls', methods')
  <1>1. \A k \in 1..Len(calls) - 1 : Tallied(calls[k], methods)
    BY TopCall DEF CallsInv
  <1>2. Injective(methods) /\ ToSet(methods) \subseteq ToSet(methods)
    BY TopCall DEF CallsInv
  <1> QED
    BY <1>1, <1>2, TopCall, SetCall

\* An entry that is ignored, or no Go file.
LEMMA SkipKeeps ==
    ASSUME APIInv, NEW i, SkipEntry(i)
    PROVE  CallsInv(calls', methods')
  <1> DEFINE d == [Top EXCEPT !.next = i + 1]
  <1>1. /\ calls # <<>> /\ Top.path \in DOMAIN tree /\ i = Top.next /\ i <= Len(tree[Top.path])
        /\ calls' = [calls EXCEPT ![Len(calls)] = d] /\ methods' = methods
    BY DEF SkipEntry, Reads, SetTop
  <1>2. ~Is(Top.path, i, "dir") /\ ~Is(Top.path, i, "link") /\ ~Is(Top.path, i, "file") /\ ~Is(Top.path, i, "broken")
    BY DEF SkipEntry, Is
  <1>3. d \in Frame /\ d.path = Top.path /\ d.next = Top.next + 1 /\ d.decl = Top.decl /\ d.files = Top.files
    <2>1. Top \in Frame /\ i \in Nat
      BY <1>1, TopCall DEF Frame
    <2>2. d = [path |-> Top.path, next |-> i + 1, files |-> Top.files, decl |-> Top.decl]
      BY <2>1 DEF Frame
    <2> HIDE DEF d
    <2> QED
      BY <1>1, <2>1, <2>2 DEF Frame
  <1> HIDE DEF d
  <1>4. Sound(d) /\ Tallied(d, methods) /\ \A p : Ahead(Top, p) => Ahead(d, p)
    BY <1>1, <1>2, <1>3, TopCall, EntryDone
  <1> QED
    BY <1>1, <1>3, <1>4, SetTopKeeps

\* A Go file, to be parsed at the end.
LEMMA AddFileKeeps ==
    ASSUME APIInv, NEW i, AddFile(i)
    PROVE  CallsInv(calls', methods')
  <1> DEFINE d == [Top EXCEPT !.next = i + 1, !.files = @ \cup {i}]
  <1>1. /\ calls # <<>> /\ Top.path \in DOMAIN tree /\ i = Top.next /\ i <= Len(tree[Top.path])
        /\ calls' = [calls EXCEPT ![Len(calls)] = d] /\ methods' = methods
    BY DEF AddFile, Reads, SetTop
  <1>2. ~Is(Top.path, i, "dir") /\ ~Is(Top.path, i, "link") /\ (Is(Top.path, i, "file") \/ Is(Top.path, i, "broken"))
    BY DEF AddFile, Is
  <1>3. d \in Frame /\ d.path = Top.path /\ d.next = Top.next + 1 /\ d.decl = Top.decl /\ d.files = Top.files \cup {i}
    <2>1. Top \in Frame /\ i \in Nat
      BY <1>1, TopCall DEF Frame
    <2>2. d = FileAdded(Top, i)
      BY DEF FileAdded
    <2> HIDE DEF d
    <2>3. d \in Frame /\ d.path = Top.path /\ d.next = i + 1 /\ d.files = Top.files \cup {i} /\ d.decl = Top.decl
      BY <2>1, <2>2, FrameAdd, ZenonT(40)
    <2> QED
      BY <1>1, <2>3
  <1> HIDE DEF d
  <1>4. Sound(d) /\ Tallied(d, methods) /\ \A p : Ahead(Top, p) => Ahead(d, p)
    BY <1>1, <1>2, <1>3, TopCall, EntryDone
  <1> QED
    BY <1>1, <1>3, <1>4, SetTopKeeps

\* A file whose last declaration is behind.
LEMMA NextFileKeeps ==
    ASSUME APIInv, NEW k, NextFile(k)
    PROVE  CallsInv(calls', methods')
  <1> DEFINE d == [Top EXCEPT !.files = @ \ {k}, !.decl = 1]
  <1>1. /\ calls # <<>> /\ Top.path \in DOMAIN tree /\ Top.next > Len(tree[Top.path])
        /\ k \in Top.files /\ \A j \in Top.files : k <= j
        /\ tree[Top.path][k].kind = "file" /\ Top.decl > Len(tree[Top.path][k].decls)
        /\ calls' = [calls EXCEPT ![Len(calls)] = d] /\ methods' = methods
    BY DEF NextFile, Parsing, SetTop
  <1>2. d \in Frame /\ d.path = Top.path /\ d.next = Top.next /\ d.decl = 1 /\ d.files = Top.files \ {k}
    <2>1. Top \in Frame
      BY <1>1, TopCall DEF Frame
    <2>2. d = FileDone(Top, k)
      BY DEF FileDone
    <2> HIDE DEF d
    <2> QED
      BY <2>1, <2>2, FrameDone
  <1> HIDE DEF d
  <1>3. d.files # Top.files
    BY <1>1, <1>2
  <1>4. /\ Sound(d) /\ \A p : ~Ahead(d, p)
        /\ \A j, e : e \in DeclaredIn(Top.path, j) /\ j \in 1..Len(tree[Top.path]) => (Past(Top, j, e) <=> Past(d, j, e))
    BY <1>1, <1>2, <1>3, TopCall, FileOn
  <1>5. Tallied(d, methods)
    <2>1. ASSUME NEW j \in 1..Len(tree[d.path]), NEW e \in DeclaredIn(d.path, j), Is(d.path, j, "file"), Past(d, j, e)
          PROVE  Method(d.path, j, e) \in ToSet(methods)
      <3>1. Past(Top, j, e)
        BY <1>2, <1>4, <2>1
      <3> QED
        BY <1>1, <1>2, <2>1, <3>1, TopCall DEF Tallied
    <2>2. ASSUME NEW m \in ToSet(methods), m.pkgpath = d.path
          PROVE  Past(d, m.file, m.decl)
      <3>1. m \in Known
        BY <1>1, TopCall DEF ToSet
      <3>2. m.decl \in DeclaredIn(Top.path, m.file) /\ m.file \in 1..Len(tree[Top.path])
        BY <1>1, <1>2, <2>2, <3>1, TopCall, KnownMethods
      <3>3. Past(Top, m.file, m.decl)
        BY <1>1, <1>2, <2>2, TopCall DEF Tallied
      <3> QED
        BY <1>4, <3>2, <3>3
    <2> QED
      BY <1>4, <2>1, <2>2 DEF Tallied
  <1>6. \A p \in Reached : Ahead(Top, p) => Ahead(d, p)
    <2> SUFFICES ASSUME NEW p \in Reached, Ahead(Top, p)
                 PROVE  FALSE
      OBVIOUS
    <2>1. Len(tree[Top.path]) \in Nat /\ Top.next \in Nat
      BY <1>1, TopCall, TreeTypes DEF Frame
    <2> QED
      BY <1>1, <2>1 DEF Ahead
  <1> QED
    BY <1>1, <1>2, <1>4, <1>5, <1>6, SetTopKeeps

\* Further up, a call has nothing ahead above the innermost one, and is of
\* another directory.
LEMMA NothingAbove ==
    ASSUME tree \in Packages, NEW cs, NEW ms, CallsInv(cs, ms), cs # <<>>, NEW i \in 1..Len(cs) - 1
    PROVE  cs[i].path # cs[Len(cs)].path /\ ~Ahead(cs[i], cs[Len(cs)].path)
  <1> DEFINE n == Len(cs)
             p == cs[i].path
             q == cs[n].path
             h == cs[i].next - 1
  <1>1. cs \in Seq(Frame) /\ n \in Nat /\ n \in 1..n /\ i \in 1..n
    BY DEF CallsInv
  <1>2. p \in DOMAIN tree /\ cs[i].next > 1 /\ Below(Sub(p, h), q)
    BY <1>1 DEF CallsInv, Chain
  <1>3. Sound(cs[i]) /\ cs[i] \in Frame /\ cs[n] \in Frame
    BY <1>1 DEF CallsInv
  <1>4. /\ cs[i].next \in Nat /\ cs[i].next <= Len(tree[p]) + 1 /\ Len(tree[p]) \in Nat
        /\ p \in Seq(STRING) /\ q \in Seq(STRING)
    BY <1>2, <1>3, TreeTypes DEF Frame, Sound
  <1>5. h \in 1..Len(tree[p])
    BY <1>2, <1>4
  <1>6. tree[p][h].name \in STRING
    BY <1>2, <1>5, TreeTypes DEF Entry
  <1> HIDE DEF n, p, q, h
  <1>7. Len(p) < Len(q) /\ q[Len(p) + 1] = tree[p][h].name
    BY <1>2, <1>4, <1>6, BelowSub DEF Sub
  <1>8. ASSUME Ahead(cs[i], q)
        PROVE  FALSE
    <2>1. PICK j \in 1..Len(tree[p]) : cs[i].next <= j /\ Below(Sub(p, j), q)
      BY <1>8 DEF Ahead, p
    <2>2. tree[p][j].name \in STRING
      BY <1>2, TreeTypes DEF Entry
    <2>3. q[Len(p) + 1] = tree[p][j].name
      BY <1>4, <2>1, <2>2, BelowSub DEF Sub
    <2>4. j = h
      BY <1>2, <1>5, <1>7, <2>3, TreeTypes
    <2> QED
      BY <1>4, <2>1, <2>4 DEF h
  <1>9. p # q
    BY <1>4, <1>7
  <1> QED
    BY <1>8, <1>9 DEF p, q, n

\* A declaration, which may be of a method.
LEMMA DeclKeeps ==
    ASSUME APIInv, NEW k, ParseDecl(k)
    PROVE  CallsInv(calls', methods')
  <1> DEFINE d == [Top EXCEPT !.decl = @ + 1]
             m == Method(Top.path, k, Top.decl)
             listed == Listed(tree[Top.path][k].decls[Top.decl])
  <1>1. /\ calls # <<>> /\ Top.path \in DOMAIN tree /\ Top.next > Len(tree[Top.path])
        /\ k \in Top.files /\ \A j \in Top.files : k <= j
        /\ tree[Top.path][k].kind = "file" /\ Top.decl <= Len(tree[Top.path][k].decls)
        /\ calls' = [calls EXCEPT ![Len(calls)] = d]
        /\ methods' = IF listed THEN Append(methods, m) ELSE methods
    BY DEF ParseDecl, Parsing, SetTop
  <1>2. d \in Frame /\ d.path = Top.path /\ d.next = Top.next /\ d.decl = Top.decl + 1 /\ d.files = Top.files
    <2>1. Top \in Frame
      BY <1>1, TopCall
    <2>2. d = [path |-> Top.path, next |-> Top.next, files |-> Top.files, decl |-> Top.decl + 1]
      BY <2>1 DEF Frame
    <2> HIDE DEF d
    <2> QED
      BY <2>1, <2>2 DEF Frame
  <1>3. m.pkgpath = Top.path /\ m.file = k /\ m.decl = Top.decl
    BY DEF Method
  <1> HIDE DEF d, m, listed
  <1>4. /\ Sound(d) /\ k \in 1..Len(tree[Top.path]) /\ Is(Top.path, k, "file")
        /\ \A p : ~Ahead(d, p)
        /\ \A j, e : e \in DeclaredIn(Top.path, j) /\ j \in 1..Len(tree[Top.path]) =>
               /\ Past(Top, j, e) => Past(d, j, e)
               /\ Past(d, j, e) => Past(Top, j, e) \/ (j = k /\ e = Top.decl)
        /\ Top.decl \in Nat /\ ~Past(Top, k, Top.decl) /\ Past(d, k, Top.decl)
    BY <1>1, <1>2, TopCall, FileOn
  <1>5. Top.decl \in 1..Len(tree[Top.path][k].decls)
    <2>1. Top.decl >= 1 /\ Len(tree[Top.path][k].decls) \in Nat
      BY <1>1, <1>4, TopCall, TreeTypes DEF Frame
    <2> QED
      BY <1>1, <1>4, <2>1
  <1>6. listed <=> Top.decl \in DeclaredIn(Top.path, k)
    BY <1>5 DEF DeclaredIn, listed
  <1>7. listed => m \in Known
    <2> SUFFICES ASSUME listed
                 PROVE  m \in Known
      OBVIOUS
    <2>1. m \in Declares(Top.path)
      BY <1>4, <1>6 DEF Declares, m
    <2>2. Top.path \in Reached
      BY <1>1, TopCall DEF Reached, Sound
    <2> QED
      BY <2>1, <2>2 DEF Known
  <1>8. m \notin ToSet(methods)
    BY <1>1, <1>3, <1>4, TopCall DEF Tallied
  <1>9. /\ methods' \in Seq(Known) /\ Injective(methods')
        /\ ToSet(methods') = IF listed THEN ToSet(methods) \cup {m} ELSE ToSet(methods)
    <2>1. methods \in Seq(Known) /\ Injective(methods)
      BY <1>1, TopCall DEF CallsInv
    <2>2. CASE ~listed
      BY <1>1, <2>1, <2>2
    <2>3. CASE listed
      <3>1. m \in Known /\ methods' = Append(methods, m)
        BY <1>1, <1>7, <2>3
      <3>2. /\ methods' \in Seq(Known) /\ Len(methods') = Len(methods) + 1
            /\ \A x \in 1..Len(methods) : methods'[x] = methods[x]
            /\ methods'[Len(methods) + 1] = m
        BY <2>1, <3>1, AppendProperties
      <3>3. Len(methods) \in Nat /\ \A x \in 1..Len(methods) : methods[x] # m
        BY <1>8, <2>1 DEF ToSet
      <3>4. \A x : x \in 1..Len(methods) + 1 <=> x \in 1..Len(methods) \/ x = Len(methods) + 1
        BY <3>3
      <3>5. Injective(methods')
        <4> SUFFICES ASSUME NEW x \in 1..Len(methods) + 1, NEW y \in 1..Len(methods) + 1, methods'[x] = methods'[y]
                     PROVE  x = y
          BY <3>2 DEF Injective
        <4> QED
          BY <2>1, <3>2, <3>3, <3>4 DEF Injective
      <3>6. ToSet(methods') = ToSet(methods) \cup {m}
        <4>1. DOMAIN methods = 1..Len(methods) /\ DOMAIN methods' = 1..Len(methods) + 1
          BY <2>1, <3>2
        <4>2. \A y : y \in ToSet(methods') <=> \E x \in 1..Len(methods) + 1 : methods'[x] = y
          BY <4>1 DEF ToSet
        <4>3. \A y : y \in ToSet(methods) <=> \E x \in 1..Len(methods) : methods[x] = y
          BY <4>1 DEF ToSet
        <4>4. \A y : y \in ToSet(methods') <=> y \in ToSet(methods) \/ y = m
          BY <3>2, <3>4, <4>2, <4>3
        <4> QED
          BY <4>4
      <3> QED
        BY <2>3, <3>2, <3>5, <3>6
    <2> QED
      BY <2>2, <2>3
  <1>10. Tallied(d, methods')
    <2>1. ASSUME NEW j \in 1..Len(tree[d.path]), NEW e \in DeclaredIn(d.path, j), Is(d.path, j, "file"), Past(d, j, e)
          PROVE  Method(d.path, j, e) \in ToSet(methods')
      <3>1. CASE Past(Top, j, e)
        <4>1. Method(d.path, j, e) \in ToSet(methods)
          BY <1>1, <1>2, <2>1, <3>1, TopCall DEF Tallied
        <4> QED
          BY <1>9, <4>1
      <3>2. CASE j = k /\ e = Top.decl
        BY <1>2, <1>6, <1>9, <3>2 DEF m
      <3> QED
        BY <1>2, <1>4, <2>1, <3>1, <3>2
    <2>2. ASSUME NEW x \in ToSet(methods'), x.pkgpath = d.path
          PROVE  Past(d, x.file, x.decl)
      <3>1. CASE x \in ToSet(methods)
        <4>1. x \in Known
          BY <1>1, <3>1, TopCall DEF ToSet
        <4>2. x.decl \in DeclaredIn(Top.path, x.file) /\ x.file \in 1..Len(tree[Top.path])
          BY <1>1, <1>2, <2>2, <4>1, TopCall, KnownMethods
        <4>3. Past(Top, x.file, x.decl)
          BY <1>1, <1>2, <2>2, <3>1, TopCall DEF Tallied
        <4> QED
          BY <1>4, <4>2, <4>3
      <3>2. CASE x = m
        BY <1>3, <1>4, <3>2
      <3> QED
        BY <1>9, <3>1, <3>2
    <2> QED
      BY <1>4, <2>1, <2>2 DEF Tallied
  <1>11. \A i \in 1..Len(calls) - 1 : Tallied(calls[i], methods')
    <2> TAKE i \in 1..Len(calls) - 1
    <2>1. Tallied(calls[i], methods)
      BY <1>1, TopCall DEF CallsInv
    <2>2. calls[i].path # Top.path /\ ~Ahead(calls[i], Top.path)
      BY <1>1, TopCall, NothingAbove
    <2> QED
      BY <1>3, <1>9, <2>1, <2>2 DEF Tallied
  <1>12. \A p \in Reached : Ahead(Top, p) => Ahead(d, p)
    <2> SUFFICES ASSUME NEW p \in Reached, Ahead(Top, p)
                 PROVE  FALSE
      OBVIOUS
    <2>1. Len(tree[Top.path]) \in Nat /\ Top.next \in Nat
      BY <1>1, TopCall, TreeTypes DEF Frame
    <2> QED
      BY <1>1, <2>1 DEF Ahead
  <1>13. ToSet(methods) \subseteq ToSet(methods')
    BY <1>9
  <1> QED
    BY <1>1, <1>2, <1>4, <1>9, <1>10, <1>11, <1>12, <1>13, TopCall, SetCall

\* The directory of the innermost call is not there.
LEMMA OpenFailsKeeps ==
    ASSUME APIInv, OpenFails
    PROVE  CallsInv(calls', methods') /\ (Len(calls) = 1 => Root \notin DOMAIN tree)
  <1>1. /\ calls # <<>> /\ Top.path \notin DOMAIN tree
        /\ calls' = SubSeq(calls, 1, Len(calls) - 1) /\ methods' = methods
    BY DEF OpenFails, Leave
  <1>2. \A p \in Reached : ~(p = Top.path \/ Ahead(Top, p))
    BY <1>1 DEF Reached, Ahead
  <1>3. CallsInv(calls', methods')
    BY <1>1, <1>2, TopCall, PopCall
  <1>4. Len(calls) = 1 => Top.path = Root
    BY <1>1, TopCall DEF CallsInv
  <1> QED
    BY <1>1, <1>3, <1>4

\* A dead link: no directory that is reached lies past it.
LEMMA StatFailsKeeps ==
    ASSUME APIInv, NEW i, StatFails(i)
    PROVE  CallsInv(calls', methods') /\ (Len(calls) = 1 => Root \in DOMAIN tree /\ InError(Root))
  <1>1. /\ calls # <<>> /\ Top.path \in DOMAIN tree /\ i = Top.next /\ i <= Len(tree[Top.path])
        /\ Is(Top.path, i, "link")
        /\ calls' = SubSeq(calls, 1, Len(calls) - 1) /\ methods' = methods
    BY DEF StatFails, Reads, Leave
  <1>2. i \in 1..Len(tree[Top.path]) /\ Top.path # <<>> /\ Len(tree[Top.path]) \in Nat
    BY <1>1, TopCall, TreeTypes DEF Frame, Sound, Entered
  <1>3. InError(Top.path)
    BY <1>1, <1>2 DEF InError
  <1>4. \A p \in Reached : ~Ahead(Top, p)
    <2> SUFFICES ASSUME NEW p \in Reached, Ahead(Top, p)
                 PROVE  FALSE
      OBVIOUS
    <2>1. PICK j \in 1..Len(tree[Top.path]) : Top.next <= j /\ Below(Sub(Top.path, j), p)
      BY DEF Ahead
    <2>2. \A x \in 1..j : ~Is(Top.path, x, "link")
      BY <1>1, <1>2, <2>1, TopCall, ReachedThrough
    <2>3. i \in 1..j
      BY <1>1, <1>2, <2>1
    <2> QED
      BY <1>1, <2>2, <2>3
  <1>5. \A p \in Reached : p = Top.path \/ Ahead(Top, p) => Offers(p) \subseteq ToSet(methods)
    BY <1>3, <1>4 DEF Offers
  <1>6. CallsInv(calls', methods')
    BY <1>1, <1>5, TopCall, PopCall
  <1>7. Len(calls) = 1 => Top.path = Root
    BY <1>1, TopCall DEF CallsInv
  <1> QED
    BY <1>1, <1>3, <1>6, <1>7

\* A call at its last entry has nothing ahead.
LEMMA NothingAhead ==
    ASSUME APIInv, calls # <<>>, Top.path \in DOMAIN tree, Top.next > Len(tree[Top.path])
    PROVE  \A p : ~Ahead(Top, p)
  <1>1. Len(tree[Top.path]) \in Nat /\ Top.next \in Nat
    BY TopCall, TreeTypes DEF Frame
  <1> QED
    BY <1>1 DEF Ahead

\* A file in error.
LEMMA ParseFailsKeeps ==
    ASSUME APIInv, NEW k, ParseFails(k)
    PROVE  CallsInv(calls', methods') /\ (Len(calls) = 1 => Root \in DOMAIN tree /\ InError(Root))
  <1>1. /\ calls # <<>> /\ Top.path \in DOMAIN tree /\ Top.next > Len(tree[Top.path])
        /\ k \in Top.files /\ tree[Top.path][k].kind = "broken"
        /\ calls' = SubSeq(calls, 1, Len(calls) - 1) /\ methods' = methods
    BY DEF ParseFails, Parsing, Leave
  <1>2. k \in 1..Len(tree[Top.path]) /\ Is(Top.path, k, "broken")
    <2>1. /\ Len(tree[Top.path]) \in Nat /\ Top.next \in Nat /\ Top.next <= Len(tree[Top.path]) + 1
          /\ k \in 1..Top.next - 1 /\ (Is(Top.path, k, "file") \/ Is(Top.path, k, "broken"))
      BY <1>1, TopCall, TreeTypes DEF Frame, Sound
    <2> QED
      BY <1>1, <2>1 DEF Is
  <1>3. InError(Top.path)
    BY <1>2 DEF InError
  <1>4. \A p \in Reached : p = Top.path \/ Ahead(Top, p) => Offers(p) \subseteq ToSet(methods)
    BY <1>1, <1>3, NothingAhead DEF Offers
  <1>5. CallsInv(calls', methods')
    BY <1>1, <1>4, TopCall, PopCall
  <1>6. Len(calls) = 1 => Top.path = Root
    BY <1>1, TopCall DEF CallsInv
  <1> QED
    BY <1>1, <1>3, <1>5, <1>6

\* All of a package is parsed.
LEMMA ReturnKeeps ==
    ASSUME APIInv, ReturnNil
    PROVE  CallsInv(calls', methods') /\ (Len(calls) = 1 => Root \in DOMAIN tree /\ ~InError(Root))
  <1>1. /\ calls # <<>> /\ Top.path \in DOMAIN tree /\ Top.next > Len(tree[Top.path]) /\ Top.files = {}
        /\ calls' = SubSeq(calls, 1, Len(calls) - 1) /\ methods' = methods
    BY DEF ReturnNil, Leave
  <1>2. /\ Len(tree[Top.path]) \in Nat /\ Top.next \in Nat
        /\ \A j \in 1..Len(tree[Top.path]) : j \in 1..Top.next - 1
    BY <1>1, TopCall, TreeTypes DEF Frame
  <1>3. ~InError(Top.path)
    BY <1>1, <1>2, TopCall DEF InError, Sound
  <1>4. Declares(Top.path) \subseteq ToSet(methods)
    <2> SUFFICES ASSUME NEW j \in 1..Len(tree[Top.path]), Is(Top.path, j, "file"), NEW e \in DeclaredIn(Top.path, j)
                 PROVE  Method(Top.path, j, e) \in ToSet(methods)
      BY DEF Declares
    <2>1. Past(Top, j, e)
      BY <1>1, <1>2 DEF Past
    <2> QED
      BY <1>1, <2>1, TopCall DEF Tallied
  <1>5. \A p \in Reached : p = Top.path \/ Ahead(Top, p) => Offers(p) \subseteq ToSet(methods)
    BY <1>1, <1>4, NothingAhead DEF Offers
  <1>6. CallsInv(calls', methods')
    BY <1>1, <1>5, TopCall, PopCall
  <1>7. Len(calls) = 1 => Top.path = Root
    BY <1>1, TopCall DEF CallsInv
  <1> QED
    BY <1>1, <1>3, <1>6, <1>7

\* A call that begins.
LEMMA CallBegins ==
    ASSUME NEW p \in Seq(STRING), NEW ms, Entered(p), tree \in Packages,
           \A m \in ToSet(ms) : ~Ahead(Call(p), m.pkgpath) /\ m.pkgpath # p
    PROVE  Call(p) \in Frame /\ Call(p).path = p /\ Sound(Call(p)) /\ Tallied(Call(p), ms)
  <1>1. Call(p) \in Frame
    BY DEF Call, Frame
  <1>2. Call(p).path = p /\ Call(p).next = 1 /\ Call(p).files = {} /\ Call(p).decl = 1
    BY DEF Call
  <1> HIDE DEF Call
  <1>3. Sound(Call(p))
    <2>1. p \in DOMAIN tree => Len(tree[p]) \in Nat
      BY TreeTypes
    <2> QED
      BY <1>1, <1>2, <2>1 DEF Sound
  <1>4. Tallied(Call(p), ms)
    <2>1. ASSUME p \in DOMAIN tree, NEW j \in 1..Len(tree[p]), NEW e
          PROVE  ~Past(Call(p), j, e)
      <3>1. Len(tree[p]) \in Nat
        BY <2>1, TreeTypes
      <3> QED
        BY <1>2, <2>1, <3>1 DEF Past
    <2> QED
      BY <1>2, <2>1 DEF Tallied
  <1> QED
    BY <1>1, <1>2, <1>3, <1>4

\* What is ahead of a call through its next entry becomes the call it makes, or
\* is ahead of that.
LEMMA EnterKeeps ==
    ASSUME APIInv, NEW i, EnterDirectory(i)
    PROVE  CallsInv(calls', methods')
  <1> DEFINE n == Len(calls)
             d == [Top EXCEPT !.next = i + 1]
             q == Sub(Top.path, i)
             cs == [calls EXCEPT ![n] = d]
             ms == methods
  <1>1. /\ calls # <<>> /\ Top.path \in DOMAIN tree /\ i = Top.next /\ i <= Len(tree[Top.path])
        /\ Is(Top.path, i, "dir") /\ calls' = Append(cs, Call(q)) /\ methods' = ms
    BY DEF EnterDirectory, Reads
  <1>2. /\ tree \in Packages /\ CallsInv(calls, ms) /\ Top = calls[n] /\ Top \in Frame /\ Sound(Top) /\ Tallied(Top, ms)
        /\ ms \in Seq(Known) /\ n \in Nat \ {0} /\ calls \in Seq(Frame)
    BY <1>1, TopCall DEF CallsInv
  <1>3. d \in Frame /\ d.path = Top.path /\ d.next = i + 1 /\ d.decl = Top.decl /\ d.files = Top.files
    <2>1. i \in Nat
      BY <1>1, <1>2 DEF Frame
    <2>2. d = [path |-> Top.path, next |-> i + 1, files |-> Top.files, decl |-> Top.decl]
      BY <1>2, <2>1 DEF Frame
    <2> HIDE DEF d
    <2> QED
      BY <1>2, <2>1, <2>2 DEF Frame
  <1>4. /\ Len(tree[Top.path]) \in Nat /\ i \in Nat \ {0} /\ i \in 1..Len(tree[Top.path])
        /\ q \in Seq(STRING) /\ Top.path \in Seq(STRING) /\ Top.path # <<>>
        /\ tree[Top.path][i].name \in STRING
    <2>1. Len(tree[Top.path]) \in Nat /\ i \in Nat \ {0} /\ i \in 1..Len(tree[Top.path])
      BY <1>1, <1>2, TreeTypes DEF Frame
    <2>2. tree[Top.path][i].name \in STRING
      BY <1>1, <1>2, <2>1, TreeTypes DEF Entry
    <2> QED
      BY <1>1, <1>2, <2>1, <2>2, TreeTypes DEF Frame, Sound, Entered
  <1>5. \A p : p \in Seq(STRING) /\ Below(q, p) => Ahead(Top, p)
    BY <1>1, <1>4 DEF Ahead
  <1>6. Call(q).path = q
    BY DEF Call
  <1>7. Entered(q)
    <2>1. Leads(Top.path, tree[Top.path][i].name)
      <3>1. \A x \in 1..i : x \in 1..i - 1 \/ x = i
        BY <1>4
      <3>2. \A x \in 1..i - 1 : ~Is(Top.path, x, "link")
        BY <1>1, <1>2 DEF Sound
      <3>3. ~Is(Top.path, i, "link")
        BY <1>1 DEF Is
      <3> QED
        BY <1>1, <1>4, <3>1, <3>2, <3>3 DEF Leads
    <2>2. Entered(Top.path)
      BY <1>2 DEF Sound
    <2>3. /\ Len(q) = Len(Top.path) + 1 /\ q[Len(Top.path) + 1] = tree[Top.path][i].name
          /\ \A x \in 1..Len(Top.path) : q[x] = Top.path[x]
      BY <1>4, AppendProperties DEF Sub
    <2>4. \A k \in 1..Len(Top.path) : SubSeq(q, 1, k) = SubSeq(Top.path, 1, k)
      <3> TAKE k \in 1..Len(Top.path)
      <3>1. /\ SubSeq(q, 1, k) \in Seq(STRING) /\ SubSeq(Top.path, 1, k) \in Seq(STRING)
            /\ Len(SubSeq(q, 1, k)) = k /\ Len(SubSeq(Top.path, 1, k)) = k
        BY <1>4, <2>3
      <3>2. \A x \in 1..k : SubSeq(q, 1, k)[x] = q[x] /\ SubSeq(Top.path, 1, k)[x] = Top.path[x]
        BY <1>4, <2>3
      <3>3. \A x \in 1..k : SubSeq(q, 1, k)[x] = SubSeq(Top.path, 1, k)[x]
        BY <2>3, <3>2, <1>4
      <3> QED
        BY <3>1, <3>3, SeqEqual
    <2>5. SubSeq(Top.path, 1, Len(Top.path)) = Top.path
      BY <1>4
    <2>6. \A k \in 1..Len(q) - 1 : SubSeq(q, 1, k) \in DOMAIN tree /\ Leads(SubSeq(q, 1, k), q[k + 1])
      <3> TAKE k \in 1..Len(q) - 1
      <3>1. k \in 1..Len(Top.path)
        BY <1>4, <2>3
      <3>2. CASE k = Len(Top.path)
        BY <1>1, <2>1, <2>3, <2>4, <2>5, <3>1, <3>2
      <3>3. CASE k # Len(Top.path)
        <4>1. k \in 1..Len(Top.path) - 1 /\ k + 1 \in 1..Len(Top.path)
          BY <1>4, <3>1, <3>3
        <4> QED
          BY <2>2, <2>3, <2>4, <3>1, <4>1 DEF Entered
      <3> QED
        BY <3>2, <3>3
    <2>7. q # <<>> /\ q[1] = Root[1]
      <3>1. 1 \in 1..Len(Top.path)
        BY <1>4
      <3> QED
        BY <1>4, <2>2, <2>3, <3>1 DEF Entered
    <2> HIDE DEF q
    <2> QED
      BY <2>6, <2>7 DEF Entered
  <1>8. ASSUME NEW p \in Seq(STRING), Ahead(Call(q), p)
        PROVE  Ahead(Top, p)
    <2>1. PICK j \in 1..Len(tree[q]) : q \in DOMAIN tree /\ Below(Sub(q, j), p)
      BY <1>8, <1>6 DEF Ahead
    <2>2. tree[q][j].name \in STRING
      BY <1>2, <2>1, TreeTypes DEF Entry
    <2> HIDE DEF q
    <2>3. Below(Append(q, tree[q][j].name), p)
      BY <2>1 DEF Sub
    <2>4. Below(q, p)
      BY <1>4, <2>2, <2>3, BelowSub, ZenonT(40)
    <2> QED
      BY <1>5, <2>4
  <1>9. \A m \in ToSet(ms) : m.pkgpath \in Seq(STRING) /\ ~Ahead(Top, m.pkgpath)
    <2> TAKE m \in ToSet(ms)
    <2>1. m \in Known
      BY <1>2 DEF ToSet
    <2>2. m.pkgpath \in DOMAIN tree
      BY <1>2, <2>1, KnownMethods DEF Reached
    <2> QED
      BY <1>2, <2>2, TreeTypes DEF Tallied
  <1>10. Call(q) \in Frame /\ Sound(Call(q)) /\ Tallied(Call(q), ms)
    <2>1. Below(q, q)
      BY <1>4, BelowSame
    <2>2. \A m \in ToSet(ms) : ~Ahead(Call(q), m.pkgpath) /\ m.pkgpath # q
      BY <1>4, <1>5, <1>8, <1>9, <2>1
    <2> HIDE DEF q
    <2> QED
      BY <1>2, <1>4, <1>7, <2>2, CallBegins
  <1>11. Sound(d) /\ Tallied(d, ms)
    <2>1. /\ Top.files \subseteq 1..i - 1 /\ Top.decl = 1
          /\ ~Is(Top.path, i, "file") /\ ~Is(Top.path, i, "broken") /\ ~Is(Top.path, i, "link")
      BY <1>1, <1>2, <1>4 DEF Is, Sound
    <2>2. \A j : j \in 1..d.next - 1 <=> j \in 1..i - 1 \/ j = i
      BY <1>3, <1>4
    <2> HIDE DEF d
    <2>3. Sound(d)
      BY <1>1, <1>2, <1>3, <1>4, <2>1, <2>2 DEF Sound
    <2>4. \A j, e : j \in Nat /\ e \in Nat \ {0} /\ Past(Top, j, e) => Past(d, j, e)
      BY <1>1, <1>3, <1>4 DEF Past
    <2>5. \A j, e : j \in Nat /\ e \in Nat \ {0} /\ Past(d, j, e) => Past(Top, j, e) \/ j = i
      BY <1>1, <1>3, <1>4 DEF Past
    <2>6. ASSUME NEW j \in 1..Len(tree[d.path]), NEW e \in DeclaredIn(d.path, j), Is(d.path, j, "file"), Past(d, j, e)
          PROVE  Method(d.path, j, e) \in ToSet(ms)
      <3>1. Len(tree[Top.path][j].decls) \in Nat
        BY <1>1, <1>2, <1>3, TreeTypes
      <3>2. e \in Nat \ {0} /\ j \in Nat
        BY <1>3, <1>4, <3>1 DEF DeclaredIn
      <3> QED
        BY <1>1, <1>2, <1>3, <2>1, <2>5, <2>6, <3>2 DEF Tallied
    <2>7. ASSUME NEW m \in ToSet(ms)
          PROVE  ~Ahead(d, m.pkgpath) /\ (m.pkgpath = d.path => Past(d, m.file, m.decl))
      <3>1. m \in Known
        BY <1>2 DEF ToSet
      <3>2. m.decl \in Nat \ {0} /\ m.file \in 1..Len(tree[m.pkgpath])
        BY <1>2, <3>1, KnownMethods
      <3>3. Top.next <= d.next
        BY <1>1, <1>3, <1>4
      <3>4. ~Ahead(d, m.pkgpath)
        BY <1>2, <1>3, <1>9, <3>3, AheadOn
      <3>5. m.pkgpath = d.path => m.file \in Nat
        BY <1>3, <1>4, <3>2
      <3> QED
        BY <1>2, <1>3, <2>4, <3>2, <3>4, <3>5 DEF Tallied
    <2> QED
      BY <2>3, <2>6, <2>7 DEF Tallied
  <1>12. /\ cs \in Seq(Frame) /\ Len(cs) = n /\ cs[n] = d
         /\ \A k \in 1..n : k # n => cs[k] = calls[k]
    <2> HIDE DEF d
    <2> QED
      BY <1>2, <1>3
  <1> HIDE DEF n, d, q, cs, ms
  <1>13. PICK es : es = Append(cs, Call(q))
    OBVIOUS
  <1>14. /\ es \in Seq(Frame) /\ Len(es) = n + 1 /\ es[n + 1] = Call(q) /\ es[n] = d
         /\ \A k \in 1..n : k # n => es[k] = calls[k]
    <2>1. n \in 1..n
      BY <1>2
    <2> QED
      BY <1>10, <1>12, <1>13, <2>1, AppendProperties
  <1>15. \A k : k \in 1..n + 1 <=> k \in 1..n \/ k = n + 1
    BY <1>2
  <1>16. \A k \in 1..n : es[k].path = calls[k].path
    BY <1>2, <1>3, <1>14
  <1>17. Chain(es)
    <2> SUFFICES ASSUME NEW k \in 1..n + 1, NEW x \in 1..k - 1
                 PROVE  /\ es[x].path \in DOMAIN tree /\ es[x].next > 1
                        /\ Is(es[x].path, es[x].next - 1, "dir") /\ Below(Sub(es[x].path, es[x].next - 1), es[k].path)
      BY <1>14 DEF Chain
    <2>1. x \in 1..n
      BY <1>2
    <2>2. CASE x = n
      <3>1. k = n + 1
        BY <1>2, <2>2
      <3>2. es[x] = d /\ es[k].path = q /\ d.next - 1 = i /\ d.next > 1
        BY <1>3, <1>4, <1>6, <1>14, <2>2, <3>1
      <3>3. Below(q, q)
        BY <1>4, BelowSame
      <3> QED
        BY <1>1, <1>3, <3>2, <3>3 DEF q
    <2>3. CASE x # n
      <3>1. es[x] = calls[x]
        BY <1>14, <2>1, <2>3
      <3>2. PICK y \in 1..n : y = IF k = n + 1 THEN n ELSE k
        BY <1>2, <1>15
      <3>3. x \in 1..y - 1
        BY <1>2, <2>1, <2>3, <3>2
      <3>4. /\ calls[x].path \in DOMAIN tree /\ calls[x].next > 1
            /\ Is(calls[x].path, calls[x].next - 1, "dir") /\ Below(Sub(calls[x].path, calls[x].next - 1), calls[y].path)
        BY <1>2, <3>3 DEF CallsInv, Chain, n
      <3>5. CASE k # n + 1
        BY <1>16, <3>1, <3>2, <3>4, <3>5
      <3>6. CASE k = n + 1
        <4>1. Below(Sub(calls[x].path, calls[x].next - 1), Top.path) /\ es[k].path = q
          BY <1>2, <1>6, <1>14, <3>2, <3>4, <3>6
        <4>2. Sub(calls[x].path, calls[x].next - 1) \in Seq(STRING)
          <5>1. Sound(calls[x]) /\ calls[x] \in Frame
            BY <1>2, <2>1 DEF CallsInv, n
          <5>2. calls[x].next \in Nat /\ calls[x].next <= Len(tree[calls[x].path]) + 1 /\ Len(tree[calls[x].path]) \in Nat
            BY <1>2, <3>4, <5>1, TreeTypes DEF Frame, Sound
          <5>3. calls[x].next - 1 \in 1..Len(tree[calls[x].path])
            BY <3>4, <5>2
          <5> QED
            BY <1>2, <3>4, <5>3, TreeTypes
        <4>3. Below(Top.path, q)
          <5>1. Below(Append(Top.path, tree[Top.path][i].name), q)
            BY <1>4, BelowSame DEF q, Sub
          <5>2. Top.path \in Seq(STRING) /\ q \in Seq(STRING) /\ tree[Top.path][i].name \in STRING
            BY <1>4
          <5> QED
            BY <5>1, <5>2, BelowSub, Zenon
        <4>4. Below(Sub(calls[x].path, calls[x].next - 1), q)
          BY <1>4, <4>1, <4>2, <4>3, BelowTrans
        <4> QED
          BY <3>1, <3>4, <4>1, <4>4
      <3> QED
        BY <3>5, <3>6
    <2> QED
      BY <2>2, <2>3
  <1>18. es # <<>> /\ es[1].path = Root
    BY <1>1, <1>2, <1>14, <1>16 DEF CallsInv
  <1>19. \A k \in 1..n + 1 : Sound(es[k]) /\ Tallied(es[k], ms)
    <2> TAKE k \in 1..n + 1
    <2>1. CASE k = n + 1
      BY <1>10, <1>14, <2>1
    <2>2. CASE k = n
      BY <1>11, <1>14, <2>2
    <2>3. CASE k # n /\ k # n + 1
      <3>1. k \in 1..n /\ es[k] = calls[k]
        BY <1>14, <1>15, <2>3
      <3> QED
        BY <1>2, <3>1 DEF CallsInv, n
    <2> QED
      BY <2>1, <2>2, <2>3
  <1>20. \A p \in Reached : Covered(p, es, ms)
    <2> SUFFICES ASSUME NEW p \in Reached, ~(Offers(p) \subseteq ToSet(ms))
                 PROVE  \E k \in 1..n + 1 : es[k].path = p \/ Ahead(es[k], p)
      BY <1>14 DEF Covered
    <2>1. PICK k \in 1..n : calls[k].path = p \/ Ahead(calls[k], p)
      BY <1>2 DEF CallsInv, Covered, n
    <2>2. CASE calls[k].path = p
      BY <1>15, <1>16, <2>2
    <2>3. CASE k # n /\ Ahead(calls[k], p)
      BY <1>14, <1>15, <2>3
    <2>4. CASE k = n /\ Ahead(calls[k], p)
      <3>1. PICK j \in 1..Len(tree[Top.path]) : Top.next <= j /\ Is(Top.path, j, "dir") /\ Below(Sub(Top.path, j), p)
        BY <1>2, <2>4 DEF Ahead
      <3>2. CASE j = i
        <4>1. Below(q, p)
          BY <3>1, <3>2 DEF q
        <4>2. q # <<>>
          BY <1>4, AppendProperties DEF q, Sub
        <4>3. p = q \/ Ahead(Call(q), p)
          BY <1>2, <1>4, <4>1, <4>2, CallAhead
        <4> QED
          BY <1>6, <1>14, <1>15, <4>3
      <3>3. CASE j # i
        <4>1. d.next <= j
          BY <1>1, <1>3, <1>4, <3>1, <3>3
        <4>2. Ahead(d, p)
          BY <1>1, <1>3, <3>1, <4>1 DEF Ahead
        <4>3. n \in 1..n + 1
          BY <1>2
        <4> QED
          BY <1>14, <4>2, <4>3
      <3> QED
        BY <3>2, <3>3
    <2> QED
      BY <2>1, <2>2, <2>3, <2>4
  <1>21. CallsInv(es, ms)
    BY <1>2, <1>14, <1>17, <1>18, <1>19, <1>20 DEF CallsInv
  <1> QED
    BY <1>1, <1>13, <1>21

\* The root.
LEMMA GenerateKeeps ==
    ASSUME APIInv, GenerateAPI
    PROVE  CallsInv(calls', methods')
  <1>1. /\ tree \in Packages /\ calls' = <<Call(Root)>> /\ methods' = <<>>
    BY DEF APIInv, GenerateAPI
  <1>2. Root \in Seq(STRING) /\ Len(Root) = 1 /\ Root # <<>> /\ Entered(Root)
    <2>1. Root \in Seq(STRING) /\ Len(Root) = 1 /\ Root # <<>>
      <3>1. \A S, x : x \in S => <<x>> \in Seq(S) /\ Len(<<x>>) = 1
        OBVIOUS
      <3>2. <<RootName>> \in Seq(STRING) /\ Len(<<RootName>>) = 1
        BY <3>1, NameAssumption
      <3> QED
        BY <3>2 DEF Root
    <2> QED
      BY <2>1 DEF Entered
  <1>3. ToSet(<<>>) = {} /\ <<>> \in Seq(Known) /\ Injective(<<>>)
    BY DEF ToSet, Injective
  <1>4. Call(Root) \in Frame /\ Call(Root).path = Root /\ Sound(Call(Root)) /\ Tallied(Call(Root), <<>>)
    BY <1>1, <1>2, <1>3, CallBegins
  <1> DEFINE cs == <<Call(Root)>>
  <1>5. cs \in Seq(Frame) /\ Len(cs) = 1 /\ cs[1] = Call(Root) /\ cs # <<>>
    BY <1>4
  <1> HIDE DEF cs
  <1>6. Chain(cs)
    BY <1>5 DEF Chain
  <1>7. \A p \in Reached : Covered(p, cs, <<>>)
    <2> TAKE p \in Reached
    <2>1. p \in Seq(STRING) /\ Entered(p)
      BY <1>1, TreeTypes DEF Reached
    <2>2. Len(p) >= 1 /\ p[1] = Root[1]
      BY <2>1 DEF Entered
    <2>3. Below(Root, p)
      BY <1>2, <2>2 DEF Below
    <2>4. p = Root \/ Ahead(Call(Root), p)
      BY <1>1, <1>2, <2>3, CallAhead
    <2>5. 1 \in 1..Len(cs)
      BY <1>5
    <2> QED
      BY <1>4, <1>5, <2>4, <2>5 DEF Covered
  <1>8. CallsInv(cs, <<>>)
    BY <1>3, <1>4, <1>5, <1>6, <1>7 DEF CallsInv
  <1> QED
    BY <1>1, <1>8 DEF cs

\* Before the root is opened there is no call and no method.
LEMMA APIInvInit == APIInit => APIInv
  BY DEF APIInit, APIInv, Outcome

\* What a return leaves to the calls above.
LEMMA Left ==
    ASSUME APIInv, calls # <<>>, NEW failed \in BOOLEAN, Leave(failed), CallsInv(calls', methods'),
           Len(calls) = 1 => IF failed THEN Root \notin DOMAIN tree \/ InError(Root)
                                    ELSE Root \in DOMAIN tree /\ ~InError(Root)
    PROVE  APIInv'
  <1>1. /\ tree' = tree /\ calls' = SubSeq(calls, 1, Len(calls) - 1)
        /\ apiState' = IF Len(calls) > 1 THEN "parsing" ELSE IF failed THEN "failed" ELSE "logged"
    BY DEF Leave
  <1>2. CallsInv(calls, methods)'
    BY <1>1, CallsStay
  <1>3. calls \in Seq(Frame) /\ Len(calls) \in Nat \ {0} /\ tree \in Packages
    BY TopCall DEF CallsInv
  <1>4. calls' # <<>> <=> Len(calls) > 1
    <2> DEFINE n == Len(calls)
    <2>1. \A k \in 1..n - 1 : calls[k] \in Frame
      BY <1>3
    <2>2. n \in Nat \ {0} /\ 1 \in Int /\ n - 1 \in Int
      BY <1>3
    <2> HIDE DEF n
    <2>3. Len(SubSeq(calls, 1, n - 1)) = (IF 1 <= n - 1 THEN (n - 1) - 1 + 1 ELSE 0) /\ SubSeq(calls, 1, n - 1) \in Seq(Frame)
      BY <2>1, <2>2, SubSeqProperties
    <2>4. calls' = SubSeq(calls, 1, n - 1)
      BY <1>1 DEF n
    <2>5. calls' \in Seq(Frame) /\ (Len(calls') > 0 <=> n > 1)
      BY <2>2, <2>3, <2>4
    <2>6. calls' # <<>> <=> Len(calls') > 0
      BY <2>5
    <2> QED
      BY <2>5, <2>6 DEF n
  <1>5. Root' = Root /\ (InError(Root)' <=> InError(Root))
    BY <1>1, TreeStays DEF Root
  <1>6. Outcome'
    <2>1. \A n \in Nat \ {0} : n > 1 \/ n = 1
      OBVIOUS
    <2>2. CASE Len(calls) > 1
      BY <1>1, <2>2 DEF Outcome
    <2>3. CASE Len(calls) = 1
      <3>1. apiState' = IF failed THEN "failed" ELSE "logged"
        BY <1>1, <2>3
      <3>2. CASE failed
        BY <1>1, <1>5, <2>3, <3>1, <3>2 DEF Outcome
      <3>3. CASE ~failed
        BY <1>1, <1>5, <2>3, <3>1, <3>3 DEF Outcome
      <3> QED
        BY <3>2, <3>3
    <2> QED
      BY <1>3, <2>1, <2>2, <2>3
  <1> QED
    BY <1>1, <1>2, <1>3, <1>4, <1>6 DEF APIInv

\* What goes on.
LEMMA GoneOn ==
    ASSUME tree \in Packages, tree' = tree, apiState' = "parsing", calls' # <<>>, CallsInv(calls', methods')
    PROVE  APIInv'
  <1>1. CallsInv(calls, methods)'
    BY CallsStay
  <1> QED
    BY <1>1 DEF APIInv, Outcome

\* Each step of genapi keeps what holds of its calls.
LEMMA APIInvStep == APIInv /\ [APINext]_apiVars => APIInv'
  <1> SUFFICES ASSUME APIInv, [APINext]_apiVars
               PROVE  APIInv'
    OBVIOUS
  <1>1. CASE GenerateAPI
    <2>1. calls' # <<>> /\ tree' = tree /\ apiState' = "parsing" /\ tree \in Packages
      BY <1>1 DEF GenerateAPI, APIInv
    <2> QED
      BY <1>1, <2>1, GenerateKeeps, GoneOn
  <1>2. CASE OpenFails
    BY <1>2, OpenFailsKeeps, Left DEF OpenFails
  <1>3. CASE ReturnNil
    BY <1>3, ReturnKeeps, Left DEF ReturnNil
  <1>4. CASE calls # <<>> /\ (Read(Top.next) \/ \E k \in Top.files : Parse(k))
    <2>1. tree \in Packages /\ apiState = "parsing" /\ calls \in Seq(Frame) /\ Len(calls) \in Nat \ {0}
      BY <1>4, TopCall DEF CallsInv
    <2>2. \A d : [calls EXCEPT ![Len(calls)] = d] # <<>>
      BY <1>4, <2>1
    <2>3. \A d : SetTop(d) => calls' # <<>> /\ tree' = tree /\ apiState' = "parsing"
      BY <2>1, <2>2 DEF SetTop
    <2>4. CASE \E i : SkipEntry(i)
      BY <2>1, <2>3, <2>4, SkipKeeps, GoneOn DEF SkipEntry
    <2>5. CASE \E i : StatFails(i)
      BY <1>4, <2>5, StatFailsKeeps, Left DEF StatFails
    <2>6. CASE \E i : EnterDirectory(i)
      <3>1. tree' = tree /\ apiState' = "parsing"
        BY <2>1, <2>6 DEF EnterDirectory
      <3>2. PICK i : EnterDirectory(i)
        BY <2>6
      <3>3. CallsInv(calls', methods')
        BY <3>2, EnterKeeps
      <3>4. calls' # <<>>
        BY <3>2 DEF EnterDirectory
      <3> QED
        BY <2>1, <3>1, <3>3, <3>4, GoneOn
    <2>7. CASE \E i : AddFile(i)
      BY <2>1, <2>3, <2>7, AddFileKeeps, GoneOn DEF AddFile
    <2>8. CASE \E k : ParseFails(k)
      BY <1>4, <2>8, ParseFailsKeeps, Left DEF ParseFails
    <2>9. CASE \E k : ParseDecl(k)
      BY <2>1, <2>3, <2>9, DeclKeeps, GoneOn, SMTT(30) DEF ParseDecl
    <2>10. CASE \E k : NextFile(k)
      BY <2>1, <2>3, <2>10, NextFileKeeps, GoneOn DEF NextFile
    <2> QED
      BY <1>4, <2>4, <2>5, <2>6, <2>7, <2>8, <2>9, <2>10 DEF Read, Parse
  <1>5. CASE UNCHANGED apiVars
    <2>1. tree' = tree /\ calls' = calls /\ methods' = methods /\ apiState' = apiState
      BY <1>5 DEF apiVars
    <2>2. apiState # "start" => CallsInv(calls, methods)'
      BY <2>1, CallsStay DEF APIInv
    <2>3. Outcome'
      BY <2>1, TreeStays DEF Outcome, APIInv, Root
    <2> QED
      BY <2>1, <2>2, <2>3 DEF APIInv
  <1> QED
    BY <1>1, <1>2, <1>3, <1>4, <1>5 DEF APINext

\* It gives what is listed in the end.
LEMMA APIInvKept == APIInv => ApiKept
  <1> SUFFICES ASSUME APIInv, apiState \in {"failed", "logged"}
               PROVE  /\ UNION {Offers(p) : p \in Reached} \subseteq ToSet(methods)
                      /\ ToSet(methods) \subseteq UNION {Declares(p) : p \in Reached}
                      /\ Injective(methods)
                      /\ apiState = "failed" <=> Root \notin DOMAIN tree \/ InError(Root)
    BY DEF ApiKept
  <1>1. calls = <<>> /\ CallsInv(calls, methods) /\ Outcome
    BY DEF APIInv
  <1>2. methods \in Seq(Known) /\ Injective(methods)
    BY <1>1 DEF CallsInv
  <1>3. ToSet(methods) \subseteq Known
    BY <1>2 DEF ToSet
  <1>4. \A p \in Reached : Offers(p) \subseteq ToSet(methods)
    BY <1>1 DEF CallsInv, Covered
  <1> QED
    BY <1>1, <1>2, <1>3, <1>4 DEF Known, Outcome

\* Whatever fails in one package, genapi lists every method of the others, and
\* none twice or that no package declares.
THEOREM ApiMethodsKept == APISpec => []ApiKept
  <1>1. APISpec => []APIInv
    BY APIInvInit, APIInvStep, PTL DEF APISpec
  <1> QED
    BY <1>1, APIInvKept, PTL
=============================================================================
