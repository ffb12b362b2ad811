-------------------------------- MODULE App --------------------------------
(***************************************************************************)
(* A browser and the App Engine application: the router of                 *)
(* src/espra/main.go with the redirects the browser follows, and behind it *)
(* the services that look something up, profile.Login, profile.Gravatar    *)
(* and item.Create.  A login reads two entities and stores a session, and  *)
(* the datastore may change between any two of these calls.  The token of  *)
(* a session is presented to auth.Decode later, perhaps after a deployment *)
(* with other signing keys.                                                *)
(*                                                                         *)
(* The dispatcher between router and services is Rpc.                      *)
(***************************************************************************)
EXTENDS Ident, Stamp, Auth

CONSTANTS
    OfficialHost, RedirectHost, OtherHost,
    Spellings,    \* what people type for their login, sequences of characters
    Usernames,    \* usernames as provided at signup
    Secrets,      \* passphrases, with the salt and parameters they are derived under
    LoginIDs, KeyIDs,
    Started, MaxTime,   \* bound: the clock runs from Started to MaxTime
    MaxChanges    \* bound: changes of accounts and of signing keys

ASSUME HostAssumption == Cardinality({OfficialHost, RedirectHost, OtherHost, ""}) = 4
ASSUME KeyAssumption ==
    /\ LoginIDs \subseteq Nat \ {0} /\ LoginIDs # {}
    /\ KeyIDs \subseteq Nat /\ KeyIDs # {}
ASSUME UsernameAssumption == \A name \in Usernames : name \in Seq(STRING) /\ Username(name) # NotOk

Hour == 1

\* A timestamp has digits for every time.
ASSUME ClockAssumption ==
    Started \in Nat /\ MaxTime \in Nat /\ Started <= MaxTime /\ MaxTime + Hour < Place(Width)

VARIABLES
    devServer,
    url,       \* what the browser asks for
    stage,     \* how far the application is with it
    moves,     \* redirects followed
    req,       \* the login in progress
    index,     \* entities LE and LU: normalised email or username -> login, 0 if none
    logins,    \* entities L
    sessions,  \* entities S
    clock,
    SigningKeys, current,
    wire,      \* the token as the browser has it
    verdict,   \* of auth.Decode
    changes,   \* counter for the bound
    seen       \* history: index and logins since the login began

accounts == <<index, logins>>
config == <<SigningKeys, current>>
browser == <<url, moves, devServer>>
vars == <<browser, stage, req, accounts, sessions, clock, config, wire, verdict, changes, seen>>

Paths == {"/", "/page", "/_api", "/_ah/start", "/_ah/stop", "/_get/", "/_other"}

\* App Engine fills in the host; the development server leaves it empty.
Urls == [scheme : {"http", "https"}, host : {OfficialHost, RedirectHost, OtherHost}, path : Paths,
         override : {""}]
DevUrls == [scheme : {"http"}, host : {""}, path : Paths,
            override : {"", OfficialHost, RedirectHost, OtherHost}]

\* The entity an email address or a username is looked up under.
EntityKey(login) ==
    IF \E i \in 1..Len(login) : login[i] = "@" THEN ToLower(login) ELSE Username(login)

\* Emails and normalised usernames.
Keys == {EntityKey(s) : s \in Spellings} \ {NotOk}

Missing == [username |-> NotOk, passphrase |-> "none"]
NoRequest == [login |-> <<>>, passphrase |-> "", id |-> 0, name |-> NotOk, session |-> 0, key |-> 0]

Session(id, time) == [parent |-> id, initiated |-> time, expires |-> From(time + Hour)]

\* Requests affect each other by what they store, so that one request is
\* followed, which may find the session of an earlier one.
Init ==
    /\ devServer \in BOOLEAN
    /\ url = [scheme |-> "http", host |-> "", path |-> "/", override |-> ""]
    /\ stage = "none" /\ moves = 0 /\ req = NoRequest
    /\ index \in [Keys -> {0, CHOOSE id \in LoginIDs : TRUE}]
    /\ \E name \in Usernames, secret \in Secrets :
          logins = [id \in LoginIDs |-> [username |-> name, passphrase |-> secret]]
    /\ sessions \in {<<>>} \cup {<<Session(id, Started)>> : id \in LoginIDs}
    /\ clock = Started
    /\ \E key \in KeyIDs : SigningKeys = {key} /\ current = key
    /\ wire = <<>> /\ verdict = Refused /\ changes = 0 /\ seen = {}

----------------------------------------------------------------------------
(* The router.                                                             *)

Visit ==
    /\ stage = "none"
    /\ url' \in IF devServer THEN DevUrls ELSE Urls
    /\ stage' = "asked"
    /\ UNCHANGED <<devServer, moves, req, accounts, sessions, clock, config, wire, verdict, changes, seen>>

host == IF devServer /\ url.override # "" THEN url.override ELSE url.host

Insecure == ~devServer /\ url.scheme # "https" /\ host # RedirectHost

\* MUTANT: the URL is sent back as it came.
MoveToItself ==
    /\ stage = "asked" /\ Insecure
    /\ moves' = moves + 1
    /\ UNCHANGED <<url, devServer, stage, req, accounts, sessions, clock, config, wire, verdict, changes, seen>>

MoveToHttps ==
    /\ stage = "asked" /\ Insecure
    /\ url' = [url EXCEPT !.scheme = "https"]
    /\ moves' = moves + 1
    /\ UNCHANGED <<devServer, stage, req, accounts, sessions, clock, config, wire, verdict, changes, seen>>

\* Both branches of renderIndex send the same page.
Dispatch(path) ==
    CASE path \in {"/", "/page"} -> "index"
      [] path = "/_api" -> "api"
      [] path = "/_ah/start" -> "start"
      [] path = "/_ah/stop" -> "stop"
      [] path = "/_get/" -> "get"
      [] OTHER -> "404"

Serve ==
    /\ stage = "asked" /\ ~Insecure
    /\ \/ host \in {OfficialHost, ""} /\ stage' = Dispatch(url.path)
       \/ host = RedirectHost /\ stage' = "redirect"
    /\ UNCHANGED <<browser, req, accounts, sessions, clock, config, wire, verdict, changes, seen>>

\* The development server sends the browser away, to the application proper.
MoveToOfficial ==
    /\ stage = "asked" /\ ~Insecure
    /\ host \notin {OfficialHost, RedirectHost, ""}
    /\ url' = [url EXCEPT !.host = OfficialHost]
    /\ moves' = moves + 1
    /\ stage' = IF devServer THEN "elsewhere" ELSE "asked"
    /\ UNCHANGED <<devServer, req, accounts, sessions, clock, config, wire, verdict, changes, seen>>

Route == MoveToHttps \/ Serve \/ MoveToOfficial

----------------------------------------------------------------------------
(* The services.                                                           *)

\* login.Username is as provided, not normalised.
Verified(id, passphrase) == logins[id] # Missing /\ logins[id].passphrase = passphrase

\* Login up to the first answer of the datastore.
LookUp ==
    /\ stage = "api"
    /\ \E login \in Spellings, passphrase \in Secrets :
         LET key == EntityKey(login) IN
         /\ login # <<>> /\ key \in Keys /\ index[key] # 0
         /\ req' = [NoRequest EXCEPT !.login = login, !.passphrase = passphrase, !.id = index[key]]
    /\ stage' = "login"
    /\ seen' = {accounts}
    /\ UNCHANGED <<browser, accounts, sessions, clock, config, wire, verdict, changes>>

GetLogin ==
    /\ stage = "login" /\ Verified(req.id, req.passphrase)
    /\ req' = [req EXCEPT !.name = logins[req.id].username]
    /\ stage' = "session"
    /\ UNCHANGED <<browser, accounts, sessions, clock, config, wire, verdict, changes, seen>>

\* session.Encode is not in the tree; auth.Sign is taken for it, with the
\* expiry as a number.
Encode(id) == Sign(current, req.name, clock + Hour, req.id, id)

\* MUTANT: the name is read again when the session is stored.
PutSessionRenamed ==
    /\ stage = "session"
    /\ sessions' = Append(sessions, Session(req.id, clock))
    /\ req' = [req EXCEPT !.session = Len(sessions'), !.key = current, !.name = logins[req.id].username]
    /\ wire' = Encode(Len(sessions'))
    /\ stage' = "token"
    /\ UNCHANGED <<browser, accounts, clock, config, verdict, changes, seen>>

\* The session is stored before there is a token.
PutSession ==
    /\ stage = "session"
    /\ sessions' = Append(sessions, Session(req.id, clock))
    /\ req' = [req EXCEPT !.session = Len(sessions'), !.key = current]
    /\ wire' = Encode(Len(sessions'))
    /\ stage' = "token"
    /\ UNCHANGED <<browser, accounts, clock, config, verdict, changes, seen>>

\* The datastore reports an error although it has stored the session.
PutUnknown ==
    /\ stage = "session"
    /\ sessions' = Append(sessions, Session(req.id, clock))
    /\ stage' = "refused"
    /\ UNCHANGED <<browser, req, accounts, clock, config, wire, verdict, changes, seen>>

\* A parameter is empty, a login or passphrase wrong, an entity missing, or the
\* datastore has failed.
LoginFails ==
    /\ stage \in {"api", "login", "session"}
    /\ stage' = "refused"
    /\ UNCHANGED <<browser, req, accounts, sessions, clock, config, wire, verdict, changes, seen>>

\* The size, ParseUint's argument, may be invalid too.
Gravatar ==
    /\ stage = "get"
    /\ \E username \in Spellings, size \in {"valid", "invalid"} :
         stage' = IF Username(username) # NotOk /\ size = "valid" THEN "elsewhere" ELSE "refused"
    /\ UNCHANGED <<browser, req, accounts, sessions, clock, config, wire, verdict, changes, seen>>

Spaces == {<<>>} \cup {<<c>> \o s : c \in {"#", "+"}, s \in Spellings}

Create ==
    /\ stage = "api"
    /\ \E space \in Spaces, by \in Spellings :
         stage' = IF space = <<>> THEN "panic"
                  ELSE IF Ref(space) = NotOk \/ Username(by) = NotOk THEN "refused" ELSE "done"
    /\ UNCHANGED <<browser, req, accounts, sessions, clock, config, wire, verdict, changes, seen>>

\* Who puts the parts of a token in the order Decode reads.
Exchange(token) == LET s == SplitN(token, Colon, 2) IN s[2] \o <<Colon>> \o s[1]

\* A token comes back as it was issued, exchanged, or damaged.
Present ==
    /\ stage = "token"
    /\ wire' \in {wire, Exchange(wire), Tail(Exchange(wire))}
                 \cup {[Exchange(wire) EXCEPT ![Len(wire)] = Number(n)] : n \in 1..2}
    /\ verdict' = Decode(wire', SigningKeys)
    /\ stage' = "done"
    /\ UNCHANGED <<browser, req, accounts, sessions, clock, config, changes, seen>>

----------------------------------------------------------------------------
(* Accounts and configuration are changed by code that is not in the tree, *)
(* and time passes.  What happens between two requests is no different     *)
(* from what happens in the first.                                         *)

ChangeAccount ==
    /\ stage \in {"login", "session"} /\ changes < MaxChanges
    /\ changes' = changes + 1
    /\ \/ \E key \in Keys, id \in LoginIDs \cup {0} : index' = [index EXCEPT ![key] = id]
          /\ UNCHANGED logins
       \/ \E id \in LoginIDs, name \in Usernames, secret \in Secrets :
            logins' \in {[logins EXCEPT ![id] = Missing],
                         [logins EXCEPT ![id] = [username |-> name, passphrase |-> secret]]}
          /\ UNCHANGED index
    /\ seen' = seen \cup {accounts'}
    /\ UNCHANGED <<browser, stage, req, sessions, clock, config, wire, verdict>>

Deploy ==
    /\ stage = "token" /\ changes < MaxChanges
    /\ changes' = changes + 1
    /\ \E keys \in SUBSET KeyIDs, key \in KeyIDs :
         key \in keys /\ SigningKeys' = keys /\ current' = key
    /\ UNCHANGED <<browser, stage, req, accounts, sessions, clock, wire, verdict, seen>>

Tick ==
    /\ stage = "session" /\ clock < MaxTime
    /\ clock' = clock + 1
    /\ UNCHANGED <<browser, stage, req, accounts, sessions, config, wire, verdict, changes, seen>>

Services == LookUp \/ GetLogin \/ PutSession \/ PutUnknown \/ LoginFails \/ Gravatar \/ Create \/ Present

Next == Visit \/ Route \/ Services \/ ChangeAccount \/ Deploy \/ Tick

Spec == Init /\ [][Next]_vars

----------------------------------------------------------------------------
(* Properties.                                                             *)

\* Redirects lead somewhere: in production nothing but the redirect page is
\* answered over plain HTTP or for another host, after at most two moves.
ServedSecurely ==
    /\ moves <= 2
    /\ ~devServer /\ stage \notin {"none", "asked", "redirect"}
          => url.scheme = "https" /\ url.host = OfficialHost

\* Who has a token has a stored session, of a login that was found under what
\* they typed, bore the name in the token and had their passphrase, each at
\* some time during the request, however the accounts change meanwhile.
TokenBacked ==
    stage \in {"token", "done"} /\ req.session # 0 =>
        /\ req.session <= Len(sessions) /\ sessions[req.session].parent = req.id
        /\ \E a \in seen : a[1][EntityKey(req.login)] = req.id
        /\ \E a \in seen : a[2][req.id] = [username |-> req.name, passphrase |-> req.passphrase]

\* Sessions sort by their expiry, although a timestamp is text.
SessionsSort ==
    \A i, j \in 1..Len(sessions) :
        sessions[i].initiated < sessions[j].initiated <=> Before(sessions[i].expires, sessions[j].expires)

\* Decode accepts what was signed with a key that is still configured, its
\* parts exchanged and nothing else changed, and returns what was signed.
OnlySigned ==
    stage = "done" /\ req.session # 0 =>
        LET token == Sign(req.key, req.name, sessions[req.session].initiated + Hour, req.id, req.session)
        IN  /\ verdict.ok <=> wire = Exchange(token) /\ req.key \in SigningKeys
            /\ verdict.ok => verdict = [ok |-> TRUE, username |-> Chars(req.name),
                                        unixtime |-> sessions[req.session].initiated + Hour,
                                        loginID |-> req.id, sessionID |-> req.session]
=============================================================================
