------------------------------- MODULE MCRpc -------------------------------
(***************************************************************************)
(* Instances of Rpc.  The registry is the one src/espra/profile/profile.go *)
(* and src/espra/item/item.go build; two services of other shapes that     *)
(* register accepts, "ping" and "page", are added to it.                   *)
(***************************************************************************)
EXTENDS Rpc, TLC

CONSTANTS alice, bob

MCUsers == {alice, bob}

\* profile.init and item.init; "signup.details" is registered with Signup too.
postServices ==
    LET signup == Anon(register(<<"bool", "string", "error">>, FALSE)) IN
    [n \in {"login", "session.renew", "signup", "signup.details", "item.create"} |->
        CASE n = "login" -> Anon(register(<<"string", "error">>, FALSE))
          [] n = "session.renew" -> register(<<"string", "bool">>, FALSE)
          [] n \in {"signup", "signup.details"} -> signup
          [] n = "item.create" -> register(<<"error">>, FALSE)]

\* profile.init, with rpc.LongCache.
gets == [n \in {"profile.gravatar"} |-> Cache(register(<<"error">>, TRUE), 86400)]

\* With an anonymous service that cannot fail, and a page that is not cached.
MCServices == [n \in DOMAIN postServices \cup {"ping"} |->
        IF n = "ping" THEN Anon(register(<<"string">>, FALSE)) ELSE postServices[n]]
MCGets == [n \in DOMAIN gets \cup {"page"} |->
        IF n = "page" THEN register(<<"string">>, TRUE) ELSE gets[n]]

Post(svc, auth) == [entry |-> "Handle", method |-> "POST", shape |-> "ok",
                    svc |-> svc, args |-> "exact", auth |-> auth]
Get(svc) == [entry |-> "HandleGet", method |-> "GET", shape |-> "ok",
             svc |-> svc, args |-> "few", auth |-> "missing"]

Renew == {Post("session.renew", alice), Post("session.renew", bob)}

\* Enough for a Context to pass between two users, an anonymous caller, a
\* failed call and a GET.
FewRequests == Renew \cup {Post("ping", "missing"), Get("page"), Post("session.renew", "missing")}

\* A call that can succeed or fail, one each that is refused at its token, its
\* body, its arguments, its service's shape, and before there is a Context.
DrainRequests == {Post("session.renew", alice), Post("session.renew", "missing"), Get("nosuch"), Get("profile.gravatar")}
    \cup {[Post("session.renew", alice) EXCEPT !.shape = "notjson"], [Get("page") EXCEPT !.args = "many"]}

\* Goroutines, Contexts and users are interchangeable.
Interchangeable ==
    Permutations(Handlers) \cup Permutations(Contexts) \cup Permutations(MCUsers)
=============================================================================
