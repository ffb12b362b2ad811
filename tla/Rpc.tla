-------------------------------- MODULE Rpc --------------------------------
(***************************************************************************)
(* The JSON-RPC dispatcher of src/espra/rpc/rpc.go: concurrent requests,   *)
(* each run by one goroutine, share a free list of Context objects that is *)
(* linked through Context.next and guarded by one mutex.  A POST request   *)
(* goes through Handle, a GET request through HandleGet.                   *)
(*                                                                         *)
(* One action is one stretch of code between two accesses to shared state. *)
(* A Context is shared only through the free list and through the reply of *)
(* Handle, which is a slice of the buffer of its Context.                  *)
(***************************************************************************)
EXTENDS Naturals, Sequences, FiniteSets

CONSTANTS
    Handlers,     \* the goroutines that serve requests, used again and again
    Contexts,     \* the Context objects the process can allocate
    Users,        \* the user names of valid session tokens
    Requests,     \* the requests clients may send
    services,     \* name -> service, the registry of Handle
    getServices,  \* name -> service, the registry of HandleGet
    Nil           \* the nil *Context

Nobody == ""      \* the empty user name

\* What register records of a service; `in` is abstracted into Request.args.
Service == [anon : BOOLEAN, cache : Nat, retErr : BOOLEAN, isGet : BOOLEAN]

\* out is the sequence of the method's result types.
register(out, isGet) ==
    [anon |-> FALSE, cache |-> 0, isGet |-> isGet,
     retErr |-> out # <<>> /\ out[Len(out)] = "error"]

Anon(s) == [s EXCEPT !.anon = TRUE]

Cache(s, duration) == [s EXCEPT !.cache = duration]

\* A request, as far as the dispatcher tells requests apart: the entry point
\* the router picked, the HTTP method, the first defect of the body, the
\* service it names, its arguments and the "auth" field of its header.
Request ==
    [entry  : {"Handle", "HandleGet"},
     method : {"POST", "GET"},
     shape  : {"ok", "unreadable", "notjson", "nocall", "noname"},
     svc    : STRING,
     args   : {"exact", "few", "many", "bad"},
     auth   : Users \cup {"missing", "mistyped", "expired"}]

ASSUME NilAssumption == Nil \notin Contexts /\ Nil \notin Handlers

ASSUME ContextsAssumption == IsFiniteSet(Contexts)

ASSUME RequestsAssumption == Requests # {} /\ Requests \subseteq Request

ASSUME UsersAssumption == Users \cap {"missing", "mistyped", "expired"} = {}

ASSUME ServicesAssumption ==
    /\ \A n \in DOMAIN services : services[n] \in Service
    /\ \A n \in DOMAIN getServices : getServices[n] \in Service

VARIABLES
    pc,        \* where each goroutine stands
    req,       \* the request it serves
    ctx,       \* its local variable ctx
    status,    \* how the request will be answered, "none" while undecided
    returned,  \* history: how the service's method ended
    alias,     \* resp is the slice ctx.buf.Bytes()
    resp,      \* resp when it is a slice of its own
    answer,    \* what the client received last
    mutex,     \* the goroutine that holds the mutex
    free,      \* head of the free list
    next,      \* Context.next
    made,      \* the Contexts allocated so far
    username,  \* Context.Username
    header,    \* "auth" in the Header of Context.req
    buffer     \* Context.buf: its memory, and how much of it is in use

handlerVars == <<pc, req, ctx, status, returned, alias, resp, answer>>
poolVars == <<mutex, free, next, made>>
contextVars == <<username, header, buffer>>
vars == <<handlerVars, poolVars, contextVars>>

PCs == {"idle", "get", "unlink", "reset", "decode", "invoke", "encode",
        "free", "push", "answer"}
Statuses == {"none", "ok", "error", "redirect", "notfound", "rejected"}
Outcomes == {"none", "value", "error", "panic", "redirect", "odd"}
Answers == [status : Statuses, body : Seq(Requests), cached : BOOLEAN]

TypeOK ==
    /\ pc \in [Handlers -> PCs]
    /\ req \in [Handlers -> Requests]
    /\ ctx \in [Handlers -> Contexts \cup {Nil}]
    /\ status \in [Handlers -> Statuses]
    /\ returned \in [Handlers -> Outcomes]
    /\ alias \in [Handlers -> BOOLEAN]
    /\ resp \in [Handlers -> Seq(Requests)]
    /\ answer \in [Handlers -> Answers]
    /\ mutex \in Handlers \cup {Nil}
    /\ free \in Contexts \cup {Nil}
    /\ next \in [Contexts -> Contexts \cup {Nil}]
    /\ made \subseteq Contexts
    /\ username \in [Contexts -> Users \cup {Nobody}]
    /\ header \in [Contexts -> Users \cup {"missing", "mistyped", "expired"}]
    /\ buffer \in [Contexts -> [data : Seq(Requests), len : Nat]]

NoAnswer == [status |-> "none", body |-> <<>>, cached |-> FALSE]

Init ==
    /\ pc = [h \in Handlers |-> "idle"]
    /\ req = [h \in Handlers |-> CHOOSE r \in Requests : TRUE]
    /\ ctx = [h \in Handlers |-> Nil]
    /\ status = [h \in Handlers |-> "none"]
    /\ returned = [h \in Handlers |-> "none"]
    /\ alias = [h \in Handlers |-> FALSE]
    /\ resp = [h \in Handlers |-> <<>>]
    /\ answer = [h \in Handlers |-> NoAnswer]
    /\ mutex = Nil
    /\ free = Nil
    /\ next = [c \in Contexts |-> Nil]
    /\ made = {}
    /\ username = [c \in Contexts |-> Nobody]
    /\ header = [c \in Contexts |-> "missing"]
    /\ buffer = [c \in Contexts |-> [data |-> <<>>, len |-> 0]]

----------------------------------------------------------------------------
(* A request arrives.  Some are answered before a Context is taken.        *)

\* The answer given before getContext, or "none".
EarlyExit(r) ==
    CASE r.entry = "Handle" /\ (r.method # "POST" \/ r.shape = "unreadable") -> "error"
      [] r.entry = "HandleGet" /\ r.svc \notin DOMAIN getServices -> "notfound"
      [] r.entry = "HandleGet" /\ r.svc \in DOMAIN getServices
            /\ (r.method # "GET" \/ r.args = "many") -> "rejected"
      [] OTHER -> "none"

Arrive(h) ==
    /\ pc[h] = "idle"
    /\ \E r \in Requests :
         /\ req' = [req EXCEPT ![h] = r]
         /\ status' = [status EXCEPT ![h] = EarlyExit(r)]
         /\ pc' = [pc EXCEPT ![h] = IF EarlyExit(r) = "none" THEN "get" ELSE "answer"]
    /\ answer' = [answer EXCEPT ![h] = NoAnswer]
    /\ UNCHANGED <<ctx, returned, alias, resp, poolVars, contextVars>>

----------------------------------------------------------------------------
(* getContext: the head of the list is read and unlinked under the mutex;  *)
(* the Context is cleaned after the mutex is released.                     *)

\* MUTANT: the mutex is not taken.
LockForGetRacy(h) ==
    /\ pc[h] = "get"
    /\ ctx' = [ctx EXCEPT ![h] = free]
    /\ pc' = [pc EXCEPT ![h] = "unlink"]
    /\ UNCHANGED <<req, status, returned, alias, resp, answer, poolVars, contextVars>>

\* MUTANT: the free list is not consulted.
LockForGetFresh(h) ==
    /\ pc[h] = "get"
    /\ mutex = Nil
    /\ mutex' = h
    /\ ctx' = [ctx EXCEPT ![h] = Nil]
    /\ pc' = [pc EXCEPT ![h] = "unlink"]
    /\ UNCHANGED <<req, status, returned, alias, resp, answer, free, next, made, contextVars>>

LockForGet(h) ==
    /\ pc[h] = "get"
    /\ mutex = Nil
    /\ mutex' = h
    /\ ctx' = [ctx EXCEPT ![h] = free]
    /\ pc' = [pc EXCEPT ![h] = "unlink"]
    /\ UNCHANGED <<req, status, returned, alias, resp, answer, free, next, made, contextVars>>

\* MUTANT: with an empty list, wait for a Context to be given back.
WaitForContext(h) ==
    /\ pc[h] = "unlink"
    /\ ctx[h] = Nil
    /\ mutex' = Nil
    /\ pc' = [pc EXCEPT ![h] = "get"]
    /\ UNCHANGED <<req, ctx, status, returned, alias, resp, answer, free, next, made, contextVars>>

\* The list was empty: a new Context, every field zero.
NewContext(h) ==
    /\ pc[h] = "unlink"
    /\ ctx[h] = Nil
    /\ mutex' = Nil
    /\ \E c \in Contexts \ made :
         /\ ctx' = [ctx EXCEPT ![h] = c]
         /\ made' = made \cup {c}
         /\ username' = [username EXCEPT ![c] = Nobody]
         /\ header' = [header EXCEPT ![c] = "missing"]
         /\ buffer' = [buffer EXCEPT ![c] = [data |-> <<>>, len |-> 0]]
    /\ pc' = [pc EXCEPT ![h] = "decode"]
    /\ UNCHANGED <<req, status, returned, alias, resp, answer, free, next>>

Unlink(h) ==
    /\ pc[h] = "unlink"
    /\ ctx[h] # Nil
    /\ free' = next[ctx[h]]
    /\ mutex' = Nil
    /\ pc' = [pc EXCEPT ![h] = "reset"]
    /\ UNCHANGED <<req, ctx, status, returned, alias, resp, answer, next, made, contextVars>>

\* MUTANT: the buffer is not reset.
ResetRequestOnly(h) ==
    /\ pc[h] = "reset"
    /\ header' = [header EXCEPT ![ctx[h]] = "missing"]
    /\ pc' = [pc EXCEPT ![h] = "decode"]
    /\ UNCHANGED <<req, ctx, status, returned, alias, resp, answer, poolVars, username, buffer>>

\* MUTANT: *ctx.req is not cleared.
ResetBufferOnly(h) ==
    /\ pc[h] = "reset"
    /\ buffer' = [buffer EXCEPT ![ctx[h]].len = 0]
    /\ pc' = [pc EXCEPT ![h] = "decode"]
    /\ UNCHANGED <<req, ctx, status, returned, alias, resp, answer, poolVars, username, header>>

\* buf.Reset keeps the memory and its bytes; Username is not touched.
ResetContext(h) ==
    /\ pc[h] = "reset"
    /\ buffer' = [buffer EXCEPT ![ctx[h]].len = 0]
    /\ header' = [header EXCEPT ![ctx[h]] = "missing"]
    /\ pc' = [pc EXCEPT ![h] = "decode"]
    /\ UNCHANGED <<req, ctx, status, returned, alias, resp, answer, poolVars, username>>

----------------------------------------------------------------------------
(* Handle checks the call and establishes the user, HandleGet only pads    *)
(* missing arguments with empty strings.                                   *)

\* session.Info, a package outside the repository: the user of a valid token;
\* for any other token ok is false and the name is not specified.
Info(auth) ==
    IF auth \in Users THEN {<<auth, TRUE>>}
    ELSE {<<u, FALSE>> : u \in Users \cup {Nobody}}

\* Checks made before the user is looked at.
BadCall(r) ==
    \/ r.shape # "ok"
    \/ r.svc \notin DOMAIN services
    \/ r.args \notin {"exact", "bad"}

\* What Username may become and whether the request goes on; auth is the field
\* found in the decoded header, old the name the Context came with.
Session(r, auth, old) ==
    CASE BadCall(r) -> {<<old, FALSE>>}
      [] ~BadCall(r) /\ services[r.svc].anon -> {<<Nobody, TRUE>>}
      [] ~BadCall(r) /\ ~services[r.svc].anon /\ auth \in {"missing", "mistyped"} -> {<<old, FALSE>>}
      [] OTHER -> Info(auth)

\* json.Unmarshal merges the body into ctx.req: a field the body does not have
\* keeps the value that was there, and a body that fails may have set it or not.
DecodedAuth(r, old) ==
    {IF r.auth = "missing" THEN old ELSE r.auth}
        \cup (IF r.shape = "notjson" THEN {old} ELSE {})

Decode(h) ==
    /\ pc[h] = "decode"
    /\ req[h].entry = "Handle"
    /\ \E auth \in DecodedAuth(req[h], header[ctx[h]]) :
         \E s \in Session(req[h], auth, username[ctx[h]]) :
            LET proceed == s[2] /\ req[h].args # "bad" IN
            /\ header' = [header EXCEPT ![ctx[h]] = auth]
            /\ username' = [username EXCEPT ![ctx[h]] = s[1]]
            /\ status' = [status EXCEPT ![h] = IF proceed THEN "none" ELSE "error"]
            /\ pc' = [pc EXCEPT ![h] = IF proceed THEN "invoke" ELSE "free"]
    /\ UNCHANGED <<req, ctx, returned, alias, resp, answer, poolVars, buffer>>

PadArguments(h) ==
    /\ pc[h] = "decode"
    /\ req[h].entry = "HandleGet"
    /\ pc' = [pc EXCEPT ![h] = "invoke"]
    /\ UNCHANGED <<req, ctx, status, returned, alias, resp, answer, poolVars, contextVars>>

----------------------------------------------------------------------------
(* The service's method runs with the Context and ends in one of four      *)
(* ways; "odd" is a value that has no encoding.                            *)

ServiceOf(r) == IF r.entry = "Handle" THEN services[r.svc] ELSE getServices[r.svc]

MethodOutcomes(s) ==
    {"value", "panic", "redirect", "odd"} \cup (IF s.retErr THEN {"error"} ELSE {})

\* MUTANT: the way the method ended is passed on as it is.
AfterMethodRaw(s, out) == IF out = "value" THEN "none" ELSE out

\* The assertion .(error) on the last result panics when that result is nil,
\* so that a service with an error result is never answered with a value.
AfterMethod(s, out) ==
    CASE out = "redirect" -> "redirect"
      [] out # "redirect" /\ (out \in {"panic", "error"} \/ s.retErr) -> "error"
      [] OTHER -> "none"

\* HandleGet reads the value into a slice of its own.
Invoke(h) ==
    /\ pc[h] = "invoke"
    /\ \E out \in MethodOutcomes(ServiceOf(req[h])) :
         LET after == AfterMethod(ServiceOf(req[h]), out)
             posts == req[h].entry = "Handle"
         IN
         /\ returned' = [returned EXCEPT ![h] = out]
         /\ \/ /\ after = "none" /\ posts
               /\ pc' = [pc EXCEPT ![h] = "encode"]
               /\ UNCHANGED <<status, resp>>
            \/ /\ after = "none" /\ ~posts
               /\ pc' = [pc EXCEPT ![h] = "free"]
               /\ status' = [status EXCEPT ![h] = IF out = "odd" THEN "error" ELSE "ok"]
               /\ resp' = [resp EXCEPT ![h] = IF out = "odd" THEN <<>> ELSE <<req[h]>>]
            \/ /\ after # "none"
               /\ pc' = [pc EXCEPT ![h] = "free"]
               /\ status' = [status EXCEPT ![h] = after]
               /\ UNCHANGED resp
    /\ UNCHANGED <<req, ctx, alias, answer, poolVars, contextVars>>

\* enc.Encode appends the reply to the part of buf in use.  When the memory is
\* too small the buffer moves, and slices taken earlier keep the old memory.
Encode(h) ==
    LET c == ctx[h]
        data == Append(SubSeq(buffer[c].data, 1, buffer[c].len), req[h])
    IN
    /\ pc[h] = "encode"
    /\ \/ /\ returned[h] = "odd"
          /\ status' = [status EXCEPT ![h] = "error"]
          /\ UNCHANGED <<alias, resp, buffer>>
       \/ /\ returned[h] # "odd"
          /\ status' = [status EXCEPT ![h] = "ok"]
          /\ buffer' = [buffer EXCEPT ![c] = [data |-> data, len |-> Len(data)]]
          /\ \E moves \in BOOLEAN :
               LET left == {g \in Handlers : moves /\ alias[g] /\ ctx[g] = c} IN
               /\ alias' = [g \in Handlers |-> g = h \/ (alias[g] /\ g \notin left)]
               /\ resp' = [g \in Handlers |-> IF g \in left THEN buffer[c].data ELSE resp[g]]
    /\ pc' = [pc EXCEPT ![h] = "free"]
    /\ UNCHANGED <<req, ctx, returned, answer, poolVars, username, header>>

----------------------------------------------------------------------------
(* The deferred function: freeContext first, the answer after it.          *)

LockForFree(h) ==
    /\ pc[h] = "free"
    /\ mutex = Nil
    /\ mutex' = h
    /\ next' = [next EXCEPT ![ctx[h]] = free]
    /\ pc' = [pc EXCEPT ![h] = "push"]
    /\ UNCHANGED <<req, ctx, status, returned, alias, resp, answer, free, made, contextVars>>

\* MUTANT: the freed Context does not become the head.
PushNothing(h) ==
    /\ pc[h] = "push"
    /\ mutex' = Nil
    /\ pc' = [pc EXCEPT ![h] = "answer"]
    /\ UNCHANGED <<req, ctx, status, returned, alias, resp, answer, free, next, made, contextVars>>

Push(h) ==
    /\ pc[h] = "push"
    /\ free' = ctx[h]
    /\ mutex' = Nil
    /\ pc' = [pc EXCEPT ![h] = "answer"]
    /\ UNCHANGED <<req, ctx, status, returned, alias, resp, answer, next, made, contextVars>>

\* The bytes resp stands for at this moment.
Body(h) == IF alias[h] THEN buffer[ctx[h]].data ELSE resp[h]

Cacheable(h) ==
    /\ req[h].entry = "HandleGet"
    /\ status[h] \in {"ok", "redirect"}
    /\ getServices[req[h].svc].cache > 60

\* The answer is written and the goroutine's locals die.
Answer(h) ==
    /\ pc[h] = "answer"
    /\ answer' = [answer EXCEPT ![h] =
                    [status |-> status[h], cached |-> Cacheable(h),
                     body |-> IF status[h] = "ok" THEN Body(h) ELSE <<>>]]
    /\ pc' = [pc EXCEPT ![h] = "idle"]
    /\ ctx' = [ctx EXCEPT ![h] = Nil]
    /\ alias' = [alias EXCEPT ![h] = FALSE]
    /\ resp' = [resp EXCEPT ![h] = <<>>]
    /\ status' = [status EXCEPT ![h] = "none"]
    /\ returned' = [returned EXCEPT ![h] = "none"]
    /\ UNCHANGED <<req, poolVars, contextVars>>

----------------------------------------------------------------------------

Serve(h) ==
    \/ LockForGet(h) \/ NewContext(h) \/ Unlink(h) \/ ResetContext(h)
    \/ Decode(h) \/ PadArguments(h) \/ Invoke(h) \/ Encode(h)
    \/ LockForFree(h) \/ Push(h) \/ Answer(h)

Next == \E h \in Handlers : Arrive(h) \/ Serve(h)

Spec == Init /\ [][Next]_vars

\* A goroutine that can run is run; nothing makes clients send requests.
FairSpec == Spec /\ \A h \in Handlers : WF_vars(Serve(h))

----------------------------------------------------------------------------
(* Properties.                                                             *)

\* The goroutine has taken a Context and not yet given it back.
Holding(h) == pc[h] \in {"reset", "decode", "invoke", "encode", "free", "push"}

Held == {ctx[h] : h \in {g \in Handlers : Holding(g)}}

\* No two requests in flight share a Context, and each one's was allocated:
\* getContext never hands out a Context that is in use.
ExclusiveContext ==
    \A g \in Handlers : Holding(g) =>
        /\ ctx[g] \in made
        /\ \A h \in Handlers : Holding(h) /\ ctx[g] = ctx[h] => g = h

\* f enumerates the n members of the free list from its head.
IsFreeList(n, f) ==
    /\ f \in [1..n -> Contexts]
    /\ free = IF n = 0 THEN Nil ELSE f[1]
    /\ \A i \in 1..n : next[f[i]] = IF i = n THEN Nil ELSE f[i + 1]
    /\ \A i, j \in 1..n : f[i] = f[j] => i = j

\* The free list ends, has no repetition, and its members are exactly the
\* Contexts that were allocated and are not in use: freeContext loses none,
\* whichever way a request ends, and frees none twice.
PoolExact ==
    \E n \in 0..Cardinality(Contexts) : \E f \in [1..n -> Contexts] :
        /\ IsFreeList(n, f)
        /\ {f[i] : i \in 1..n} = made \ Held

\* The name an authenticated (or anonymous) call must be run under.
Identity(r) == IF services[r.svc].anon THEN Nobody ELSE r.auth

\* A service called through Handle runs under the user of its own request,
\* although the Context and its decoded header served other users before.
OwnIdentity ==
    \A h \in Handlers :
        pc[h] \in {"invoke", "encode"} /\ req[h].entry = "Handle"
            => username[ctx[h]] = Identity(req[h])

\* Until its Context is given back, the reply a goroutine is about to write is
\* the reply to its own request and nothing else.
ReplyKeptWhileHeld ==
    \A h \in Handlers :
        Holding(h) /\ status[h] = "ok" => Body(h) = <<req[h]>>

\* The reply a client receives is the reply to its request (response.Reply is
\* built by Handle from the results of the call).  It holds when requests are
\* served one at a time.
ReplyIntegrity ==
    \A h \in Handlers : answer[h].status = "ok" => answer[h].body = <<req[h]>>

\* When clients stop sending requests, every request in flight is answered and
\* the mutex is free: no way to end a request leaves the others waiting.
Drains ==
    <>[][~ \E h \in Handlers : Arrive(h)]_vars
        => <>[](mutex = Nil /\ \A h \in Handlers : pc[h] = "idle")

\* Who has each Context.
holder == [c \in Contexts |->
    IF \E h \in Handlers : Holding(h) /\ ctx[h] = c
    THEN CHOOSE h \in Handlers : Holding(h) /\ ctx[h] = c
    ELSE Nil]

Lease == INSTANCE ContextLease WITH lease <- holder, known <- made

\* getContext and freeContext implement leases of Contexts: a Context is lent
\* to one request at a time and a new one is made only when all are lent.
LeaseSpec == Lease!Spec
=============================================================================
