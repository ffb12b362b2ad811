----------------------------- MODULE Cajoleit -----------------------------
(***************************************************************************)
(* CajoleitServlet and CoffeeScript of src/java/src/espra.  The container  *)
(* has one servlet and calls doGet and doPost on a thread per request.     *)
(* The threads share the field resp of the servlet, the static compiler    *)
(* and the static parent of CoffeeScript, all without synchronisation.     *)
(*                                                                         *)
(* What a thread does with its own variables is part of the step before.   *)
(***************************************************************************)
EXTENDS Naturals, Sequences, FiniteSets

CONSTANTS
    Requests,  \* the calls the container makes, each once
    Inputs,    \* what they may ask
    None       \* null

ASSUME NoneAssumption == None \notin Requests

\* source: "long" is more than 102400 characters; coffee: the parameter of that
\* name; compiles, cajoles: whether the source is right for either compiler.
Input == [method : {"GET", "POST"}, key : {"none", "wrong", "right"},
          source : {"none", "long", "text"}, type : {"none", "coffee", "js", "other"},
          coffee : BOOLEAN, compiles : BOOLEAN, cajoles : BOOLEAN]

ASSUME InputsAssumption == Inputs \subseteq Input

VARIABLES
    input,     \* the parameters of the request
    pc,        \* where its thread is
    resp,      \* the field of the servlet: the request whose response it is
    compiler,  \* whether the static compiler is not null
    parent,    \* the static parent, named after the request that made it
    loaded,    \* the scopes in which coffee-script.js has been evaluated
    scope,     \* the scope the thread works with, once it has read parent
    fault,     \* what the thread is to report
    target,    \* the response on which it has set the status
    status, body,  \* of each response
    before,    \* history: the requests that had ended when this one arrived
    failed     \* history: the requests whose CoffeeScript() threw

static == <<compiler, parent, loaded>>
history == <<before, failed>>
vars == <<input, pc, resp, static, scope, fault, target, status, body, history>>

Faults == {"auth", "no source", "too long", "no type", "unknown type", "compile", "cajole"}
Ended == {"done", "aborted"}
Stages == Ended \cup {"new", "getCompiler", "construct", "read", "load", "publish", "compile",
                      "evaluate", "cajole", "setStatus", "print"}

\* of: the request whose thread printed it.
Printed == [of : Requests, what : Faults \cup {"source", "coffee"}]

Values ==
    /\ input \in [Requests -> Inputs]
    /\ pc \in [Requests -> Stages]
    /\ resp \in Requests \cup {None} /\ parent \in Requests \cup {None}
    /\ loaded \subseteq Requests \cup {None} /\ failed \subseteq Requests
    /\ scope \in [Requests -> Requests \cup {None}] /\ target \in [Requests -> Requests \cup {None}]
    /\ fault \in [Requests -> Faults \cup {"none"}]
    /\ status \in [Requests -> {200, 302, 400, 500}]
    /\ body \in [Requests -> Seq(Printed)]
    /\ before \in [Requests -> SUBSET Requests]

\* A thread reports only what has gone wrong.
Reports == \A r \in Requests : pc[r] \in {"setStatus", "print"} => fault[r] \in Faults

TypeOK == Values /\ Reports /\ compiler \in BOOLEAN

Init ==
    /\ input \in [Requests -> Inputs]
    /\ pc = [r \in Requests |-> "new"]
    /\ resp = None /\ compiler = FALSE /\ parent = None /\ loaded = {}
    /\ scope = [r \in Requests |-> None] /\ target = [r \in Requests |-> None]
    /\ fault = [r \in Requests |-> "none"]
    /\ status = [r \in Requests |-> 200] /\ body = [r \in Requests |-> <<>>]
    /\ before = [r \in Requests |-> {}] /\ failed = {}

----------------------------------------------------------------------------

Step(r, from, to) == pc[r] = from /\ pc' = [pc EXCEPT ![r] = to]

Prints(r, what, on) == body' = [body EXCEPT ![on] = Append(@, [of |-> r, what |-> what])]

isAuthKey(key) == key = "right"

\* The checks of doPost in their order; the type is looked at last.
BadRequest(in) ==
    CASE ~isAuthKey(in.key)               -> "auth"
      [] in.source = "none"               -> "no source"
      [] in.source = "long"               -> "too long"
      [] in.type = "none"                 -> "no type"
      [] in.type \notin {"coffee", "js"}  -> "unknown type"
      [] OTHER                            -> "none"

\* MUTANT: the status of a bad request is left out.
StatusCodeOfErrors(f) == IF f \in {"compile", "cajole"} THEN 500 ELSE 0

StatusCode(f) == IF f \in {"compile", "cajole"} THEN 500 ELSE 400

Arrives(r) == before' = [before EXCEPT ![r] = {q \in Requests : pc[q] \in Ended}]

doGet(r) ==
    /\ input[r].method = "GET" /\ Step(r, "new", "done") /\ Arrives(r)
    /\ status' = [status EXCEPT ![r] = 302]
    /\ UNCHANGED <<input, resp, static, scope, fault, target, body, failed>>

\* Where the checks lead.
Proceeds(r) ==
    LET f == BadRequest(input[r])
        next == IF f # "none" THEN "setStatus"
                ELSE IF input[r].type = "coffee" THEN "getCompiler" ELSE "cajole"
    IN  Step(r, "new", next) /\ fault' = [fault EXCEPT ![r] = f]

\* MUTANT: the field is set only where it was null.
doPostOnce(r) ==
    /\ input[r].method = "POST" /\ Proceeds(r) /\ Arrives(r)
    /\ resp' = IF resp = None THEN r ELSE resp
    /\ UNCHANGED <<input, static, scope, target, status, body, failed>>

doPost(r) ==
    /\ input[r].method = "POST" /\ Proceeds(r) /\ Arrives(r)
    /\ resp' = r
    /\ UNCHANGED <<input, static, scope, target, status, body, failed>>

----------------------------------------------------------------------------
(* errorResponse reads the field twice.  Without synchronisation the first *)
(* read may be replaced by what the thread itself wrote, and the second by *)
(* the first.                                                              *)

SetStatus(r) ==
    /\ Step(r, "setStatus", "print")
    /\ \E on \in {r, resp} :
          /\ target' = [target EXCEPT ![r] = on]
          /\ status' = [status EXCEPT ![on] = StatusCode(fault[r])]
    /\ UNCHANGED <<input, resp, static, scope, fault, body, history>>

PrintMessage(r) ==
    /\ Step(r, "print", "done")
    /\ \E on \in {target[r], resp} : Prints(r, fault[r], on)
    /\ UNCHANGED <<input, resp, static, scope, fault, target, status, history>>

----------------------------------------------------------------------------
(* getCompiler and the constructor CoffeeScript().                         *)

getCompiler(r) ==
    /\ Step(r, "getCompiler", IF compiler THEN "compile" ELSE "construct")
    /\ UNCHANGED <<input, resp, static, scope, fault, target, status, body, history>>

NewParent(r) ==
    /\ Step(r, "construct", "read")
    /\ parent' = r
    /\ UNCHANGED <<input, resp, compiler, loaded, scope, fault, target, status, body, history>>

ReadParent(r, from, to) ==
    /\ Step(r, from, to)
    /\ scope' = [scope EXCEPT ![r] = parent]
    /\ UNCHANGED <<input, resp, static, fault, target, status, body, history>>

Load(r) ==
    /\ Step(r, "load", "publish")
    /\ loaded' = loaded \cup {scope[r]}
    /\ UNCHANGED <<input, resp, compiler, parent, scope, fault, target, status, body, history>>

\* MUTANT: the IOException is swallowed.
LoadFailsSilently(r) ==
    /\ Step(r, "load", "publish")
    /\ failed' = failed \cup {r}
    /\ UNCHANGED <<input, resp, static, scope, fault, target, status, body, before>>

\* An IOException is thrown on as an Error, which nothing catches.
LoadFails(r) ==
    /\ Step(r, "load", "aborted")
    /\ failed' = failed \cup {r}
    /\ UNCHANGED <<input, resp, static, scope, fault, target, status, body, before>>

Publish(r) ==
    /\ Step(r, "publish", "compile")
    /\ compiler' = TRUE
    /\ UNCHANGED <<input, resp, parent, loaded, scope, fault, target, status, body, history>>

----------------------------------------------------------------------------
(* compile, and the rest of doPost, which prints on its own argument.      *)

\* MUTANT: there is no return after the CoffeeScript has been printed.
AfterCoffeeFallsThrough(in) == "cajole"

\* With the parameter coffee the translation is the answer.
AfterCoffee(in) == IF in.coffee THEN "done" ELSE "cajole"

\* In a scope without CoffeeScript Rhino throws an EcmaError, which is not the
\* JavaScriptException that doPost catches.
Evaluate(r) ==
    /\ \/ /\ scope[r] \notin loaded
          /\ Step(r, "evaluate", "aborted")
          /\ UNCHANGED <<fault, body>>
       \/ /\ scope[r] \in loaded /\ ~input[r].compiles
          /\ Step(r, "evaluate", "setStatus")
          /\ fault' = [fault EXCEPT ![r] = "compile"]
          /\ UNCHANGED body
       \/ /\ scope[r] \in loaded /\ input[r].compiles
          /\ Step(r, "evaluate", AfterCoffee(input[r]))
          /\ IF input[r].coffee THEN Prints(r, "coffee", r) ELSE UNCHANGED body
          /\ UNCHANGED fault
    /\ UNCHANGED <<input, resp, static, scope, target, status, history>>

\* MUTANT: the source is printed on the response in the field.
CajoleOnField(r) ==
    /\ \/ /\ input[r].cajoles
          /\ Step(r, "cajole", "done")
          /\ Prints(r, "source", resp)
          /\ UNCHANGED fault
       \/ /\ ~input[r].cajoles
          /\ Step(r, "cajole", "setStatus")
          /\ fault' = [fault EXCEPT ![r] = "cajole"]
          /\ UNCHANGED body
    /\ UNCHANGED <<input, resp, static, scope, target, status, history>>

Cajole(r) ==
    /\ \/ /\ input[r].cajoles
          /\ Step(r, "cajole", "done")
          /\ Prints(r, "source", r)
          /\ UNCHANGED fault
       \/ /\ ~input[r].cajoles
          /\ Step(r, "cajole", "setStatus")
          /\ fault' = [fault EXCEPT ![r] = "cajole"]
          /\ UNCHANGED body
    /\ UNCHANGED <<input, resp, static, scope, target, status, history>>

----------------------------------------------------------------------------

\* The container has no more requests and every thread has returned.
Idle == (\A r \in Requests : pc[r] \in Ended) /\ UNCHANGED vars

Next ==
    \/ \E r \in Requests :
          \/ doGet(r) \/ doPost(r) \/ SetStatus(r) \/ PrintMessage(r)
          \/ getCompiler(r) \/ NewParent(r) \/ ReadParent(r, "read", "load")
          \/ Load(r) \/ LoadFails(r) \/ Publish(r)
          \/ ReadParent(r, "compile", "evaluate") \/ Evaluate(r) \/ Cajole(r)
    \/ Idle

Spec == Init /\ [][Next]_vars

----------------------------------------------------------------------------
(* Properties.                                                             *)

\* The requests whose time overlapped with that of r.
Met(r) == {q \in Requests \ {r} : pc[q] # "new" /\ q \notin before[r] /\ r \notin before[q]}

\* Whatever the threads do with the shared field, translated code is printed
\* only for the client that sent the source, and only once.
OwnTranslation ==
    \A r \in Requests : \A i \in 1..Len(body[r]) :
        body[r][i].what \notin Faults =>
            body[r][i].of = r /\ \A j \in 1..i - 1 : body[r][j].what \in Faults

\* An error that strays through the shared field reaches only clients whose
\* request arrived while the failing one was under way: a response that was
\* complete when the failing request arrived is not written to.
NeverBackwards ==
    \A r \in Requests : \A i \in 1..Len(body[r]) : r \notin before[body[r][i].of]

\* What doGet and doPost answer to a request on its own.
Answer(in) ==
    LET f == BadRequest(in)
    IN  CASE in.method = "GET" -> [status |-> 302, what |-> <<>>]
          [] in.method = "POST" /\ f # "none" -> [status |-> 400, what |-> <<f>>]
          [] in.method = "POST" /\ f = "none" /\ in.type = "coffee" /\ ~in.compiles
                -> [status |-> 500, what |-> <<"compile">>]
          [] in.method = "POST" /\ f = "none" /\ in.type = "coffee" /\ in.compiles /\ in.coffee
                -> [status |-> 200, what |-> <<"coffee">>]
          [] OTHER -> IF in.cajoles THEN [status |-> 200, what |-> <<"source">>]
                                    ELSE [status |-> 500, what |-> <<"cajole">>]

\* A request that overlapped with no other is answered exactly, whatever others
\* left in the fields before it and whatever they do after it; it can only be
\* aborted where the evaluation of coffee-script.js has failed.
AloneIsAnswered ==
    \A r \in Requests :
        pc[r] \in Ended /\ Met(r) = {} =>
            \/ pc[r] = "aborted" /\ failed # {}
            \/ /\ status[r] = Answer(input[r]).status
               /\ body[r] = [i \in 1..Len(Answer(input[r]).what) |->
                                [of |-> r, what |-> Answer(input[r]).what[i]]]

\* Two threads may both find compiler null, and the second makes a new parent
\* while the first compiles.  Once no constructor is under way the compiler is
\* fit for use again, unless a constructor that overlapped with others failed.
ReadyAtRest ==
    compiler /\ (\A r \in Requests : pc[r] \notin {"read", "load"}) =>
        parent \in loaded \/ \E r \in failed : Met(r) # {}
=============================================================================
