-------------------------- MODULE CajoleitProofs --------------------------
(***************************************************************************)
(* Theorems about Cajoleit, for any number of requests and any inputs.     *)
(***************************************************************************)
EXTENDS Cajoleit, TLAPS

Live(r) == pc[r] \notin Ended \cup {"new"}

\* Only requests that have ended are recorded as having ended.
BeforeEnded == \A r \in Requests : \A q \in before[r] : pc[q] \in Ended /\ q # r

\* What a thread may print on: no response that ended before it arrived.
FieldIsLater ==
    \A r \in Requests :
        /\ Live(r) => resp \in Requests /\ resp \notin before[r]
        /\ pc[r] = "print" => target[r] \in Requests /\ target[r] \notin before[r]

\* A parent that is not loaded yet is in the hands of the request that made it,
\* or was when its constructor failed.
ParentInHand ==
    parent # None /\ parent \notin loaded =>
        \/ pc[parent] = "read"
        \/ pc[parent] = "load" /\ scope[parent] = parent
        \/ parent \in failed

\* A request that makes a compiler although there is one has met another, and
\* so has the maker of the parent if another constructor is under way.
MakersMeet ==
    /\ \A r \in Requests :
          compiler /\ pc[r] \in {"construct", "read", "load"} => Met(r) # {}
    /\ compiler /\ parent \in failed => Met(parent) # {}
    /\ \A r \in failed : pc[r] = "aborted"
    /\ compiler \/ (\E r \in Requests : pc[r] \in {"read", "load", "publish"}) => parent # None
    /\ parent # None =>
          /\ pc[parent] # "new"
          /\ \A q \in Requests \ {parent} : pc[q] \in {"read", "load", "publish"} => q \in Met(parent)

\* Who has printed something has arrived.
PrintersArrived ==
    \A r \in Requests : \A i \in 1..Len(body[r]) : pc[body[r][i].of] # "new"

IInv == Values /\ Reports /\ BeforeEnded /\ FieldIsLater /\ PrintersArrived /\ NeverBackwards
        /\ ParentInHand /\ MakersMeet

\* Nothing has been done to the response of a request that has not arrived.
Untouched ==
    \A r \in Requests : pc[r] = "new" =>
        /\ status[r] = 200 /\ body[r] = <<>>
        /\ resp # r /\ \A q \in Requests : pc[q] = "print" => target[q] # r

\* What the stage of a request says of its input.
Path(r) ==
    /\ pc[r] \in {"getCompiler", "construct", "read", "load", "publish", "compile", "evaluate"} =>
          input[r].method = "POST" /\ BadRequest(input[r]) = "none" /\ input[r].type = "coffee"
    /\ pc[r] = "cajole" =>
          /\ input[r].method = "POST" /\ BadRequest(input[r]) = "none"
          /\ input[r].type = "coffee" => input[r].compiles /\ ~input[r].coffee
    /\ pc[r] \in {"setStatus", "print"} =>
          Answer(input[r]) = [status |-> StatusCode(fault[r]), what |-> <<fault[r]>>]
    /\ pc[r] \in {"compile", "evaluate"} => compiler

\* The answer has been printed on the response, and nothing else.
Answered(r) ==
    /\ status[r] = Answer(input[r]).status
    /\ body[r] = [i \in 1..Len(Answer(input[r]).what) |-> [of |-> r, what |-> Answer(input[r]).what[i]]]

\* How far the response of a request is that has met no other.
Clean(r) ==
    /\ Live(r) => resp = r /\ body[r] = <<>>
    /\ Live(r) /\ pc[r] # "print" => status[r] = 200
    /\ pc[r] = "print" => target[r] = r /\ status[r] = StatusCode(fault[r])
    /\ pc[r] = "evaluate" => scope[r] \in loaded \/ failed # {}
    /\ pc[r] = "aborted" => failed # {}
    /\ pc[r] = "done" => Answered(r)

CleanAlone == \A r \in Requests : pc[r] # "new" /\ Met(r) = {} => Clean(r)

\* Code is printed last and by the request itself.
CodeIsLast ==
    \A r \in Requests : pc[r] # "done" => \A i \in 1..Len(body[r]) : body[r][i].what \in Faults

\* What a request that is on its own can rely on, and what is printed.
OutputInv == Untouched /\ (\A r \in Requests : Path(r)) /\ CleanAlone /\ CodeIsLast /\ OwnTranslation

\* The initial states satisfy the invariant: nobody has arrived.
LEMMA InitInv == Init => IInv /\ compiler \in BOOLEAN
  <1> SUFFICES ASSUME Init PROVE IInv /\ compiler \in BOOLEAN
    OBVIOUS
  <1> USE DEF Init
  <1>1. Values /\ Reports
    BY DEF Values, Reports, Stages
  <1>2. BeforeEnded /\ FieldIsLater /\ PrintersArrived /\ NeverBackwards
    BY DEF BeforeEnded, FieldIsLater, PrintersArrived, NeverBackwards, Live
  <1>3. ParentInHand /\ MakersMeet
    BY DEF ParentInHand, MakersMeet
  <1>4. compiler \in BOOLEAN
    BY Zenon
  <1> QED
    BY <1>1, <1>2, <1>3, <1>4 DEF IInv

\* The types of everything but compiler are kept by every step.
LEMMA NextValues == Values /\ Reports /\ [Next]_vars => Values'
  <1> SUFFICES ASSUME Values, Reports, [Next]_vars PROVE Values'
    OBVIOUS
  <1> USE DEF Values, static, history
  <1>0. \A r \in Requests : \A from : \A to \in Stages :
          Step(r, from, to) => pc' \in [Requests -> Stages]
    BY DEF Step
  <1> HIDE DEF Values
  <1>a. ASSUME NEW r \in Requests, NEW on, NEW what \in Faults \cup {"source", "coffee"}, Prints(r, what, on)
        PROVE  body' \in [Requests -> Seq(Printed)]
    <2>1. [of |-> r, what |-> what] \in Printed
      BY DEF Printed
    <2>2. CASE on \in Requests
      <3>1. Append(body[on], [of |-> r, what |-> what]) \in Seq(Printed)
        BY <2>1, <2>2 DEF Values
      <3>2. body' = [body EXCEPT ![on] = Append(body[on], [of |-> r, what |-> what])]
        BY <1>a DEF Prints
      <3>3. body \in [Requests -> Seq(Printed)]
        BY DEF Values
      <3> QED
        BY <2>2, <3>1, <3>2, <3>3
    <2>3. CASE on \notin Requests
      <3>1. PICK e : body' = [body EXCEPT ![on] = e]
        BY <1>a DEF Prints
      <3>2. body \in [Requests -> Seq(Printed)]
        BY DEF Values
      <3> QED
        BY <2>3, <3>1, <3>2
    <2> QED
      BY <2>2, <2>3
  <1>b. {"new", "getCompiler", "construct", "read", "load", "publish", "compile", "evaluate", "cajole",
         "setStatus", "print", "done", "aborted"} \subseteq Stages
    BY DEF Stages, Ended
  <1>c. "compile" \in Faults /\ "cajole" \in Faults
    BY DEF Faults
  <1>1. ASSUME NEW r \in Requests, doGet(r) PROVE Values'
    BY <1>0, <1>1, <1>b DEF doGet, Arrives, Values
  <1>2. ASSUME NEW r \in Requests, doPost(r) PROVE Values'
    <2>1. fault' \in [Requests -> Faults \cup {"none"}]
      BY <1>2 DEF doPost, Proceeds, BadRequest, Faults, Values
    <2>2. pc' \in [Requests -> Stages]
      BY <1>0, <1>2, <1>b DEF doPost, Proceeds
    <2> QED
      BY <1>2, <2>1, <2>2 DEF doPost, Arrives, Values
  <1>3. ASSUME NEW r \in Requests, SetStatus(r) PROVE Values'
    <2>1. PICK on \in {r, resp} : status' = [status EXCEPT ![on] = StatusCode(fault[r])]
                                     /\ target' = [target EXCEPT ![r] = on]
      BY <1>3 DEF SetStatus
    <2>2. status' \in [Requests -> {200, 302, 400, 500}]
      <3>1. StatusCode(fault[r]) \in {200, 302, 400, 500}
        BY DEF StatusCode
      <3> QED
        BY <2>1, <3>1 DEF Values
    <2>3. target' \in [Requests -> Requests \cup {None}]
      BY <2>1 DEF Values
    <2> QED
      BY <1>0, <1>3, <1>b, <2>2, <2>3 DEF SetStatus, Values
  <1>4. ASSUME NEW r \in Requests, PrintMessage(r) PROVE Values'
    <2>1. fault[r] \in Faults
      BY <1>4 DEF PrintMessage, Step, Reports
    <2>2. body' \in [Requests -> Seq(Printed)]
      BY <1>4, <1>a, <2>1 DEF PrintMessage
    <2> QED
      BY <1>0, <1>4, <1>b, <2>2 DEF PrintMessage, Values
  <1>5. ASSUME NEW r \in Requests, getCompiler(r) PROVE Values'
    BY <1>0, <1>5, <1>b DEF getCompiler, Values
  <1>6. ASSUME NEW r \in Requests, NewParent(r) PROVE Values'
    BY <1>0, <1>6, <1>b DEF NewParent, Values
  <1>7. ASSUME NEW r \in Requests, ReadParent(r, "read", "load") PROVE Values'
    BY <1>0, <1>7, <1>b DEF ReadParent, Values
  <1>8. ASSUME NEW r \in Requests, Load(r) PROVE Values'
    BY <1>0, <1>8, <1>b DEF Load, Values
  <1>9. ASSUME NEW r \in Requests, LoadFails(r) PROVE Values'
    BY <1>0, <1>9, <1>b DEF LoadFails, Values
  <1>10. ASSUME NEW r \in Requests, Publish(r) PROVE Values'
    BY <1>0, <1>10, <1>b DEF Publish, Values
  <1>11. ASSUME NEW r \in Requests, ReadParent(r, "compile", "evaluate") PROVE Values'
    BY <1>0, <1>11, <1>b DEF ReadParent, Values
  <1>12. ASSUME NEW r \in Requests, Evaluate(r) PROVE Values'
    <2>1. pc' \in [Requests -> Stages]
      BY <1>0, <1>12, <1>b DEF Evaluate, AfterCoffee
    <2>2. body' \in [Requests -> Seq(Printed)]
      BY <1>12, <1>a DEF Evaluate, Values
    <2>3. fault' \in [Requests -> Faults \cup {"none"}]
      BY <1>12, <1>c DEF Evaluate, Values
    <2> QED
      BY <1>12, <2>1, <2>2, <2>3 DEF Evaluate, Values
  <1>13. ASSUME NEW r \in Requests, Cajole(r) PROVE Values'
    <2>1. pc' \in [Requests -> Stages]
      BY <1>0, <1>13, <1>b DEF Cajole
    <2>2. body' \in [Requests -> Seq(Printed)]
      BY <1>13, <1>a DEF Cajole, Values
    <2>3. fault' \in [Requests -> Faults \cup {"none"}]
      <3>1. fault' = fault \/ fault' = [fault EXCEPT ![r] = "cajole"]
        BY <1>13 DEF Cajole
      <3>2. fault \in [Requests -> Faults \cup {"none"}]
        BY DEF Values
      <3>3. CASE fault' = fault
        BY <3>2, <3>3
      <3>4. CASE fault' = [fault EXCEPT ![r] = "cajole"]
        BY <1>c, <3>2, <3>4
      <3> QED
        BY <3>1, <3>3, <3>4
    <2> QED
      BY <1>13, <2>1, <2>2, <2>3 DEF Cajole, Values
  <1>14. CASE UNCHANGED vars
    BY <1>14 DEF vars, Values
  <1> QED
    BY <1>1, <1>2, <1>3, <1>4, <1>5, <1>6, <1>7, <1>8, <1>9, <1>10, <1>11, <1>12, <1>13, <1>14
    DEF Next, Idle

\* A thread that reports has something to report.
LEMMA NextReports == Values /\ Reports /\ [Next]_vars => Reports'
  <1> SUFFICES ASSUME Values, Reports, [Next]_vars PROVE Reports'
    OBVIOUS
  <1> USE DEF Values, Reports, Step, static, history
  <1>1. ASSUME NEW r \in Requests, doGet(r) PROVE Reports'
    BY <1>1 DEF doGet, Arrives
  <1>2. ASSUME NEW r \in Requests, doPost(r) PROVE Reports'
    <2>1. BadRequest(input[r]) \in Faults \cup {"none"}
      BY DEF BadRequest, Faults
    <2> QED
      BY <1>2, <2>1 DEF doPost, Proceeds
  <1>3. ASSUME NEW r \in Requests, SetStatus(r) PROVE Reports'
    BY <1>3 DEF SetStatus
  <1>4. ASSUME NEW r \in Requests, PrintMessage(r) PROVE Reports'
    BY <1>4 DEF PrintMessage
  <1>5. ASSUME NEW r \in Requests, getCompiler(r) PROVE Reports'
    BY <1>5 DEF getCompiler
  <1>6. ASSUME NEW r \in Requests, NewParent(r) PROVE Reports'
    BY <1>6 DEF NewParent
  <1>7. ASSUME NEW r \in Requests, ReadParent(r, "read", "load") PROVE Reports'
    BY <1>7 DEF ReadParent
  <1>8. ASSUME NEW r \in Requests, Load(r) PROVE Reports'
    BY <1>8 DEF Load
  <1>9. ASSUME NEW r \in Requests, LoadFails(r) PROVE Reports'
    BY <1>9 DEF LoadFails
  <1>10. ASSUME NEW r \in Requests, Publish(r) PROVE Reports'
    BY <1>10 DEF Publish
  <1>11. ASSUME NEW r \in Requests, ReadParent(r, "compile", "evaluate") PROVE Reports'
    BY <1>11 DEF ReadParent
  <1>12. ASSUME NEW r \in Requests, Evaluate(r) PROVE Reports'
    <2>1. pc'[r] \in {"setStatus", "print"} => fault'[r] = "compile"
      BY <1>12 DEF Evaluate, AfterCoffee
    <2>2. \A q \in Requests \ {r} : pc'[q] = pc[q] /\ fault'[q] = fault[q]
      BY <1>12 DEF Evaluate
    <2>3. pc'[r] \in {"setStatus", "print"} => fault'[r] \in Faults
      BY <2>1 DEF Faults
    <2>4. ASSUME NEW q \in Requests \ {r} PROVE pc'[q] \in {"setStatus", "print"} => fault'[q] \in Faults
      BY <2>2, <2>4
    <2> QED
      BY <2>3, <2>4
  <1>13. ASSUME NEW r \in Requests, Cajole(r) PROVE Reports'
    <2>1. pc'[r] \in {"setStatus", "print"} => fault'[r] = "cajole"
      BY <1>13 DEF Cajole
    <2>2. \A q \in Requests \ {r} : pc'[q] = pc[q] /\ fault'[q] = fault[q]
      BY <1>13 DEF Cajole
    <2>3. pc'[r] \in {"setStatus", "print"} => fault'[r] \in Faults
      BY <2>1 DEF Faults
    <2>4. ASSUME NEW q \in Requests \ {r} PROVE pc'[q] \in {"setStatus", "print"} => fault'[q] \in Faults
      BY <2>2, <2>4
    <2> QED
      BY <2>3, <2>4
  <1>14. CASE UNCHANGED vars
    BY <1>14 DEF vars
  <1> QED
    BY <1>1, <1>2, <1>3, <1>4, <1>5, <1>6, <1>7, <1>8, <1>9, <1>10, <1>11, <1>12, <1>13, <1>14
    DEF Next, Idle

\* A request arrives once, and what had ended before it is recorded then.
Lasting ==
    \A r \in Requests :
        /\ pc[r] # "new" => pc'[r] # "new" /\ before'[r] = before[r]
        /\ pc[r] = "new" /\ pc'[r] # "new" => before'[r] = {q \in Requests : pc[q] \in Ended}
        /\ pc[r] = "new" /\ pc'[r] = "new" => before'[r] = before[r]
        /\ pc[r] \in Ended => pc'[r] = pc[r]

\* A request arrives once, and one that has ended stays so.
LEMMA ArriveOnce == Values /\ [Next]_vars => Lasting
  <1> SUFFICES ASSUME Values, [Next]_vars PROVE Lasting
    OBVIOUS
  <1> USE DEF Lasting, Values, Step, static, history, Ended
  <1>1. ASSUME NEW r \in Requests, doGet(r) PROVE Lasting
    BY <1>1 DEF doGet, Arrives
  <1>2. ASSUME NEW r \in Requests, doPost(r) PROVE Lasting
    BY <1>2 DEF doPost, Proceeds, Arrives
  <1>3. ASSUME NEW r \in Requests, SetStatus(r) PROVE Lasting
    BY <1>3 DEF SetStatus
  <1>4. ASSUME NEW r \in Requests, PrintMessage(r) PROVE Lasting
    BY <1>4 DEF PrintMessage
  <1>5. ASSUME NEW r \in Requests, getCompiler(r) PROVE Lasting
    BY <1>5 DEF getCompiler
  <1>6. ASSUME NEW r \in Requests, NewParent(r) PROVE Lasting
    BY <1>6 DEF NewParent
  <1>7. ASSUME NEW r \in Requests, ReadParent(r, "read", "load") PROVE Lasting
    BY <1>7 DEF ReadParent
  <1>8. ASSUME NEW r \in Requests, Load(r) PROVE Lasting
    BY <1>8 DEF Load
  <1>9. ASSUME NEW r \in Requests, LoadFails(r) PROVE Lasting
    BY <1>9 DEF LoadFails
  <1>10. ASSUME NEW r \in Requests, Publish(r) PROVE Lasting
    BY <1>10 DEF Publish
  <1>11. ASSUME NEW r \in Requests, ReadParent(r, "compile", "evaluate") PROVE Lasting
    BY <1>11 DEF ReadParent
  <1>12. ASSUME NEW r \in Requests, Evaluate(r) PROVE Lasting
    BY <1>12 DEF Evaluate, AfterCoffee
  <1>13. ASSUME NEW r \in Requests, Cajole(r) PROVE Lasting
    BY <1>13 DEF Cajole
  <1>14. CASE UNCHANGED vars
    BY <1>14 DEF vars
  <1> QED
    BY <1>1, <1>2, <1>3, <1>4, <1>5, <1>6, <1>7, <1>8, <1>9, <1>10, <1>11, <1>12, <1>13, <1>14
    DEF Next, Idle

\* What had ended stays ended.
LEMMA NextBeforeEnded == Values /\ BeforeEnded /\ Lasting => BeforeEnded'
  <1> SUFFICES ASSUME Values, BeforeEnded, Lasting, NEW r \in Requests, NEW q \in before'[r]
               PROVE  pc'[q] \in Ended /\ q # r
    BY DEF BeforeEnded
  <1>1. pc[q] \in Ended /\ q # r /\ q \in Requests
    <2>1. CASE pc[r] = "new" /\ pc'[r] # "new"
      BY <2>1 DEF Lasting, Ended
    <2>2. CASE before'[r] = before[r]
      BY <2>2 DEF BeforeEnded, Values
    <2> QED
      BY <2>1, <2>2 DEF Lasting
  <1> QED
    BY <1>1 DEF Lasting

\* The field moves only to a request that arrives, which no request under way
\* has seen end.
LEMMA NextFieldIsLater ==
    Values /\ BeforeEnded /\ FieldIsLater /\ [Next]_vars => FieldIsLater'
  <1> SUFFICES ASSUME Values, BeforeEnded, FieldIsLater, [Next]_vars PROVE FieldIsLater'
    OBVIOUS
  <1>0. Lasting
    BY ArriveOnce
  <1>1. ASSUME resp' = resp,
               \A q \in Requests : pc[q] = "new" => pc'[q] \in Ended \cup {"new"},
               \A q \in Requests : pc'[q] = "print" => target'[q] \in Requests /\ target'[q] \notin before[q] /\ pc[q] # "new"
        PROVE  FieldIsLater'
    BY <1>0, <1>1 DEF FieldIsLater, Lasting, Live, Values, Ended
  <1> USE DEF Values, Step, static, history, Ended, FieldIsLater
  <1>2. ASSUME NEW r \in Requests, doGet(r) PROVE FieldIsLater'
    BY <1>1, <1>2 DEF doGet, Arrives
  <1>3. ASSUME NEW r \in Requests, doPost(r) PROVE FieldIsLater'
    <2>1. \A q \in Requests : Live(q)' => Live(q) \/ q = r
      BY <1>3 DEF doPost, Proceeds, Live
    <2>2. \A q \in Requests : Live(q)' => r \notin before'[q]
      BY <1>0, <1>3, <2>1 DEF doPost, Proceeds, Lasting, BeforeEnded, Live
    <2>3. \A q \in Requests : pc'[q] = "print" => pc[q] = "print"
      BY <1>3 DEF doPost, Proceeds
    <2> QED
      BY <1>0, <1>3, <2>2, <2>3 DEF doPost, Lasting
  <1>4. ASSUME NEW r \in Requests, SetStatus(r) PROVE FieldIsLater'
    <2>1. target'[r] \in {r, resp} /\ r \notin before[r] /\ Live(r)
      BY <1>4 DEF SetStatus, Live, BeforeEnded
    <2>2. \A q \in Requests \ {r} : pc'[q] = pc[q] /\ target'[q] = target[q]
      BY <1>4 DEF SetStatus
    <2> QED
      BY <1>1, <1>4, <2>1, <2>2 DEF SetStatus
  <1>5. ASSUME NEW r \in Requests, PrintMessage(r) PROVE FieldIsLater'
    BY <1>1, <1>5 DEF PrintMessage
  <1>6. ASSUME NEW r \in Requests, getCompiler(r) PROVE FieldIsLater'
    BY <1>1, <1>6 DEF getCompiler
  <1>7. ASSUME NEW r \in Requests, NewParent(r) PROVE FieldIsLater'
    BY <1>1, <1>7 DEF NewParent
  <1>8. ASSUME NEW r \in Requests, ReadParent(r, "read", "load") PROVE FieldIsLater'
    BY <1>1, <1>8 DEF ReadParent
  <1>9. ASSUME NEW r \in Requests, Load(r) PROVE FieldIsLater'
    BY <1>1, <1>9 DEF Load
  <1>10. ASSUME NEW r \in Requests, LoadFails(r) PROVE FieldIsLater'
    BY <1>1, <1>10 DEF LoadFails
  <1>11. ASSUME NEW r \in Requests, Publish(r) PROVE FieldIsLater'
    BY <1>1, <1>11 DEF Publish
  <1>12. ASSUME NEW r \in Requests, ReadParent(r, "compile", "evaluate") PROVE FieldIsLater'
    BY <1>1, <1>12 DEF ReadParent
  <1>13. ASSUME NEW r \in Requests, Evaluate(r) PROVE FieldIsLater'
    BY <1>1, <1>13 DEF Evaluate, AfterCoffee
  <1>14. ASSUME NEW r \in Requests, Cajole(r) PROVE FieldIsLater'
    <2>1. /\ pc[r] = "cajole" /\ resp' = resp /\ target' = target
          /\ pc' = [pc EXCEPT ![r] = "done"] \/ pc' = [pc EXCEPT ![r] = "setStatus"]
      BY <1>14 DEF Cajole
    <2> QED
      BY <1>1, <2>1
  <1>15. CASE UNCHANGED vars
    BY <1>1, <1>15 DEF vars
  <1> QED
    BY <1>2, <1>3, <1>4, <1>5, <1>6, <1>7, <1>8, <1>9, <1>10, <1>11, <1>12, <1>13, <1>14, <1>15
    DEF Next, Idle

\* Printing adds one entry, and changes no other response.
LEMMA PrintsOne ==
    ASSUME Values, NEW r \in Requests, NEW what, NEW on \in Requests, Prints(r, what, on),
           NEW x \in Requests, NEW i \in 1..Len(body'[x])
    PROVE  \/ i \in 1..Len(body[x]) /\ body'[x][i] = body[x][i]
           \/ x = on /\ body'[x][i].of = r
  <1>1. body'[x] = IF x = on THEN Append(body[x], [of |-> r, what |-> what]) ELSE body[x]
    BY DEF Prints, Values
  <1>2. body[x] \in Seq(Printed)
    BY DEF Values
  <1> QED
    BY <1>1, <1>2

\* No thread prints on a response that ended before its request arrived.
LEMMA NextNeverBackwards ==
    Values /\ BeforeEnded /\ FieldIsLater /\ PrintersArrived /\ NeverBackwards /\ [Next]_vars
        => PrintersArrived' /\ NeverBackwards'
  <1> SUFFICES ASSUME Values, BeforeEnded, FieldIsLater, PrintersArrived, NeverBackwards, [Next]_vars
               PROVE  PrintersArrived' /\ NeverBackwards'
    OBVIOUS
  <1> DEFINE Goal == PrintersArrived' /\ NeverBackwards'
  <1>0. Lasting
    BY ArriveOnce
  <1>a. \A x \in Requests : \A i \in 1..Len(body[x]) : body[x][i].of \in Requests
    <2> SUFFICES ASSUME NEW x \in Requests, NEW i \in 1..Len(body[x]) PROVE body[x][i].of \in Requests
      OBVIOUS
    <2>1. body[x] \in Seq(Printed)
      BY DEF Values
    <2>2. body[x][i] \in Printed
      BY <2>1
    <2> QED
      BY <2>2 DEF Printed
  <1>b. ASSUME UNCHANGED body PROVE Goal
    BY <1>0, <1>a, <1>b DEF PrintersArrived, NeverBackwards, Lasting
  <1>c. ASSUME NEW r \in Requests, NEW what, NEW on \in Requests, Prints(r, what, on),
               pc[r] # "new", on \notin before[r]
        PROVE  Goal
    <2>1. ASSUME NEW x \in Requests, NEW i \in 1..Len(body'[x])
          PROVE  pc'[body'[x][i].of] # "new" /\ x \notin before'[body'[x][i].of]
      <3>1. CASE i \in 1..Len(body[x]) /\ body'[x][i] = body[x][i]
        BY <1>0, <1>a, <2>1, <3>1 DEF PrintersArrived, NeverBackwards, Lasting
      <3>2. CASE x = on /\ body'[x][i].of = r
        BY <1>0, <1>c, <3>2 DEF Lasting
      <3> QED
        BY <1>c, <2>1, <3>1, <3>2, PrintsOne
    <2> QED
      BY <2>1 DEF PrintersArrived, NeverBackwards
  <1> HIDE DEF Goal
  <1> USE DEF static, history
  <1>1. ASSUME NEW r \in Requests, doGet(r) PROVE Goal
    BY <1>b, <1>1 DEF doGet
  <1>2. ASSUME NEW r \in Requests, doPost(r) PROVE Goal
    BY <1>b, <1>2 DEF doPost
  <1>3. ASSUME NEW r \in Requests, SetStatus(r) PROVE Goal
    BY <1>b, <1>3 DEF SetStatus
  <1>4. ASSUME NEW r \in Requests, PrintMessage(r) PROVE Goal
    <2>1. PICK on \in {target[r], resp} : Prints(r, fault[r], on)
      BY <1>4 DEF PrintMessage
    <2>2. on \in Requests /\ on \notin before[r] /\ pc[r] # "new"
      BY <1>4 DEF PrintMessage, Step, FieldIsLater, Live, Ended
    <2> QED
      BY <1>c, <2>1, <2>2
  <1>5. ASSUME NEW r \in Requests, getCompiler(r) PROVE Goal
    BY <1>b, <1>5 DEF getCompiler
  <1>6. ASSUME NEW r \in Requests, NewParent(r) PROVE Goal
    BY <1>b, <1>6 DEF NewParent
  <1>7. ASSUME NEW r \in Requests, ReadParent(r, "read", "load") PROVE Goal
    BY <1>b, <1>7 DEF ReadParent
  <1>8. ASSUME NEW r \in Requests, Load(r) PROVE Goal
    BY <1>b, <1>8 DEF Load
  <1>9. ASSUME NEW r \in Requests, LoadFails(r) PROVE Goal
    BY <1>b, <1>9 DEF LoadFails
  <1>10. ASSUME NEW r \in Requests, Publish(r) PROVE Goal
    BY <1>b, <1>10 DEF Publish
  <1>11. ASSUME NEW r \in Requests, ReadParent(r, "compile", "evaluate") PROVE Goal
    BY <1>b, <1>11 DEF ReadParent
  <1>12. ASSUME NEW r \in Requests, Evaluate(r) PROVE Goal
    <2>1. r \notin before[r] /\ pc[r] # "new"
      BY <1>12 DEF Evaluate, Step, BeforeEnded
    <2> QED
      BY <1>b, <1>c, <1>12, <2>1 DEF Evaluate
  <1>13. ASSUME NEW r \in Requests, Cajole(r) PROVE Goal
    <2>1. r \notin before[r] /\ pc[r] # "new"
      BY <1>13 DEF Cajole, Step, BeforeEnded
    <2> QED
      BY <1>b, <1>c, <1>13, <2>1 DEF Cajole
  <1>14. ASSUME UNCHANGED vars PROVE Goal
    BY <1>b, <1>14 DEF vars
  <1>15. Goal
    BY <1>1, <1>2, <1>3, <1>4, <1>5, <1>6, <1>7, <1>8, <1>9, <1>10, <1>11, <1>12, <1>13, <1>14
    DEF Next, Idle
  <1> QED
    BY <1>15 DEF Goal

\* The stages of the constructor, and a step that has nothing to do with it.
Making == {"construct", "read", "load", "publish"}
Quiet ==
    /\ UNCHANGED <<compiler, parent, loaded, failed>>
    /\ \A q \in Requests : pc[q] \in Making \/ pc'[q] \in Making =>
                              pc'[q] = pc[q] /\ scope'[q] = scope[q]

\* Steps outside the constructor are quiet.
LEMMA QuietSteps ==
    ASSUME Values, NEW r \in Requests,
           \/ doGet(r)
           \/ doPost(r)
           \/ SetStatus(r)
           \/ PrintMessage(r)
           \/ ReadParent(r, "compile", "evaluate")
           \/ Evaluate(r)
           \/ Cajole(r)
    PROVE  Quiet
  <1> USE DEF Quiet, Making, Step, static, history, Ended
  <1>0. pc \in [Requests -> Stages] /\ scope \in [Requests -> Requests \cup {None}]
    BY DEF Values
  <1>1. CASE doGet(r)
    BY <1>0, <1>1 DEF doGet
  <1>2. CASE doPost(r)
    BY <1>0, <1>2 DEF doPost, Proceeds
  <1>3. CASE SetStatus(r)
    BY <1>0, <1>3 DEF SetStatus
  <1>4. CASE PrintMessage(r)
    BY <1>0, <1>4 DEF PrintMessage
  <1>5. CASE ReadParent(r, "compile", "evaluate")
    BY <1>0, <1>5 DEF ReadParent
  <1>6. CASE Evaluate(r)
    <2>1. /\ pc[r] = "evaluate" /\ scope' = scope /\ UNCHANGED <<compiler, parent, loaded, failed>>
          /\ \E to \in {"aborted", "setStatus", "done", "cajole"} : pc' = [pc EXCEPT ![r] = to]
      BY <1>6 DEF Evaluate, AfterCoffee
    <2> QED
      BY <1>0, <2>1
  <1>7. CASE Cajole(r)
    <2>1. /\ pc[r] = "cajole" /\ scope' = scope /\ UNCHANGED <<compiler, parent, loaded, failed>>
          /\ \E to \in {"done", "setStatus"} : pc' = [pc EXCEPT ![r] = to]
      BY <1>7 DEF Cajole
    <2> QED
      BY <1>0, <2>1
  <1> QED
    BY <1>1, <1>2, <1>3, <1>4, <1>5, <1>6, <1>7

\* Only the maker of the parent can leave it without CoffeeScript in it.
LEMMA NextParentInHand == Values /\ ParentInHand /\ [Next]_vars => ParentInHand'
  <1> SUFFICES ASSUME Values, ParentInHand, [Next]_vars PROVE ParentInHand'
    OBVIOUS
  <1>0. /\ pc \in [Requests -> Stages] /\ scope \in [Requests -> Requests \cup {None}]
        /\ parent \in Requests \cup {None}
    BY DEF Values
  <1> USE DEF ParentInHand, static, history, Step
  <1>1. CASE Quiet
    BY <1>0, <1>1 DEF Quiet, Making
  <1>2. ASSUME NEW r \in Requests, getCompiler(r) PROVE ParentInHand'
    <2>1. pc[r] = "getCompiler" /\ \A q \in Requests \ {r} : pc'[q] = pc[q]
      BY <1>2 DEF getCompiler
    <2> QED
      BY <1>0, <1>2, <2>1 DEF getCompiler
  <1>3. ASSUME NEW r \in Requests, NewParent(r) PROVE ParentInHand'
    BY <1>0, <1>3 DEF NewParent
  <1>4. ASSUME NEW r \in Requests, ReadParent(r, "read", "load") PROVE ParentInHand'
    BY <1>0, <1>4 DEF ReadParent
  <1>5. ASSUME NEW r \in Requests, Load(r) PROVE ParentInHand'
    BY <1>0, <1>5 DEF Load
  <1>6. ASSUME NEW r \in Requests, LoadFails(r) PROVE ParentInHand'
    BY <1>0, <1>6 DEF LoadFails
  <1>7. ASSUME NEW r \in Requests, Publish(r) PROVE ParentInHand'
    BY <1>0, <1>7 DEF Publish
  <1>8. CASE UNCHANGED vars
    BY <1>8 DEF vars
  <1> QED
    BY <1>1, <1>2, <1>3, <1>4, <1>5, <1>6, <1>7, <1>8, QuietSteps DEF Next, Idle

\* Whom a request has met it has met for ever.
LEMMA MetLasts ==
    ASSUME Lasting, NEW r \in Requests, pc[r] # "new", NEW q \in Met(r)
    PROVE  q \in Met(r)'
  BY DEF Met, Lasting

\* Two requests that are both under way meet.
LEMMA LiveMeet ==
    ASSUME BeforeEnded, NEW r \in Requests, NEW q \in Requests \ {r}, Live(r), Live(q)
    PROVE  q \in Met(r)
  BY DEF Met, BeforeEnded, Live

\* Two requests that make a compiler at once overlap, after each step.
LEMMA NextMakersMeet ==
    Values /\ compiler \in BOOLEAN /\ BeforeEnded /\ MakersMeet /\ [Next]_vars => MakersMeet'
  <1> SUFFICES ASSUME Values, compiler \in BOOLEAN, BeforeEnded, MakersMeet, [Next]_vars PROVE MakersMeet'
    OBVIOUS
  <1>0. /\ pc \in [Requests -> Stages] /\ parent \in Requests \cup {None} /\ failed \subseteq Requests
    BY DEF Values
  <1>a. Lasting
    BY ArriveOnce
  <1>b. \A r, q \in Requests : pc[r] # "new" /\ q \in Met(r) => q \in Met(r)'
    BY <1>a, MetLasts
  <1>c. \A r, q \in Requests : r # q /\ Live(r) /\ Live(q) => q \in Met(r)
    BY LiveMeet
  <1>d. \A r \in Requests : Met(r) \subseteq Requests
    BY DEF Met
  <1> USE DEF MakersMeet, static, history, Step
  <1>1. CASE Quiet
    BY <1>0, <1>a, <1>b, <1>d, <1>1 DEF Quiet, Making, Lasting, Ended
  <1>2. ASSUME NEW r \in Requests, getCompiler(r) PROVE MakersMeet'
    <2>1. /\ pc[r] = "getCompiler" /\ pc' = [pc EXCEPT ![r] = IF compiler THEN "compile" ELSE "construct"]
          /\ UNCHANGED <<compiler, parent, loaded, failed>>
      BY <1>2 DEF getCompiler
    <2> QED
      BY <1>0, <1>a, <1>b, <1>d, <2>1 DEF Lasting, Ended
  <1>3. ASSUME NEW r \in Requests, NewParent(r) PROVE MakersMeet'
    <2>1. /\ pc[r] = "construct" /\ pc' = [pc EXCEPT ![r] = "read"] /\ parent' = r
          /\ UNCHANGED <<compiler, failed>>
      BY <1>3 DEF NewParent
    <2>2. \A q \in Requests \ {r} : pc[q] \in {"read", "load", "publish"} => q \in Met(r)'
      BY <1>b, <1>c, <2>1 DEF Live, Ended
    <2> QED
      BY <1>0, <1>a, <1>b, <1>d, <2>1, <2>2, NoneAssumption DEF Lasting, Ended
  <1>4. ASSUME NEW r \in Requests, ReadParent(r, "read", "load") PROVE MakersMeet'
    <2>1. /\ pc[r] = "read" /\ pc' = [pc EXCEPT ![r] = "load"] /\ UNCHANGED <<compiler, parent, failed>>
      BY <1>4 DEF ReadParent
    <2> QED
      BY <1>0, <1>a, <1>b, <1>d, <2>1 DEF Lasting, Ended
  <1>5. ASSUME NEW r \in Requests, Load(r) PROVE MakersMeet'
    <2>1. /\ pc[r] = "load" /\ pc' = [pc EXCEPT ![r] = "publish"] /\ UNCHANGED <<compiler, parent, failed>>
      BY <1>5 DEF Load
    <2> QED
      BY <1>0, <1>a, <1>b, <1>d, <2>1 DEF Lasting, Ended
  <1>6. ASSUME NEW r \in Requests, LoadFails(r) PROVE MakersMeet'
    <2>1. /\ pc[r] = "load" /\ pc' = [pc EXCEPT ![r] = "aborted"] /\ failed' = failed \cup {r}
          /\ UNCHANGED <<compiler, parent>>
      BY <1>6 DEF LoadFails
    <2> QED
      BY <1>0, <1>a, <1>b, <1>d, <2>1 DEF Lasting, Ended
  <1>7. ASSUME NEW r \in Requests, Publish(r) PROVE MakersMeet'
    <2>1. /\ pc[r] = "publish" /\ pc' = [pc EXCEPT ![r] = "compile"] /\ compiler' = TRUE
          /\ UNCHANGED <<parent, failed>>
      BY <1>7 DEF Publish
    <2>2. \A q \in Requests : pc'[q] \in {"construct", "read", "load"} => r \in Met(q)'
      BY <1>0, <1>b, <1>c, <2>1 DEF Live, Ended
    <2>3. parent \in failed => r \in Met(parent)'
      BY <1>0, <1>b, <2>1
    <2> QED
      BY <1>0, <1>a, <1>b, <1>d, <2>1, <2>2, <2>3 DEF Lasting, Ended
  <1>8. CASE UNCHANGED vars
    BY <1>8 DEF vars, Met
  <1> QED
    BY <1>1, <1>2, <1>3, <1>4, <1>5, <1>6, <1>7, <1>8, QuietSteps DEF Next, Idle

\* compiler is set to TRUE or left alone.
LEMMA NextFlag == compiler \in BOOLEAN /\ [Next]_vars => compiler' \in BOOLEAN
  BY Zenon DEF Next, vars, static, doGet, doPost, SetStatus, PrintMessage, getCompiler, NewParent,
     ReadParent, Load, LoadFails, Publish, Evaluate, Cajole, Idle

----------------------------------------------------------------------------
(* What is printed.                                                        *)

Steps(s) ==
    \/ doGet(s) \/ doPost(s) \/ SetStatus(s) \/ PrintMessage(s)
    \/ getCompiler(s) \/ NewParent(s) \/ ReadParent(s, "read", "load")
    \/ Load(s) \/ LoadFails(s) \/ Publish(s)
    \/ ReadParent(s, "compile", "evaluate") \/ Evaluate(s) \/ Cajole(s)

\* What a step of s may do to the others: write to the response in the field or
\* to the one whose status it has set.
Effects(s) ==
    /\ input' = input /\ failed \subseteq failed' /\ loaded \subseteq loaded'
    /\ Live(s) \/ pc[s] = "new"
    /\ pc'[s] # "new"
    /\ resp' = resp \/ (pc[s] = "new" /\ resp' = s)
    /\ compiler => compiler'
    /\ pc'[s] = "print" => target'[s] \in {s, resp}
    /\ \A q \in Requests \ {s} :
          /\ pc'[q] = pc[q] /\ scope'[q] = scope[q] /\ fault'[q] = fault[q] /\ target'[q] = target[q]
          /\ \/ status'[q] = status[q] /\ body'[q] = body[q]
             \/ Live(s) /\ (q = resp \/ (pc[s] = "print" /\ q = target[s]))

\* Each step of a request has those effects and no others.
LEMMA StepEffects ==
    ASSUME Values, NEW s \in Requests, Steps(s)
    PROVE  Effects(s)
  <1>0. /\ pc \in [Requests -> Stages] /\ scope \in [Requests -> Requests \cup {None}]
        /\ fault \in [Requests -> Faults \cup {"none"}] /\ target \in [Requests -> Requests \cup {None}]
        /\ status \in [Requests -> {200, 302, 400, 500}] /\ body \in [Requests -> Seq(Printed)]
    BY DEF Values
  <1> USE DEF Effects, Step, static, history, Ended, Live
  <1>1. CASE doGet(s)
    BY <1>0, <1>1 DEF doGet
  <1>2. CASE doPost(s)
    BY <1>0, <1>2 DEF doPost, Proceeds
  <1>3. CASE SetStatus(s)
    BY <1>0, <1>3 DEF SetStatus
  <1>4. CASE PrintMessage(s)
    BY <1>0, <1>4 DEF PrintMessage, Prints
  <1>5. CASE getCompiler(s)
    BY <1>0, <1>5 DEF getCompiler
  <1>6. CASE NewParent(s)
    BY <1>0, <1>6 DEF NewParent
  <1>7. CASE ReadParent(s, "read", "load")
    BY <1>0, <1>7 DEF ReadParent
  <1>8. CASE Load(s)
    BY <1>0, <1>8 DEF Load
  <1>9. CASE LoadFails(s)
    BY <1>0, <1>9 DEF LoadFails
  <1>10. CASE Publish(s)
    BY <1>0, <1>10 DEF Publish
  <1>11. CASE ReadParent(s, "compile", "evaluate")
    BY <1>0, <1>11 DEF ReadParent
  <1>12. CASE Evaluate(s)
    BY <1>0, <1>12 DEF Evaluate, AfterCoffee, Prints
  <1>13. CASE Cajole(s)
    BY <1>0, <1>13 DEF Cajole, Prints
  <1> QED
    BY <1>1, <1>2, <1>3, <1>4, <1>5, <1>6, <1>7, <1>8, <1>9, <1>10, <1>11, <1>12, <1>13 DEF Steps

\* Nobody writes to a response before its request arrives.
LEMMA StepUntouched ==
    ASSUME Values, Untouched, NEW s \in Requests, Effects(s)
    PROVE  Untouched'
  <1> SUFFICES ASSUME NEW r \in Requests, pc'[r] = "new"
               PROVE  /\ status'[r] = 200 /\ body'[r] = <<>>
                      /\ resp' # r /\ \A q \in Requests : pc'[q] = "print" => target'[q] # r
    BY DEF Untouched
  <1>1. r # s /\ pc[r] = "new"
    BY DEF Effects
  <1>2. status[r] = 200 /\ body[r] = <<>> /\ resp # r /\ \A q \in Requests : pc[q] = "print" => target[q] # r
    BY <1>1 DEF Untouched
  <1>3. status'[r] = 200 /\ body'[r] = <<>>
    BY <1>1, <1>2 DEF Effects
  <1>4. resp' # r /\ \A q \in Requests : pc'[q] = "print" => target'[q] # r
    BY <1>1, <1>2 DEF Effects
  <1> QED
    BY <1>3, <1>4

\* Checks, compiler and Caja each have their say on the way to the answer.
LEMMA StepPath ==
    ASSUME Values, \A r \in Requests : Path(r), NEW s \in Requests, Steps(s), Effects(s)
    PROVE  \A r \in Requests : Path(r)'
  <1>0. /\ pc \in [Requests -> Stages] /\ fault \in [Requests -> Faults \cup {"none"}]
        /\ Path(s) /\ input' = input
    BY DEF Values, Effects
  <1>a. \A r \in Requests \ {s} : Path(r)'
    BY DEF Path, Effects, Answer, StatusCode
  <1>b. ASSUME pc'[s] \in {"setStatus", "print"}, pc[s] = pc'[s] \/ pc[s] = "setStatus", fault' = fault
        PROVE  Path(s)'
    BY <1>0, <1>b DEF Path
  <1> USE DEF Step, static, history
  <1>1. ASSUME doGet(s) PROVE Path(s)'
    BY <1>0, <1>1 DEF doGet, Path
  <1>2. ASSUME doPost(s) PROVE Path(s)'
    <2> DEFINE f == BadRequest(input[s])
    <2>1. input[s].method = "POST" /\ fault'[s] = f
      BY <1>0, <1>2 DEF doPost, Proceeds
    <2>2. pc'[s] = IF f # "none" THEN "setStatus" ELSE IF input[s].type = "coffee" THEN "getCompiler" ELSE "cajole"
      BY <1>0, <1>2 DEF doPost, Proceeds
    <2>3. f \in {"auth", "no source", "too long", "no type", "unknown type", "none"}
      BY DEF BadRequest
    <2>4. f # "none" => Answer(input[s]) = [status |-> StatusCode(f), what |-> <<f>>]
      <3>1. f # "none" => StatusCode(f) = 400
        BY <2>3 DEF StatusCode
      <3> HIDE DEF f
      <3>2. f # "none" => Answer(input[s]) = [status |-> 400, what |-> <<f>>]
        BY <2>1 DEF Answer, f
      <3> QED
        BY <3>1, <3>2
    <2> HIDE DEF f
    <2>5. BadRequest(input'[s]) = f /\ input'[s] = input[s]
      BY <1>0 DEF f
    <2>6. CASE f # "none"
      BY <1>0, <2>1, <2>2, <2>4, <2>6 DEF Path
    <2>7. CASE f = "none"
      BY <2>1, <2>2, <2>5, <2>7 DEF Path
    <2> QED
      BY <2>6, <2>7
  <1>3. ASSUME SetStatus(s) PROVE Path(s)'
    <2>1. pc'[s] = "print" /\ pc[s] = "setStatus" /\ fault' = fault
      BY <1>0, <1>3 DEF SetStatus
    <2> QED
      BY <1>b, <2>1
  <1>4. ASSUME PrintMessage(s) PROVE Path(s)'
    BY <1>0, <1>4 DEF PrintMessage, Path
  <1>5. ASSUME getCompiler(s) PROVE Path(s)'
    BY <1>0, <1>5 DEF getCompiler, Path
  <1>6. ASSUME NewParent(s) PROVE Path(s)'
    BY <1>0, <1>6 DEF NewParent, Path
  <1>7. ASSUME ReadParent(s, "read", "load") PROVE Path(s)'
    BY <1>0, <1>7 DEF ReadParent, Path
  <1>8. ASSUME Load(s) PROVE Path(s)'
    BY <1>0, <1>8 DEF Load, Path
  <1>9. ASSUME LoadFails(s) PROVE Path(s)'
    BY <1>0, <1>9 DEF LoadFails, Path
  <1>10. ASSUME Publish(s) PROVE Path(s)'
    BY <1>0, <1>10 DEF Publish, Path
  <1>11. ASSUME ReadParent(s, "compile", "evaluate") PROVE Path(s)'
    BY <1>0, <1>11 DEF ReadParent, Path
  <1>12. ASSUME Evaluate(s) PROVE Path(s)'
    <2>1. pc[s] = "evaluate" /\ input[s].method = "POST" /\ BadRequest(input[s]) = "none" /\ input[s].type = "coffee"
      BY <1>0, <1>12 DEF Evaluate, Path
    <2>2. CASE pc'[s] = "setStatus"
      <3>1. fault'[s] = "compile" /\ ~input[s].compiles
        BY <1>0, <1>12, <2>2 DEF Evaluate, AfterCoffee
      <3>2. Answer(input[s]) = [status |-> StatusCode("compile"), what |-> <<"compile">>]
        BY <2>1, <3>1 DEF Answer, StatusCode
      <3> QED
        BY <1>0, <2>2, <3>1, <3>2 DEF Path
    <2>3. CASE pc'[s] # "setStatus"
      <3>1. pc'[s] \in {"aborted", "done"} \/ (pc'[s] = "cajole" /\ input[s].compiles /\ ~input[s].coffee)
        BY <1>0, <1>12, <2>3 DEF Evaluate, AfterCoffee
      <3> QED
        BY <1>0, <2>1, <3>1 DEF Path
    <2> QED
      BY <2>2, <2>3
  <1>13. ASSUME Cajole(s) PROVE Path(s)'
    <2>1. /\ pc[s] = "cajole" /\ input[s].method = "POST" /\ BadRequest(input[s]) = "none"
          /\ input[s].type = "coffee" => input[s].compiles /\ ~input[s].coffee
      BY <1>0, <1>13 DEF Cajole, Path
    <2>2. CASE pc'[s] = "setStatus"
      <3>1. fault'[s] = "cajole" /\ ~input[s].cajoles
        BY <1>0, <1>13, <2>2 DEF Cajole
      <3>2. Answer(input[s]) = [status |-> StatusCode("cajole"), what |-> <<"cajole">>]
        BY <2>1, <3>1 DEF Answer, StatusCode
      <3> QED
        BY <1>0, <2>2, <3>1, <3>2 DEF Path
    <2>3. CASE pc'[s] # "setStatus"
      <3>1. pc'[s] = "done"
        BY <1>0, <1>13, <2>3 DEF Cajole
      <3> QED
        BY <3>1 DEF Path
    <2> QED
      BY <2>2, <2>3
  <1>14. Path(s)'
    BY <1>1, <1>2, <1>3, <1>4, <1>5, <1>6, <1>7, <1>8, <1>9, <1>10, <1>11, <1>12, <1>13 DEF Steps
  <1> QED
    BY <1>a, <1>14

\* A step of another request leaves the response alone that its request got
\* without meeting anyone, and is impossible before that.
LEMMA OthersKeepClean ==
    ASSUME Values, BeforeEnded, FieldIsLater, CleanAlone, Lasting,
           NEW s \in Requests, Effects(s), NEW r \in Requests \ {s}, pc'[r] # "new", Met(r)' = {}
    PROVE  Clean(r)'
  <1>1. pc[r] # "new" /\ pc'[r] = pc[r] /\ input'[r] = input[r]
    BY DEF Effects
  <1>2. Met(r) = {} /\ Clean(r)
    <2>1. Met(r) = {}
      BY <1>1, MetLasts
    <2> QED
      BY <1>1, <2>1 DEF CleanAlone
  <1>3. CASE Live(r)
    <2>1. CASE Live(s)
      BY <1>2, <1>3, <2>1, LiveMeet
    <2>2. CASE pc[s] = "new"
      <3>1. pc'[s] # "new" /\ before'[s] = {q \in Requests : pc[q] \in Ended}
        BY <2>2 DEF Effects, Lasting
      <3>2. r \notin before'[s]
        BY <1>3, <3>1 DEF Live
      <3>3. s \notin before'[r]
        BY <1>1, <2>2 DEF Lasting, BeforeEnded, Ended
      <3>4. s \in Met(r)'
        BY <3>1, <3>2, <3>3 DEF Met
      <3> QED
        BY <3>4
    <2> QED
      BY <2>1, <2>2 DEF Effects
  <1>4. CASE ~Live(r)
    <2>1. pc[r] \in Ended
      BY <1>1, <1>4 DEF Live
    <2>2. status'[r] = status[r] /\ body'[r] = body[r]
      <3>1. SUFFICES ASSUME Live(s), r = resp \/ (pc[s] = "print" /\ r = target[s]) PROVE FALSE
        BY DEF Effects
      <3>2. r \notin before[s]
        BY <3>1 DEF FieldIsLater
      <3>3. s \notin before[r]
        BY <3>1 DEF BeforeEnded, Live
      <3>4. s \in Met(r)
        BY <3>1, <3>2, <3>3 DEF Met, Live
      <3> QED
        BY <1>2, <3>4
    <2>3. failed # {} => failed' # {}
      BY DEF Effects
    <2> QED
      BY <1>1, <1>2, <2>1, <2>2, <2>3 DEF Clean, Answered, Live, Ended
  <1> QED
    BY <1>3, <1>4

\* The response of a request that meets no one, step by step.
LEMMA StepClean ==
    ASSUME Values, Reports, compiler \in BOOLEAN, BeforeEnded, FieldIsLater, ParentInHand, MakersMeet,
           Untouched, \A r \in Requests : Path(r), CleanAlone, Lasting,
           NEW s \in Requests, Steps(s), Effects(s)
    PROVE  CleanAlone'
  <1>0. /\ pc \in [Requests -> Stages] /\ scope \in [Requests -> Requests \cup {None}]
        /\ fault \in [Requests -> Faults \cup {"none"}] /\ target \in [Requests -> Requests \cup {None}]
        /\ status \in [Requests -> {200, 302, 400, 500}] /\ body \in [Requests -> Seq(Printed)]
        /\ input' = input /\ Path(s)
    BY DEF Values, Effects
  <1>a. SUFFICES ASSUME Met(s)' = {} PROVE Clean(s)'
    BY OthersKeepClean DEF CleanAlone
  <1>b. pc[s] # "new" => Met(s) = {} /\ Clean(s)
    <2>1. pc[s] # "new" => Met(s) = {}
      BY <1>a, MetLasts
    <2> QED
      BY <2>1 DEF CleanAlone
  <1>c. pc[s] = "new" => status[s] = 200 /\ body[s] = <<>>
    BY DEF Untouched
  \* A step that touches neither response nor field keeps what is established.
  <1>d. ASSUME Live(s), Live(s)', pc[s] # "print", pc'[s] # "print", resp' = resp, status' = status, body' = body,
               pc'[s] = "evaluate" => scope'[s] \in loaded' \/ failed' # {}
        PROVE  Clean(s)'
    <2>1. Clean(s)
      BY <1>b, <1>d DEF Live
    <2> QED
      BY <1>d, <2>1 DEF Clean, Live, Ended
  \* One message ends a request.
  <1>e. ASSUME NEW what, Prints(s, what, s), body[s] = <<>>, pc'[s] = "done", status'[s] = Answer(input[s]).status,
               Answer(input[s]).what = <<what>>
        PROVE  Clean(s)'
    <2>1. body'[s] = <<[of |-> s, what |-> what]>>
      BY <1>0, <1>e DEF Prints
    <2>2. <<[of |-> s, what |-> what]>> = [i \in 1..Len(<<what>>) |-> [of |-> s, what |-> <<what>>[i]]]
      OBVIOUS
    <2>3. Answered(s)'
      BY <1>0, <1>e, <2>1, <2>2 DEF Answered
    <2> QED
      BY <1>e, <2>3 DEF Clean, Live, Ended
  <1> USE DEF Step, static, history, Ended, Live
  <1>1. ASSUME doGet(s) PROVE Clean(s)'
    <2>1. input[s].method = "GET" /\ pc[s] = "new" /\ pc'[s] = "done" /\ status'[s] = 302 /\ body' = body
      BY <1>0, <1>1 DEF doGet
    <2>2. Answer(input[s]) = [status |-> 302, what |-> <<>>]
      BY <2>1 DEF Answer
    <2>3. <<>> = [i \in 1..Len(<<>>) |-> [of |-> s, what |-> <<>>[i]]]
      OBVIOUS
    <2>4. Answered(s)'
      BY <1>0, <1>c, <2>1, <2>2, <2>3 DEF Answered
    <2> QED
      BY <2>1, <2>4 DEF Clean
  <1>2. ASSUME doPost(s) PROVE Clean(s)'
    BY <1>0, <1>2, <1>c DEF doPost, Proceeds, Clean
  <1>3. ASSUME SetStatus(s) PROVE Clean(s)'
    <2>1. pc[s] = "setStatus" /\ pc'[s] = "print" /\ resp' = resp /\ fault' = fault /\ body' = body
      BY <1>0, <1>3 DEF SetStatus
    <2>2. resp = s /\ body[s] = <<>>
      BY <1>b, <2>1 DEF Clean
    <2>3. target'[s] = s /\ status'[s] = StatusCode(fault[s])
      BY <1>0, <1>3, <2>2 DEF SetStatus
    <2>4. StatusCode(fault[s])' = StatusCode(fault[s])
      BY <2>1 DEF StatusCode
    <2> QED
      BY <2>1, <2>2, <2>3, <2>4 DEF Clean
  <1>4. ASSUME PrintMessage(s) PROVE Clean(s)'
    <2>1. pc[s] = "print" /\ pc'[s] = "done" /\ status' = status
      BY <1>0, <1>4 DEF PrintMessage
    <2>2. resp = s /\ body[s] = <<>> /\ target[s] = s /\ status[s] = StatusCode(fault[s])
      BY <1>b, <2>1 DEF Clean
    <2>3. Prints(s, fault[s], s)
      BY <1>4, <2>2 DEF PrintMessage
    <2>4. Answer(input[s]) = [status |-> StatusCode(fault[s]), what |-> <<fault[s]>>]
      BY <1>0, <2>1 DEF Path
    <2> QED
      BY <1>e, <2>1, <2>2, <2>3, <2>4
  <1>5. ASSUME getCompiler(s) PROVE Clean(s)'
    BY <1>0, <1>5, <1>d DEF getCompiler
  <1>6. ASSUME NewParent(s) PROVE Clean(s)'
    BY <1>0, <1>6, <1>d DEF NewParent
  <1>7. ASSUME ReadParent(s, "read", "load") PROVE Clean(s)'
    BY <1>0, <1>7, <1>d DEF ReadParent
  <1>8. ASSUME Load(s) PROVE Clean(s)'
    BY <1>0, <1>8, <1>d DEF Load
  <1>9. ASSUME LoadFails(s) PROVE Clean(s)'
    <2>1. pc'[s] = "aborted" /\ failed' # {}
      BY <1>0, <1>9 DEF LoadFails
    <2> QED
      BY <2>1 DEF Clean
  <1>10. ASSUME Publish(s) PROVE Clean(s)'
    BY <1>0, <1>10, <1>d DEF Publish
  <1>11. ASSUME ReadParent(s, "compile", "evaluate") PROVE Clean(s)'
    <2>1. /\ pc[s] = "compile" /\ pc'[s] = "evaluate" /\ scope'[s] = parent
          /\ UNCHANGED <<resp, status, body, loaded, failed>>
      BY <1>0, <1>11 DEF ReadParent
    <2>2. compiler /\ parent # None /\ parent \in Requests
      BY <1>0, <2>1 DEF Path, MakersMeet, Values
    <2>3. parent \in loaded \/ parent \in failed
      <3>1. SUFFICES ASSUME pc[parent] \in {"read", "load"} PROVE FALSE
        BY <2>2 DEF ParentInHand
      <3>2. parent # s /\ Live(parent) /\ Live(s)
        BY <2>1, <3>1
      <3> QED
        BY <1>b, <2>1, <2>2, <3>2, LiveMeet
    <2> QED
      BY <1>d, <2>1, <2>3
  <1>12. ASSUME Evaluate(s) PROVE Clean(s)'
    <2>1. /\ pc[s] = "evaluate" /\ UNCHANGED <<resp, status>>
          /\ input[s].method = "POST" /\ BadRequest(input[s]) = "none" /\ input[s].type = "coffee"
      BY <1>0, <1>12 DEF Evaluate, Path
    <2>2. Clean(s) /\ body[s] = <<>> /\ status[s] = 200
      BY <1>b, <2>1 DEF Clean
    <2>3. CASE scope[s] \notin loaded
      <3>1. pc'[s] = "aborted" /\ failed' # {}
        BY <1>0, <1>12, <2>1, <2>2, <2>3 DEF Evaluate, Clean
      <3> QED
        BY <3>1 DEF Clean
    <2>4. CASE scope[s] \in loaded /\ ~input[s].compiles
      <3>1. pc'[s] = "setStatus" /\ body' = body
        BY <1>0, <1>12, <2>4 DEF Evaluate
      <3> QED
        BY <1>d, <2>1, <3>1
    <2>5. CASE scope[s] \in loaded /\ input[s].compiles /\ input[s].coffee
      <3>1. pc'[s] = "done" /\ Prints(s, "coffee", s)
        BY <1>0, <1>12, <2>5 DEF Evaluate, AfterCoffee
      <3>2. Answer(input[s]) = [status |-> 200, what |-> <<"coffee">>]
        BY <2>1, <2>5 DEF Answer
      <3> QED
        BY <1>e, <2>1, <2>2, <3>1, <3>2
    <2>6. CASE scope[s] \in loaded /\ input[s].compiles /\ ~input[s].coffee
      <3>1. pc'[s] = "cajole" /\ body' = body
        BY <1>0, <1>12, <2>6 DEF Evaluate, AfterCoffee
      <3> QED
        BY <1>d, <2>1, <3>1
    <2> QED
      BY <2>3, <2>4, <2>5, <2>6
  <1>13. ASSUME Cajole(s) PROVE Clean(s)'
    <2>1. /\ pc[s] = "cajole" /\ UNCHANGED <<resp, status>>
          /\ input[s].method = "POST" /\ BadRequest(input[s]) = "none"
          /\ input[s].type = "coffee" => input[s].compiles /\ ~input[s].coffee
      BY <1>0, <1>13 DEF Cajole, Path
    <2>2. Clean(s) /\ body[s] = <<>> /\ status[s] = 200
      BY <1>b, <2>1 DEF Clean
    <2>3. CASE input[s].cajoles
      <3>1. pc'[s] = "done" /\ Prints(s, "source", s)
        BY <1>0, <1>13, <2>3 DEF Cajole
      <3>2. Answer(input[s]) = [status |-> 200, what |-> <<"source">>]
        BY <2>1, <2>3 DEF Answer
      <3> QED
        BY <1>e, <2>1, <2>2, <3>1, <3>2
    <2>4. CASE ~input[s].cajoles
      <3>1. pc'[s] = "setStatus" /\ body' = body
        BY <1>0, <1>13, <2>4 DEF Cajole
      <3> QED
        BY <1>d, <2>1, <3>1
    <2> QED
      BY <2>3, <2>4
  <1> QED
    BY <1>1, <1>2, <1>3, <1>4, <1>5, <1>6, <1>7, <1>8, <1>9, <1>10, <1>11, <1>12, <1>13 DEF Steps

\* Code is the last thing a request prints, and it prints it on its own response.
LEMMA StepCode ==
    ASSUME Values, Reports, CodeIsLast, OwnTranslation, Lasting, NEW s \in Requests, Steps(s), Effects(s)
    PROVE  CodeIsLast' /\ OwnTranslation'
  <1> DEFINE Goal == CodeIsLast' /\ OwnTranslation'
  <1>0. pc \in [Requests -> Stages] /\ body \in [Requests -> Seq(Printed)]
    BY DEF Values
  <1>a. \A r \in Requests : pc'[r] # "done" => pc[r] # "done"
    BY DEF Lasting, Ended
  <1>b. ASSUME UNCHANGED body PROVE Goal
    BY <1>a, <1>b DEF CodeIsLast, OwnTranslation
  <1>c. ASSUME NEW what, NEW on \in Requests, Prints(s, what, on),
               what \in Faults \/ (on = s /\ pc[s] # "done" /\ pc'[s] = "done")
        PROVE  Goal
    <2> DEFINE n == Len(body[on])
               new == [of |-> s, what |-> what]
    <2>1. body'[on] = Append(body[on], new) /\ \A r \in Requests \ {on} : body'[r] = body[r]
      BY <1>0, <1>c DEF Prints
    <2>2. n \in Nat /\ Len(body'[on]) = n + 1 /\ body'[on][n + 1] = new /\ \A i \in 1..n : body'[on][i] = body[on][i]
      <3>1. body[on] \in Seq(Printed)
        BY <1>0
      <3> DEFINE b == body[on]
      <3> HIDE DEF b, new
      <3>2. Len(b) \in Nat /\ Len(Append(b, new)) = Len(b) + 1 /\ Append(b, new)[Len(b) + 1] = new
            /\ \A i \in 1..Len(b) : Append(b, new)[i] = b[i]
        BY <3>1 DEF b
      <3> QED
        BY <2>1, <3>2 DEF b
    <2>3. new.of = s /\ new.what = what
      OBVIOUS
    <2>4. pc[on] # "done" => \A i \in 1..n : body[on][i].what \in Faults
      BY DEF CodeIsLast
    <2>5. \A i \in 1..n : body[on][i].what \notin Faults =>
             body[on][i].of = on /\ \A j \in 1..i - 1 : body[on][j].what \in Faults
      BY DEF OwnTranslation
    <2> HIDE DEF n, new
    <2>6. pc'[on] # "done" => \A i \in 1..n + 1 : body'[on][i].what \in Faults
      BY <1>a, <1>c, <2>2, <2>3, <2>4
    <2>7. \A i \in 1..n + 1 : body'[on][i].what \notin Faults =>
             body'[on][i].of = on /\ \A j \in 1..i - 1 : body'[on][j].what \in Faults
      <3> SUFFICES ASSUME NEW i \in 1..n + 1, body'[on][i].what \notin Faults
                   PROVE  body'[on][i].of = on /\ \A j \in 1..i - 1 : body'[on][j].what \in Faults
        OBVIOUS
      <3>1. CASE i = n + 1
        <4>1. on = s /\ pc[on] # "done"
          BY <1>c, <2>2, <2>3, <3>1
        <4> QED
          BY <2>2, <2>3, <2>4, <3>1, <4>1
      <3>2. CASE i # n + 1
        <4>1. i \in 1..n /\ \A j \in 1..i - 1 : j \in 1..n
          BY <2>2, <3>2
        <4> QED
          BY <2>2, <2>5, <4>1
      <3> QED
        BY <3>1, <3>2
    <2>8. \A r \in Requests \ {on} :
             /\ pc'[r] # "done" => \A i \in 1..Len(body'[r]) : body'[r][i].what \in Faults
             /\ \A i \in 1..Len(body'[r]) : body'[r][i].what \notin Faults =>
                   body'[r][i].of = r /\ \A j \in 1..i - 1 : body'[r][j].what \in Faults
      BY <1>a, <2>1 DEF CodeIsLast, OwnTranslation
    <2>9. CodeIsLast'
      BY <2>2, <2>6, <2>8 DEF CodeIsLast
    <2>10. OwnTranslation'
      BY <2>2, <2>7, <2>8 DEF OwnTranslation
    <2> QED
      BY <2>9, <2>10
  <1> HIDE DEF Goal
  <1> USE DEF static, history
  <1>1. ASSUME PrintMessage(s) PROVE Goal
    <2>1. PICK on \in {target[s], resp} : Prints(s, fault[s], on)
      BY <1>1 DEF PrintMessage
    <2>2. fault[s] \in Faults
      BY <1>1 DEF PrintMessage, Step, Reports
    <2>3. CASE on \in Requests
      BY <1>c, <2>1, <2>2, <2>3
    <2>4. CASE on \notin Requests
      <3>1. body' = body
        BY <1>0, <2>1, <2>4 DEF Prints
      <3> QED
        BY <1>b, <3>1
    <2> QED
      BY <2>3, <2>4
  <1>2. ASSUME Evaluate(s) PROVE Goal
    <2>1. body' = body \/ (Prints(s, "coffee", s) /\ pc[s] # "done" /\ pc'[s] = "done")
      BY <1>0, <1>2 DEF Evaluate, Step, AfterCoffee
    <2> QED
      BY <1>b, <1>c, <2>1
  <1>3. ASSUME Cajole(s) PROVE Goal
    <2>1. body' = body \/ (Prints(s, "source", s) /\ pc[s] # "done" /\ pc'[s] = "done")
      BY <1>0, <1>3 DEF Cajole, Step
    <2> QED
      BY <1>b, <1>c, <2>1
  <1>4. ASSUME ~(PrintMessage(s) \/ Evaluate(s) \/ Cajole(s)) PROVE Goal
    <2>1. body' = body
      BY <1>4 DEF Steps, doGet, doPost, SetStatus, getCompiler, NewParent, ReadParent, Load, LoadFails, Publish
    <2> QED
      BY <1>b, <2>1
  <1>5. Goal
    BY <1>1, <1>2, <1>3, <1>4
  <1> QED
    BY <1>5 DEF Goal

\* All this from the start and at every step.
LEMMA InitOutput == Init => OutputInv
  <1> SUFFICES ASSUME Init PROVE OutputInv
    OBVIOUS
  <1> USE DEF Init
  <1>1. Untouched
    <2>1. None \notin Requests
      BY NoneAssumption
    <2> QED
      BY <2>1 DEF Untouched
  <1>2. (\A r \in Requests : Path(r)) /\ CleanAlone /\ CodeIsLast /\ OwnTranslation
    BY DEF Path, CleanAlone, CodeIsLast, OwnTranslation
  <1> QED
    BY <1>1, <1>2 DEF OutputInv

\* Every step keeps the invariant of what is written.
LEMMA NextOutput == IInv /\ compiler \in BOOLEAN /\ OutputInv /\ [Next]_vars => OutputInv'
  <1> SUFFICES ASSUME IInv, compiler \in BOOLEAN, OutputInv, [Next]_vars PROVE OutputInv'
    OBVIOUS
  <1>1. Lasting
    BY ArriveOnce DEF IInv
  <1>2. ASSUME NEW s \in Requests, Steps(s) PROVE OutputInv'
    <2>1. Effects(s)
      BY <1>2, StepEffects DEF IInv
    <2>2. Untouched' /\ (\A r \in Requests : Path(r)')
      BY <1>2, <2>1, StepUntouched, StepPath DEF IInv, OutputInv
    <2>3. CleanAlone'
      BY <1>1, <1>2, <2>1, StepClean DEF IInv, OutputInv
    <2>4. CodeIsLast' /\ OwnTranslation'
      BY <1>1, <1>2, <2>1, StepCode DEF IInv, OutputInv
    <2> QED
      BY <2>2, <2>3, <2>4 DEF OutputInv
  <1>3. CASE UNCHANGED vars
    BY <1>3 DEF vars, static, history, OutputInv, Untouched, Path, CleanAlone, CodeIsLast, OwnTranslation,
       Clean, Answered, Live, Met
  <1> QED
    BY <1>2, <1>3 DEF Next, Idle, Steps

\* The invariant holds in every reachable state.
LEMMA Invariant == Spec => [](IInv /\ compiler \in BOOLEAN)
  <1>1. Init => IInv /\ compiler \in BOOLEAN
    BY InitInv
  <1>2. IInv /\ compiler \in BOOLEAN /\ [Next]_vars => (IInv /\ compiler \in BOOLEAN)'
    <2> SUFFICES ASSUME IInv, compiler \in BOOLEAN, [Next]_vars PROVE (IInv /\ compiler \in BOOLEAN)'
      OBVIOUS
    <2>1. Values' /\ Reports' /\ BeforeEnded'
      BY NextValues, NextReports, NextBeforeEnded, ArriveOnce DEF IInv
    <2>2. FieldIsLater' /\ PrintersArrived' /\ NeverBackwards'
      BY NextFieldIsLater, NextNeverBackwards DEF IInv
    <2>3. ParentInHand' /\ MakersMeet'
      BY NextParentInHand, NextMakersMeet DEF IInv
    <2>4. compiler' \in BOOLEAN
      BY NextFlag
    <2> QED
      BY <2>1, <2>2, <2>3, <2>4 DEF IInv
  <1> QED
    BY <1>1, <1>2, PTL DEF Spec

\* Every variable keeps its type and a thread reports only what has gone wrong.
THEOREM TypeCorrect == Spec => []TypeOK
  <1>1. IInv /\ compiler \in BOOLEAN => TypeOK
    BY DEF IInv, TypeOK
  <1> QED
    BY Invariant, <1>1, PTL

\* However many requests share the field resp, none is written to once it has
\* ended by a request that arrives after that.
THEOREM ErrorsNeverGoBack == Spec => []NeverBackwards
  <1>1. IInv => NeverBackwards
    BY DEF IInv
  <1> QED
    BY Invariant, <1>1, PTL

\* However many threads make the compiler at the same time, it is fit for use
\* when they have ended, unless one that met another failed.
THEOREM CompilerIsReady == Spec => []ReadyAtRest
  <1>1. IInv /\ compiler \in BOOLEAN => ReadyAtRest
    <2> SUFFICES ASSUME IInv, compiler, \A r \in Requests : pc[r] \notin {"read", "load"}, parent \notin loaded
                 PROVE  \E r \in failed : Met(r) # {}
      BY DEF ReadyAtRest
    <2>1. parent # None /\ parent \in Requests \cup {None}
      BY DEF IInv, MakersMeet, Values
    <2>2. parent \in failed
      BY <2>1 DEF IInv, ParentInHand
    <2> QED
      BY <2>2 DEF IInv, MakersMeet
  <1> QED
    BY Invariant, <1>1, PTL
\* What holds of the output in every reachable state.
LEMMA OutputInvariant == Spec => []OutputInv
  <1>1. Init => OutputInv
    BY InitOutput
  <1>2. (IInv /\ compiler \in BOOLEAN) /\ OutputInv /\ [Next]_vars => OutputInv'
    BY NextOutput
  <1> QED
    BY Invariant, <1>1, <1>2, PTL DEF Spec

\* However the threads share the field, translated code is printed only for the
\* client that sent the source, and only once.
THEOREM TranslationsStayHome == Spec => []OwnTranslation
  <1>1. OutputInv => OwnTranslation
    BY DEF OutputInv
  <1> QED
    BY OutputInvariant, <1>1, PTL

\* A request that overlapped with no other gets exactly the answer to its
\* input, whatever others left in the fields and do after it; it can only be
\* aborted where the evaluation of coffee-script.js has failed.
THEOREM LonersAreAnswered == Spec => []AloneIsAnswered
  <1>1. OutputInv => AloneIsAnswered
    BY DEF OutputInv, CleanAlone, Clean, Answered, AloneIsAnswered, Ended
  <1> QED
    BY OutputInvariant, <1>1, PTL
=============================================================================
