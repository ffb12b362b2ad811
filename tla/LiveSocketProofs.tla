-------------------------- MODULE LiveSocketProofs --------------------------
(***************************************************************************)
(* Theorems about LiveSocket, for any number of messages and any windows.  *)
(***************************************************************************)
EXTENDS LiveSocket, SequenceTheorems, TLAPS

Types ==
    /\ window \in Nat /\ sent \in Nat
    /\ inbox \in Seq(Nat \cup {Control, TooBig})
    /\ echoed \in Seq(Nat)
    /\ reader \in {"read", "send", "quit", "done"} /\ data \in Nat
    /\ handler \in {"select", "forward", "done"} /\ item \in Nat
    /\ reads \in Seq(Nat) /\ Len(reads) \in {0, 1}
    /\ writes \in Seq(Nat) /\ Len(writes) \in {0, 1}

\* The local variables hold a message just while it is to be sent on.
Locals == (data # 0 <=> reader = "send") /\ (item # 0 <=> handler = "forward")

\* A client has no more messages unanswered than its window.
Windowed == sent <= Len(echoed) + window

\* How many of the messages after n a place holds.
one(v) == IF v = 0 THEN 0 ELSE 1
AfterWrites(n) == n + Len(writes)
AfterItem(n) == AfterWrites(n) + one(item)
AfterReads(n) == AfterItem(n) + Len(reads)
AfterData(n) == AfterReads(n) + one(data)

\* After n come, in order, what is in writes, in item, in reads, in data and on
\* the wire; up to n messages were echoed, or lost at the end.
Flow(n) ==
    /\ Len(echoed) <= n
    /\ up /\ handler # "done" => n = Len(echoed)
    /\ writes # <<>> => writes[1] = n + 1
    /\ item # 0 => item = AfterWrites(n) + 1
    /\ reads # <<>> => reads[1] = AfterItem(n) + 1
    /\ data # 0 => data = AfterReads(n) + 1
    /\ OnTheWire(AfterData(n))

Ordered == echoed = [i \in 1..Len(echoed) |-> i]

IInv == Types /\ Locals /\ Windowed /\ Ordered /\ \E n \in Nat : Flow(n)

----------------------------------------------------------------------------
(* Sequences.                                                              *)

Counts(s) == s = [i \in 1..Len(s) |-> i]

\* The next number continues a sequence that counts.
LEMMA CountsOn ==
    ASSUME NEW s \in Seq(Nat), Counts(s), NEW t \in Seq(Nat),
           t = <<>> \/ t = <<Len(s) + 1>>
    PROVE  /\ s \o t \in Seq(Nat) /\ Counts(s \o t)
           /\ Len(s \o t) = Len(s) + Len(t)
  <1>1. s \o t \in Seq(Nat) /\ Len(s \o t) = Len(s) + Len(t) /\ Len(s) \in Nat /\ Len(t) \in Nat
    BY ConcatProperties, LenProperties
  <1>2. \A i \in 1..Len(s) : s[i] = i
    <2> DEFINE n == Len(s)
    <2>1. s = [i \in 1..n |-> i]
      BY DEF Counts
    <2> HIDE DEF n
    <2>2. \A i \in 1..n : s[i] = i
      BY <2>1
    <2> QED
      BY <2>2 DEF n
  <1>3. CASE t = <<>>
    BY <1>3, ConcatEmptySeq
  <1>4. CASE t = <<Len(s) + 1>>
    <2> DEFINE u == s \o t
               n == Len(s) + 1
    <2>1. u \in Seq(Nat) /\ Len(u) = n /\ Len(t) = 1 /\ t[1] = n
      BY <1>1, <1>4
    <2>2. \A i \in 1..n : u[i] = IF i <= Len(s) THEN s[i] ELSE t[i - Len(s)]
      BY <2>1, <1>1, ConcatProperties
    <2>3. \A i \in 1..n : u[i] = i
      BY <1>1, <1>2, <2>1, <2>2
    <2>4. u = [i \in 1..Len(u) |-> u[i]]
      <3> HIDE DEF u
      <3>1. u \in [1..Len(u) -> Nat]
        BY <2>1, LenProperties
      <3> QED
        BY <3>1
    <2>5. [i \in 1..Len(u) |-> u[i]] = [i \in 1..Len(u) |-> i]
      BY <2>1, <2>3
    <2> QED
      BY <1>1, <2>4, <2>5 DEF Counts
  <1> QED
    BY <1>3, <1>4

\* One more message is put on the wire.
LEMMA WireGrows ==
    ASSUME Types, NEW n \in Nat, OnTheWire(n), inbox' = Append(inbox, sent + 1), sent' = sent + 1
    PROVE  OnTheWire(n)'
  <1> DEFINE k == Len(inbox)
  <1>1. inbox \in Seq(Nat \cup {Control, TooBig}) /\ sent \in Nat /\ k \in Nat
    BY DEF Types
  <1>2. Len(inbox') = k + 1 /\ (\A i \in 1..k : inbox'[i] = inbox[i]) /\ inbox'[k + 1] = sent + 1
    BY <1>1, AppendProperties
  <1> HIDE DEF k
  <1>3. \A m \in n + 1..sent + 1 : \E i \in 1..k + 1 : inbox'[i] = m
    <2> SUFFICES ASSUME NEW m \in n + 1..sent + 1 PROVE \E i \in 1..k + 1 : inbox'[i] = m
      OBVIOUS
    <2>1. CASE m = sent + 1
      BY <1>1, <1>2, <2>1
    <2>2. CASE m # sent + 1
      <3>1. m \in n + 1..sent
        BY <1>1, <2>2
      <3>2. PICK i \in 1..k : inbox[i] = m
        BY <3>1 DEF OnTheWire, k
      <3> QED
        BY <1>1, <1>2, <3>2
    <2> QED
      BY <2>1, <2>2
  <1>4. ASSUME NEW i \in 1..k + 1, isMessage(inbox'[i])
        PROVE  /\ inbox'[i] \in n + 1..sent + 1
               /\ \A j \in 1..i - 1 : isMessage(inbox'[j]) => inbox'[j] < inbox'[i]
    <2>1. \A j \in 1..k : isMessage(inbox[j]) => inbox[j] \in n + 1..sent
      BY DEF OnTheWire, k
    <2>2. CASE i = k + 1
      BY <1>1, <1>2, <2>1, <2>2 DEF OnTheWire
    <2>3. CASE i # k + 1
      <3>1. i \in 1..k /\ \A j \in 1..i - 1 : j \in 1..k
        BY <1>1, <2>3
      <3>2. isMessage(inbox[i]) /\ \A j \in 1..i - 1 : inbox'[j] = inbox[j]
        BY <1>2, <1>4, <3>1
      <3>3. \A j \in 1..i - 1 : isMessage(inbox[j]) => inbox[j] < inbox[i]
        BY <3>1, <3>2 DEF OnTheWire, k
      <3> QED
        BY <1>1, <1>2, <2>1, <3>1, <3>2, <3>3
    <2> QED
      BY <2>2, <2>3
  <1> QED
    BY <1>1, <1>2, <1>3, <1>4 DEF OnTheWire, isMessage

\* A frame that is no message changes nothing at the end of the wire.
LEMMA WireOther ==
    ASSUME Types, NEW n \in Nat, OnTheWire(n), NEW f \in {Control, TooBig},
           inbox' = Append(inbox, f), sent' = sent
    PROVE  OnTheWire(n)'
  <1> DEFINE k == Len(inbox)
  <1>1. inbox \in Seq(Nat \cup {Control, TooBig}) /\ sent \in Nat /\ k \in Nat
    BY DEF Types
  <1>2. Len(inbox') = k + 1 /\ (\A i \in 1..k : inbox'[i] = inbox[i]) /\ ~isMessage(inbox'[k + 1])
    BY <1>1, AppendProperties DEF isMessage
  <1> HIDE DEF k
  <1>3. ASSUME NEW i \in 1..k + 1, isMessage(inbox'[i])
        PROVE  /\ inbox'[i] \in n + 1..sent
               /\ \A j \in 1..i - 1 : isMessage(inbox'[j]) => inbox'[j] < inbox'[i]
    <2>1. i \in 1..k /\ \A j \in 1..i - 1 : j \in 1..k
      BY <1>1, <1>2, <1>3
    <2> QED
      BY <1>2, <1>3, <2>1 DEF OnTheWire, k
  <1>4. \A m \in n + 1..sent : \E i \in 1..k + 1 : inbox'[i] = m
    <2> SUFFICES ASSUME NEW m \in n + 1..sent PROVE \E i \in 1..k + 1 : inbox'[i] = m
      OBVIOUS
    <2>1. PICK i \in 1..k : inbox[i] = m
      BY DEF OnTheWire, k
    <2> QED
      BY <1>1, <1>2, <2>1
  <1> QED
    BY <1>2, <1>3, <1>4 DEF OnTheWire, isMessage

\* The first message on the wire is the next one; without it, those after it
\* are there, and without another frame nothing changes.
LEMMA WireShrinks ==
    ASSUME Types, NEW n \in Nat, OnTheWire(n), inbox # <<>>, inbox' = Tail(inbox), sent' = sent
    PROVE  /\ isMessage(Head(inbox)) => Head(inbox) = n + 1 /\ OnTheWire(n + 1)'
           /\ ~isMessage(Head(inbox)) => OnTheWire(n)'
  <1> DEFINE k == Len(inbox)
             h == Head(inbox)
  <1>1. inbox \in Seq(Nat \cup {Control, TooBig}) /\ sent \in Nat /\ k \in Nat /\ k # 0 /\ h = inbox[1]
    BY EmptySeq DEF Types
  <1>2. Len(inbox') = k - 1 /\ \A i \in 1..k - 1 : inbox'[i] = inbox[i + 1]
    BY <1>1, HeadTailProperties
  <1> HIDE DEF k, h
  <1>w. /\ n <= sent
        /\ \A m \in n + 1..sent : \E i \in 1..k : inbox[i] = m
        /\ \A i \in 1..k : isMessage(inbox[i]) => inbox[i] \in n + 1..sent
        /\ \A i \in 1..k : isMessage(inbox[i]) => \A j \in 1..i - 1 : isMessage(inbox[j]) => inbox[j] < inbox[i]
    BY DEF OnTheWire, k
  <1>m. \A m \in Nat : isMessage(m)
    BY FramesAssumption DEF isMessage
  <1>3. isMessage(h) => h = n + 1
    <2> SUFFICES ASSUME isMessage(h), h # n + 1 PROVE FALSE
      OBVIOUS
    <2>1. h \in n + 1..sent
      BY <1>1, <1>w
    <2>2. PICK i \in 1..k : inbox[i] = n + 1
      BY <1>1, <1>w, <2>1
    <2>3. i # 1 /\ 1 \in 1..i - 1
      BY <1>1, <2>2
    <2>4. h < n + 1
      BY <1>1, <1>m, <1>w, <2>2, <2>3
    <2> QED
      BY <1>1, <2>1, <2>4
  <1>4. ASSUME NEW i \in 1..k - 1, isMessage(inbox'[i])
        PROVE  /\ inbox'[i] \in n + 1..sent
               /\ isMessage(h) => inbox'[i] > h
               /\ \A j \in 1..i - 1 : isMessage(inbox'[j]) => inbox'[j] < inbox'[i]
    <2>1. i + 1 \in 1..k /\ 1 \in 1..(i + 1) - 1 /\ inbox'[i] = inbox[i + 1]
      BY <1>1, <1>2
    <2>2. isMessage(inbox[i + 1])
      BY <1>4, <2>1
    <2>3. \A j \in 1..i - 1 : j + 1 \in 1..(i + 1) - 1 /\ inbox'[j] = inbox[j + 1]
      BY <1>1, <1>2
    <2>4. inbox[i + 1] \in n + 1..sent
      BY <1>w, <2>1, <2>2
    <2>5. \A j \in 1..(i + 1) - 1 : isMessage(inbox[j]) => inbox[j] < inbox[i + 1]
      BY <1>w, <2>1, <2>2
    <2>6. isMessage(h) => h < inbox[i + 1] /\ h = n + 1
      BY <1>1, <1>3, <2>1, <2>5
    <2>7. \A j \in 1..i - 1 : isMessage(inbox'[j]) => inbox'[j] < inbox'[i]
      BY <2>1, <2>3, <2>5
    <2> QED
      BY <2>1, <2>4, <2>6, <2>7
  <1>5. ASSUME NEW m \in n + 1..sent, m # h PROVE \E i \in 1..k - 1 : inbox'[i] = m
    <2>1. PICK i \in 1..k : inbox[i] = m
      BY <1>w
    <2>2. i # 1 /\ i - 1 \in 1..k - 1
      BY <1>1, <1>5, <2>1
    <2>3. inbox'[i - 1] = inbox[(i - 1) + 1] /\ (i - 1) + 1 = i
      BY <1>2, <2>2
    <2> QED
      BY <2>1, <2>2, <2>3
  <1>6. CASE isMessage(h)
    <2>1. h = n + 1 /\ h \in n + 1..sent
      BY <1>1, <1>3, <1>6, <1>w
    <2>2. n + 1 <= sent
      BY <1>1, <2>1
    <2>3. \A m \in (n + 1) + 1..sent : m \in n + 1..sent /\ m # h
      BY <1>1, <2>1
    <2>4. \A m \in (n + 1) + 1..sent : \E i \in 1..k - 1 : inbox'[i] = m
      BY <1>5, <2>3
    <2>5. \A i \in 1..k - 1 : isMessage(inbox'[i]) => inbox'[i] \in (n + 1) + 1..sent
      <3> SUFFICES ASSUME NEW i \in 1..k - 1, isMessage(inbox'[i]) PROVE inbox'[i] \in (n + 1) + 1..sent
        OBVIOUS
      <3> DEFINE v == inbox'[i]
      <3>1. v \in n + 1..sent /\ v > n + 1
        BY <1>4, <1>6, <2>1
      <3> HIDE DEF v
      <3>2. v \in (n + 1) + 1..sent
        BY <1>1, <3>1
      <3> QED
        BY <3>2 DEF v
    <2>6. OnTheWire(n + 1)'
      BY <1>2, <1>4, <2>2, <2>4, <2>5 DEF OnTheWire, isMessage
    <2> QED
      BY <1>6, <2>1, <2>6 DEF h
  <1>7. CASE ~isMessage(h)
    <2>1. \A m \in n + 1..sent : m # h
      BY <1>7, <1>m
    <2>2. \A m \in n + 1..sent : \E i \in 1..k - 1 : inbox'[i] = m
      BY <1>5, <2>1
    <2>3. OnTheWire(n)'
      BY <1>2, <1>4, <1>w, <2>2 DEF OnTheWire, isMessage
    <2> QED
      BY <1>7, <2>3 DEF h
  <1> QED
    BY <1>6, <1>7

----------------------------------------------------------------------------
(* The invariant.                                                          *)

\* Nothing is under way at the start.
LEMMA InitInv == Init => IInv
  <1> SUFFICES ASSUME Init PROVE IInv
    OBVIOUS
  <1>1. \A S : <<>> \in Seq(S) /\ Len(<<>>) = 0
    BY EmptySeq
  <1>2. Types /\ Locals /\ Windowed
    BY <1>1, BoundsAssumption DEF Init, Types, Locals, Windowed
  <1>3. Ordered
    BY <1>1 DEF Init, Ordered
  <1>4. Flow(0)
    BY <1>1 DEF Init, Flow, OnTheWire, AfterData, AfterReads, AfterItem, AfterWrites, one
  <1> QED
    BY <1>2, <1>3, <1>4 DEF IInv

\* Steps of the client: it puts a frame at the end of the wire.
LEMMA NextClient ==
    ASSUME IInv, ClientSends \/ ClientSendsOther
    PROVE  IInv'
  <1>1. PICK n \in Nat : Flow(n)
    BY DEF IInv
  <1>2. Types /\ AfterData(n) \in Nat
    BY DEF IInv, Types, AfterData, AfterReads, AfterItem, AfterWrites, one
  <1>3. UNCHANGED <<window, up, readerVars, handlerVars, echoed, reads, writes>>
    BY DEF ClientSends, ClientSendsOther
  <1>4. Types' /\ Windowed' /\ OnTheWire(AfterData(n))'
    <2>1. CASE ClientSends
      <3>1. inbox' = Append(inbox, sent + 1) /\ sent' = sent + 1 /\ sent - Len(echoed) < window
        BY <2>1 DEF ClientSends
      <3>2. inbox' \in Seq(Nat \cup {Control, TooBig})
        BY <1>2, <3>1, AppendProperties DEF Types
      <3>3. Len(echoed) \in Nat
        BY <1>2 DEF Types
      <3>4. Windowed'
        BY <1>2, <1>3, <3>1, <3>3 DEF Windowed, Types
      <3>5. OnTheWire(AfterData(n))'
        BY <1>1, <1>2, <1>3, <3>1, WireGrows
           DEF Flow, AfterData, AfterReads, AfterItem, AfterWrites, readerVars, handlerVars
      <3> QED
        BY <1>2, <1>3, <3>1, <3>2, <3>4, <3>5 DEF Types, readerVars, handlerVars
    <2>2. CASE ClientSendsOther
      <3>1. PICK f \in {Control, TooBig} : inbox' = Append(inbox, f)
        BY <2>2 DEF ClientSendsOther
      <3>2. sent' = sent
        BY <2>2 DEF ClientSendsOther
      <3>3. inbox' \in Seq(Nat \cup {Control, TooBig})
        BY <1>2, <3>1, AppendProperties DEF Types
      <3>4. OnTheWire(AfterData(n))'
        BY <1>1, <1>2, <1>3, <3>1, <3>2, WireOther
           DEF Flow, AfterData, AfterReads, AfterItem, AfterWrites, readerVars, handlerVars
      <3> QED
        BY <1>2, <1>3, <3>2, <3>3, <3>4 DEF IInv, Types, Windowed, readerVars, handlerVars
    <2> QED
      BY <2>1, <2>2
  <1>5. Flow(n)'
    BY <1>1, <1>3, <1>4 DEF Flow, AfterData, AfterReads, AfterItem, AfterWrites, readerVars, handlerVars
  <1> QED
    BY <1>3, <1>4, <1>5 DEF IInv, Locals, Ordered, readerVars, handlerVars

\* The reader takes a frame off the wire.
LEMMA NextReadFrame ==
    ASSUME IInv, ReadFrame
    PROVE  IInv'
  <1>1. PICK n \in Nat : Flow(n)
    BY DEF IInv
  <1>2. Types /\ AfterData(n) \in Nat /\ AfterReads(n) \in Nat
    BY DEF IInv, Types, AfterData, AfterReads, AfterItem, AfterWrites, one
  <1>3. /\ inbox # <<>> /\ inbox' = Tail(inbox) /\ Head(inbox) # TooBig /\ reader = "read"
        /\ sent' = sent
        /\ UNCHANGED <<window, sent, up, handlerVars, echoed, reads, writes>>
    BY DEF ReadFrame
  <1>4. data = 0 /\ AfterData(n) = AfterReads(n)
    BY <1>2, <1>3 DEF IInv, Locals, AfterData, one
  <1>5. AfterReads(n)' = AfterReads(n) /\ AfterItem(n)' = AfterItem(n) /\ AfterWrites(n)' = AfterWrites(n)
    BY <1>3 DEF AfterReads, AfterItem, AfterWrites, handlerVars
  <1>6. inbox' \in Seq(Nat \cup {Control, TooBig}) /\ Head(inbox) \in Nat \cup {Control, TooBig}
    BY <1>2, <1>3, HeadTailProperties DEF Types
  <1>7. CASE Head(inbox) = Control
    <2>1. UNCHANGED readerVars
      BY <1>7 DEF ReadFrame
    <2>2. OnTheWire(AfterData(n))'
      <3>1. ~isMessage(Head(inbox)) /\ OnTheWire(AfterData(n))
        BY <1>1, <1>7 DEF isMessage, Flow
      <3>2. AfterData(n)' = AfterData(n)
        BY <1>5, <2>1 DEF AfterData, readerVars
      <3> DEFINE m == AfterData(n)
      <3>3. m \in Nat /\ OnTheWire(m) /\ m' = m
        BY <1>2, <3>1, <3>2
      <3> HIDE DEF m
      <3>4. OnTheWire(m)'
        BY <1>2, <1>3, <3>1, <3>3, WireShrinks
      <3> QED
        BY <3>2, <3>4 DEF m
    <2>3. Flow(n)'
      BY <1>1, <1>3, <1>5, <2>1, <2>2 DEF Flow, handlerVars, readerVars
    <2> QED
      BY <1>2, <1>3, <1>6, <2>1, <2>3 DEF IInv, Types, Locals, Windowed, Ordered, handlerVars, readerVars
  <1>8. CASE Head(inbox) # Control
    <2>1. data' = Head(inbox) /\ reader' = "send"
      BY <1>8 DEF ReadFrame
    <2>2. isMessage(Head(inbox)) /\ OnTheWire(AfterReads(n))
      BY <1>1, <1>3, <1>4, <1>8 DEF isMessage, Flow
    <2>3. Head(inbox) = AfterReads(n) + 1 /\ OnTheWire(AfterData(n))'
      <3> DEFINE m == AfterReads(n)
      <3>1. m \in Nat /\ OnTheWire(m) /\ m' = m
        BY <1>2, <1>5, <2>2
      <3> HIDE DEF m
      <3>2. Head(inbox) = m + 1 /\ OnTheWire(m + 1)'
        BY <1>2, <1>3, <2>2, <3>1, WireShrinks
      <3>3. AfterData(n)' = m + 1
        BY <2>1, <3>1, <3>2 DEF AfterData, one, m
      <3> QED
        BY <3>1, <3>2, <3>3 DEF m
    <2>4. data' # 0 /\ data' \in Nat /\ AfterData(n)' = AfterReads(n) + 1
      BY <1>2, <1>5, <2>1, <2>3 DEF AfterData, one
    <2>5. Flow(n)'
      BY <1>1, <1>3, <1>5, <2>1, <2>3, <2>4 DEF Flow, handlerVars
    <2> QED
      BY <1>2, <1>3, <1>6, <2>1, <2>4, <2>5 DEF IInv, Types, Locals, Windowed, Ordered, handlerVars
  <1> QED
    BY <1>7, <1>8

\* What is under way does not change when its places do not.
LEMMA FlowKept ==
    ASSUME NEW n \in Nat, Flow(n), up' => up, handler' # "done" => handler # "done",
           UNCHANGED <<item, data, sent, inbox, echoed, reads, writes>>
    PROVE  Flow(n)'
  BY DEF Flow, OnTheWire, AfterData, AfterReads, AfterItem, AfterWrites, one

\* Steps that touch no message: the link fails, a tick, the reader fails or
\* quits, the handler pings or quits, nothing happens.
LEMMA NextIdle ==
    ASSUME IInv,
           LinkFails \/ TickerFires \/ ReadFails \/ ReaderQuits \/ SelectTick \/ SelectQuit \/ UNCHANGED vars
    PROVE  IInv'
  <1>1. PICK n \in Nat : Flow(n)
    BY DEF IInv
  <1>2. Types /\ Locals
    BY DEF IInv
  <1>3. UNCHANGED <<window, item, data, sent, inbox, echoed, reads, writes>>
    BY DEF LinkFails, TickerFires, ReadFails, ReaderQuits, SelectTick, SelectQuit, Return,
           vars, envVars, readerVars, handlerVars
  <1>4. /\ up' => up
        /\ handler' # "done" => handler # "done"
        /\ reader' \in {"read", "send", "quit", "done"} /\ handler' \in {"select", "forward", "done"}
        /\ (reader' = "send" <=> reader = "send")
        /\ (handler' = "forward" <=> handler = "forward")
    <2>1. CASE LinkFails \/ TickerFires \/ UNCHANGED vars
      BY <1>2, <2>1 DEF Types, LinkFails, TickerFires, vars, envVars, readerVars, handlerVars
    <2>2. CASE ReadFails \/ ReaderQuits
      <3>1. UNCHANGED <<up, handler>>
        BY <2>2 DEF ReadFails, ReaderQuits, envVars, handlerVars
      <3>2. reader \in {"read", "quit"} /\ reader' \in {"quit", "done"}
        BY <2>2 DEF ReadFails, ReaderQuits
      <3> QED
        BY <1>2, <3>1, <3>2 DEF Types
    <2>3. CASE SelectTick \/ SelectQuit
      BY <1>2, <2>3 DEF Types, SelectTick, SelectQuit, Return, envVars, readerVars, handlerVars
    <2> QED
      BY <2>1, <2>2, <2>3
  <1>5. Flow(n)'
    BY <1>1, <1>3, <1>4, FlowKept
  <1> QED
    BY <1>2, <1>3, <1>4, <1>5 DEF IInv, Types, Locals, Windowed, Ordered

\* Lengths of the channels, and where a message is in them.
LEMMA Channels ==
    ASSUME Types
    PROVE  /\ reads = <<>> => Len(reads) = 0
           /\ reads # <<>> => Len(reads) = 1 /\ Head(reads) = reads[1] /\ Head(reads) \in Nat
           /\ writes = <<>> => Len(writes) = 0
           /\ writes # <<>> => Len(writes) = 1 /\ Head(writes) = writes[1] /\ Head(writes) \in Nat
  BY EmptySeq, HeadTailProperties DEF Types

\* The reader hands its message to the handler.
LEMMA NextReaderSends ==
    ASSUME IInv, ReaderSends
    PROVE  IInv'
  <1>1. PICK n \in Nat : Flow(n)
    BY DEF IInv
  <1>2. Types /\ data # 0 /\ Len(reads) = 0
    BY EmptySeq DEF IInv, Locals, ReaderSends
  <1>3. /\ reads' = <<data>> /\ data' = 0 /\ reader' = "read"
        /\ UNCHANGED <<envVars, handlerVars, echoed, writes>>
    BY DEF ReaderSends
  <1>4. reads' \in Seq(Nat) /\ Len(reads') = 1 /\ reads'[1] = data
    BY <1>2, <1>3 DEF Types
  <1>5. AfterItem(n) \in Nat
    BY <1>2 DEF Types, AfterItem, AfterWrites, one
  <1>6. AfterItem(n)' = AfterItem(n) /\ AfterWrites(n)' = AfterWrites(n)
    BY <1>3 DEF AfterItem, AfterWrites, handlerVars
  <1>7. AfterData(n)' = AfterData(n) /\ data = AfterItem(n) + 1
    <2> DEFINE m == AfterItem(n)
    <2>1. m \in Nat /\ m' = m
      BY <1>5, <1>6
    <2>2. AfterReads(n) = m + 0 /\ AfterReads(n)' = m' + 1
      BY <1>2, <1>4 DEF AfterReads
    <2>3. AfterData(n) = AfterReads(n) + 1 /\ AfterData(n)' = AfterReads(n)' + 0
      BY <1>2, <1>3 DEF AfterData, one
    <2>4. data = AfterReads(n) + 1
      BY <1>1, <1>2 DEF Flow
    <2> HIDE DEF m
    <2>5. AfterData(n)' = AfterData(n) /\ data = m + 1
      BY <2>1, <2>2, <2>3, <2>4
    <2> QED
      BY <2>5 DEF m
  <1>8. OnTheWire(AfterData(n))'
    BY <1>1, <1>3, <1>7 DEF Flow, OnTheWire, envVars
  <1>9. Flow(n)'
    BY <1>1, <1>3, <1>4, <1>6, <1>7, <1>8 DEF Flow, envVars, handlerVars
  <1> QED
    BY <1>2, <1>3, <1>4, <1>9 DEF IInv, Types, Locals, Windowed, Ordered, envVars, handlerVars

\* The handler takes a message from the reader.
LEMMA NextSelectRead ==
    ASSUME IInv, SelectRead
    PROVE  IInv'
  <1>1. PICK n \in Nat : Flow(n)
    BY DEF IInv
  <1>2. Types /\ item = 0 /\ Len(reads) = 1 /\ Head(reads) = reads[1] /\ Head(reads) \in Nat /\ reads # <<>>
    BY Channels DEF IInv, Locals, SelectRead
  <1>3. /\ reads' = <<>> /\ item' = reads[1] /\ handler' = "forward" /\ handler = "select"
        /\ UNCHANGED <<envVars, readerVars, echoed, writes>>
    BY <1>2 DEF SelectRead
  <1>4. reads' \in Seq(Nat) /\ Len(reads') = 0
    BY <1>3, EmptySeq
  <1>5. AfterWrites(n) \in Nat /\ AfterWrites(n)' = AfterWrites(n)
    BY <1>2, <1>3 DEF Types, AfterWrites
  <1>6. AfterReads(n)' = AfterReads(n) /\ item' = AfterWrites(n) + 1
    <2> DEFINE m == AfterWrites(n)
    <2>1. m \in Nat /\ m' = m
      BY <1>5
    <2>2. AfterItem(n) = m + 0 /\ AfterReads(n) = AfterItem(n) + 1 /\ reads[1] = AfterItem(n) + 1
      BY <1>1, <1>2 DEF AfterItem, AfterReads, one, Flow
    <2>3. item' # 0
      <3> HIDE DEF m
      <3> QED
        BY <1>3, <2>1, <2>2
    <2>4. AfterItem(n)' = m' + 1 /\ AfterReads(n)' = AfterItem(n)' + 0
      BY <1>4, <2>3 DEF AfterItem, AfterReads, one
    <2> HIDE DEF m
    <2>5. AfterReads(n)' = AfterReads(n) /\ item' = m + 1
      BY <1>3, <2>1, <2>2, <2>4
    <2> QED
      BY <2>5 DEF m
  <1>7. AfterData(n)' = AfterData(n) /\ item' # 0 /\ item' \in Nat
    <2> DEFINE m == AfterWrites(n)
    <2>1. m \in Nat /\ item' = m + 1
      BY <1>5, <1>6
    <2> HIDE DEF m
    <2>2. item' # 0 /\ item' \in Nat
      BY <2>1
    <2> QED
      BY <1>3, <1>6, <2>2 DEF AfterData, readerVars
  <1>8. OnTheWire(AfterData(n))'
    BY <1>1, <1>3, <1>7 DEF Flow, OnTheWire, envVars
  <1>9. Flow(n)'
    BY <1>1, <1>3, <1>5, <1>6, <1>7, <1>8 DEF Flow, envVars, readerVars
  <1> QED
    BY <1>2, <1>3, <1>4, <1>7, <1>9 DEF IInv, Types, Locals, Windowed, Ordered, envVars, readerVars
\* The handler hands its message to itself.
LEMMA NextForward ==
    ASSUME IInv, Forward
    PROVE  IInv'
  <1>1. PICK n \in Nat : Flow(n)
    BY DEF IInv
  <1>2. Types /\ item # 0 /\ Len(writes) = 0
    BY EmptySeq DEF IInv, Locals, Forward
  <1>3. /\ writes' = <<item>> /\ item' = 0 /\ handler' = "select" /\ handler # "done"
        /\ UNCHANGED <<envVars, readerVars, echoed, reads>>
    BY DEF Forward
  <1>4. writes' \in Seq(Nat) /\ Len(writes') = 1 /\ writes'[1] = item
    BY <1>2, <1>3 DEF Types
  <1>5. AfterItem(n)' = AfterItem(n) /\ item = n + 1
    <2>1. AfterWrites(n) = n + 0 /\ AfterWrites(n)' = n + 1 /\ item = AfterWrites(n) + 1
      BY <1>1, <1>2, <1>4 DEF AfterWrites, Flow
    <2>2. AfterItem(n) = AfterWrites(n) + 1 /\ AfterItem(n)' = AfterWrites(n)' + 0
      BY <1>2, <1>3 DEF AfterItem, one
    <2> QED
      BY <2>1, <2>2
  <1>6. AfterReads(n)' = AfterReads(n) /\ AfterData(n)' = AfterData(n)
    BY <1>3, <1>5 DEF AfterReads, AfterData, readerVars
  <1>7. OnTheWire(AfterData(n))'
    BY <1>1, <1>3, <1>6 DEF Flow, OnTheWire, envVars
  <1>8. Flow(n)'
    BY <1>1, <1>3, <1>4, <1>5, <1>6, <1>7 DEF Flow, envVars, readerVars
  <1> QED
    BY <1>2, <1>3, <1>4, <1>8 DEF IInv, Types, Locals, Windowed, Ordered, envVars, readerVars

\* The handler writes a message to the connection: the client receives it, or
\* it is lost and nothing will be received any more.
LEMMA NextSelectWrite ==
    ASSUME IInv, SelectWrite
    PROVE  IInv'
  <1>1. PICK n \in Nat : Flow(n)
    BY DEF IInv
  <1>2. Types /\ item = 0 /\ Len(writes) = 1 /\ Head(writes) = writes[1] /\ writes # <<>> /\ handler = "select"
    BY Channels DEF IInv, Locals, SelectWrite
  <1>3. writes' = <<>> /\ item' = item /\ UNCHANGED <<envVars, readerVars, reads>>
    BY DEF SelectWrite, Return, handlerVars
  <1>4. writes' \in Seq(Nat) /\ Len(writes') = 0
    BY <1>3, EmptySeq
  <1>5. writes[1] = n + 1 /\ Len(echoed) \in Nat /\ Len(echoed) <= n
    BY <1>1, <1>2 DEF Flow, Types
  <1>6. AfterWrites(n + 1)' = AfterWrites(n)
    BY <1>2, <1>4 DEF AfterWrites
  <1>7. /\ AfterItem(n + 1)' = AfterItem(n)
        /\ AfterReads(n + 1)' = AfterReads(n)
        /\ AfterData(n + 1)' = AfterData(n)
    BY <1>3, <1>6 DEF AfterItem, AfterReads, AfterData, readerVars
  <1>8. OnTheWire(AfterData(n + 1))'
    BY <1>1, <1>3, <1>7 DEF Flow, OnTheWire, envVars
  <1>9. CASE up /\ handler' # "done"
    <2>1. echoed' = Append(echoed, n + 1) /\ UNCHANGED handlerVars
      BY <1>2, <1>5, <1>9 DEF SelectWrite, Return
    <2>2. n = Len(echoed)
      BY <1>1, <1>2, <1>9 DEF Flow
    <2>3. echoed' = echoed \o <<Len(echoed) + 1>> /\ <<Len(echoed) + 1>> \in Seq(Nat) /\ Len(<<Len(echoed) + 1>>) = 1
      BY <1>2, <1>5, <2>1, <2>2, AppendIsConcat DEF Types
    <2>4. echoed' \in Seq(Nat) /\ Counts(echoed') /\ Len(echoed') = n + 1
      BY <1>2, <2>2, <2>3, CountsOn DEF IInv, Types, Ordered, Counts
    <2>5. Flow(n + 1)'
      BY <1>1, <1>2, <1>3, <1>4, <1>6, <1>7, <1>8, <2>4 DEF Flow, envVars, readerVars
    <2>6. Windowed'
      BY <1>2, <1>3, <1>5, <2>2, <2>4 DEF IInv, Windowed, Types, envVars
    <2> QED
      BY <1>2, <1>3, <1>4, <2>1, <2>4, <2>5, <2>6
         DEF IInv, Types, Locals, Ordered, Counts, envVars, readerVars, handlerVars
  <1>10. CASE ~(up /\ handler' # "done")
    <2>1. echoed' = echoed /\ handler' \in {"select", "done"}
      BY <1>2, <1>10 DEF SelectWrite, Return, handlerVars
    <2>2. Len(echoed) <= n + 1
      BY <1>5
    <2>3. Flow(n + 1)'
      BY <1>1, <1>2, <1>3, <1>4, <1>6, <1>7, <1>8, <1>10, <2>1, <2>2 DEF Flow, envVars, readerVars
    <2> QED
      BY <1>2, <1>3, <1>4, <2>1, <2>3 DEF IInv, Types, Locals, Windowed, Ordered, envVars, readerVars
  <1> QED
    BY <1>9, <1>10

\* The invariant is inductive.
LEMMA NextInv == IInv /\ [Next]_vars => IInv'
  BY NextClient, NextReadFrame, NextIdle, NextReaderSends, NextSelectRead, NextForward, NextSelectWrite
     DEF Next, Reader

\* So it holds in every state.
LEMMA Invariance == Spec => []IInv
  BY InitInv, NextInv, PTL DEF Spec

----------------------------------------------------------------------------
(* What it means.                                                          *)

\* A client that waits for each answer never has two messages on the server:
\* its handler finds room in writes.  With a larger window the handler blocks
\* on the channel that only it empties.
THEOREM LockstepNeverBlocks == Spec => []NeverSelfBlocked
  <1>1. ASSUME IInv PROVE NeverSelfBlocked
    <2> SUFFICES ASSUME window = 1, handler = "forward", writes # <<>> PROVE FALSE
      BY DEF NeverSelfBlocked
    <2>1. PICK n \in Nat : Flow(n)
      BY <1>1 DEF IInv
    <2>2. Types /\ item # 0 /\ Len(writes) = 1 /\ sent <= Len(echoed) + 1
      BY <1>1, Channels DEF IInv, Locals, Windowed
    <2>3. AfterItem(n) = n + 2
      <3>1. AfterWrites(n) = n + 1
        BY <2>2 DEF AfterWrites
      <3> QED
        BY <2>2, <3>1 DEF AfterItem, one
    <2>4. AfterData(n) >= n + 2
      <3>1. Len(reads) \in Nat /\ one(data) \in Nat
        BY <2>2 DEF Types, one
      <3>2. AfterData(n) = n + 2 + Len(reads) + one(data)
        BY <2>3 DEF AfterData, AfterReads
      <3> QED
        BY <3>1, <3>2
    <2>5. Len(echoed) <= n /\ AfterData(n) <= sent /\ Len(echoed) \in Nat /\ sent \in Nat
      BY <2>1, <2>2 DEF Flow, OnTheWire, Types
    <2> DEFINE m == AfterData(n)
               e == Len(echoed)
    <2>6. m >= n + 2 /\ e <= n /\ m <= sent /\ sent <= e + 1 /\ e \in Nat /\ m = n + 2 + Len(reads) + one(data)
      BY <2>2, <2>3, <2>4, <2>5 DEF AfterData, AfterReads
    <2>7. m \in Nat
      BY <2>2, <2>3 DEF Types, AfterData, AfterReads, one
    <2> HIDE DEF m, e
    <2> QED
      BY <2>5, <2>6, <2>7
  <1> QED
    BY <1>1, Invariance, PTL

\* While the connection lasts, what the client has received, what the server
\* holds and what is on the wire are its messages in order, each once.
THEOREM EchoesAreInOrder == Spec => []InFlight
  <1>1. ASSUME IInv PROVE InFlight
    <2> SUFFICES ASSUME up, handler # "done"
                 PROVE  LET taken == echoed \o writes \o opt(item) \o reads \o opt(data)
                        IN  taken = [i \in 1..Len(taken) |-> i] /\ OnTheWire(Len(taken))
      BY DEF InFlight
    <2>1. PICK n \in Nat : Flow(n)
      BY <1>1 DEF IInv
    <2>2. Types /\ echoed \in Seq(Nat) /\ Counts(echoed) /\ Len(echoed) = n
      BY <1>1, <2>1 DEF IInv, Types, Ordered, Counts, Flow
    <2> DEFINE a == echoed \o writes
               b == a \o opt(item)
               c == b \o reads
               d == c \o opt(data)
    <2>3. a \in Seq(Nat) /\ Counts(a) /\ Len(a) = AfterWrites(n)
      <3>1. writes = <<>> \/ writes = <<n + 1>>
        BY <2>1, <2>2 DEF Flow, Types
      <3> QED
        BY <2>2, <3>1, CountsOn DEF Types, AfterWrites
    <2>4. ASSUME NEW v \in Nat, NEW m, v # 0 => v = m + 1
          PROVE  opt(v) \in Seq(Nat) /\ Len(opt(v)) = one(v) /\ (opt(v) = <<>> \/ opt(v) = <<m + 1>>)
      <3>1. <<>> \in Seq(Nat) /\ Len(<<>>) = 0 /\ <<v>> \in Seq(Nat) /\ Len(<<v>>) = 1
        BY EmptySeq
      <3> QED
        BY <2>4, <3>1 DEF opt, one
    <2>5. b \in Seq(Nat) /\ Counts(b) /\ Len(b) = AfterItem(n)
      <3>1. opt(item) \in Seq(Nat) /\ Len(opt(item)) = one(item) /\ (opt(item) = <<>> \/ opt(item) = <<Len(a) + 1>>)
        BY <2>1, <2>2, <2>3, <2>4 DEF Flow, Types
      <3> HIDE DEF a
      <3> QED
        BY <2>3, <3>1, CountsOn DEF AfterItem
    <2>6. c \in Seq(Nat) /\ Counts(c) /\ Len(c) = AfterReads(n)
      <3>1. reads = <<>> \/ reads = <<Len(b) + 1>>
        BY <2>1, <2>2, <2>5 DEF Flow, Types
      <3>2. reads \in Seq(Nat)
        BY <2>2 DEF Types
      <3> HIDE DEF b
      <3> QED
        BY <2>5, <3>1, <3>2, CountsOn DEF AfterReads
    <2>7. d \in Seq(Nat) /\ Counts(d) /\ Len(d) = AfterData(n)
      <3>1. opt(data) \in Seq(Nat) /\ Len(opt(data)) = one(data) /\ (opt(data) = <<>> \/ opt(data) = <<Len(c) + 1>>)
        BY <2>1, <2>2, <2>4, <2>6 DEF Flow, Types
      <3> HIDE DEF c
      <3> QED
        BY <2>6, <3>1, CountsOn DEF AfterData
    <2>8. OnTheWire(Len(d))
      <3> HIDE DEF d
      <3> QED
        BY <2>1, <2>7 DEF Flow
    <2> QED
      BY <2>7, <2>8 DEF Counts
  <1> QED
    BY <1>1, Invariance, PTL
=============================================================================
