----------------------------- MODULE RpcProofs -----------------------------
(***************************************************************************)
(* Proofs about Rpc for any number of goroutines, Contexts, users and      *)
(* requests and any registry of services.                                  *)
(***************************************************************************)
EXTENDS Rpc, FiniteSetTheorems, TLAPS

\* Only the goroutine inside a critical section has the mutex, and what it
\* read there is still true.
MutexInv ==
    /\ \A h \in Handlers : pc[h] \in {"unlink", "push"} <=> mutex = h
    /\ \A h \in Handlers : pc[h] = "unlink" => ctx[h] = free
    /\ \A h \in Handlers : pc[h] = "push" => next[ctx[h]] = free

\* What a Context and the locals of its holder contain from one step of a
\* request to the next.
ContentInv ==
    \A h \in Handlers :
        /\ pc[h] = "decode" => header[ctx[h]] = "missing"
        /\ pc[h] \in {"decode", "invoke", "encode"} => buffer[ctx[h]].len = 0
        /\ pc[h] \in {"get", "unlink", "reset", "decode", "invoke", "encode"}
              => status[h] = "none" /\ ~alias[h]
        /\ pc[h] = "idle" => ~alias[h]

\* Whoever may use ctx, or a slice of its buffer, has a Context there.
HolderInv ==
    \A h \in Handlers : Holding(h) \/ (pc[h] = "answer" /\ alias[h]) => ctx[h] \in Contexts

\* The inductive invariant.
IInv ==
    /\ TypeOK
    /\ MutexInv
    /\ ExclusiveContext
    /\ PoolExact
    /\ ContentInv
    /\ OwnIdentity
    /\ ReplyKeptWhileHeld
    /\ HolderInv

\* The initial state is well typed.
LEMMA InitTypeOK == Init => TypeOK
  <1> SUFFICES ASSUME Init PROVE TypeOK
      OBVIOUS
  <1>1. (CHOOSE r \in Requests : TRUE) \in Requests
      BY RequestsAssumption
  <1>2. NoAnswer \in Answers /\ <<>> \in Seq(Requests)
      BY DEF NoAnswer, Answers, Statuses
  <1>3. /\ pc \in [Handlers -> PCs] /\ req \in [Handlers -> Requests]
        /\ ctx \in [Handlers -> Contexts \cup {Nil}] /\ status \in [Handlers -> Statuses]
        /\ returned \in [Handlers -> Outcomes] /\ alias \in [Handlers -> BOOLEAN]
        /\ resp \in [Handlers -> Seq(Requests)] /\ answer \in [Handlers -> Answers]
      BY <1>1, <1>2 DEF Init, PCs, Statuses, Outcomes
  <1>4. /\ mutex \in Handlers \cup {Nil} /\ free \in Contexts \cup {Nil}
        /\ next \in [Contexts -> Contexts \cup {Nil}] /\ made \subseteq Contexts
        /\ username \in [Contexts -> Users \cup {Nobody}]
        /\ header \in [Contexts -> Users \cup {"missing", "mistyped", "expired"}]
      BY DEF Init
  <1>5. buffer \in [Contexts -> [data : Seq(Requests), len : Nat]]
      BY <1>2 DEF Init
  <1> QED BY <1>3, <1>4, <1>5 DEF TypeOK

\* Answering before a Context is taken yields a status.
LEMMA EarlyExitType == \A r : EarlyExit(r) \in Statuses
  BY DEF EarlyExit, Statuses

\* Establishing the user yields a name and whether to go on.
LEMMA SessionType ==
  ASSUME NEW r \in Request, NEW auth \in Users \cup {"missing", "mistyped", "expired"},
         NEW old \in Users \cup {Nobody}, NEW s \in Session(r, auth, old)
  PROVE  s[1] \in Users \cup {Nobody} /\ s[2] \in BOOLEAN
  <1>1. \/ s = <<old, FALSE>> \/ s = <<Nobody, TRUE>> \/ s \in Info(auth)
      BY DEF Session
  <1>2. CASE s \in Info(auth)
    <2>1. \/ auth \in Users /\ s = <<auth, TRUE>>
          \/ \E u \in Users \cup {Nobody} : s = <<u, FALSE>>
        BY <1>2 DEF Info
    <2>2. CASE auth \in Users /\ s = <<auth, TRUE>>
        BY <2>2
    <2>3. CASE \E u \in Users \cup {Nobody} : s = <<u, FALSE>>
        BY <2>3
    <2> QED BY <2>1, <2>2, <2>3
  <1>3. CASE s = <<old, FALSE>>
      BY <1>3
  <1>4. CASE s = <<Nobody, TRUE>>
      BY <1>4
  <1> QED BY <1>1, <1>2, <1>3, <1>4

\* Every action keeps the types.
LEMMA TypeStep ==
  ASSUME TypeOK, ContentInv, HolderInv, [Next]_vars
  PROVE  TypeOK'
  <1> USE DEF TypeOK, HolderInv
  <1>1. CASE UNCHANGED vars
      BY <1>1 DEF vars, handlerVars, poolVars, contextVars
  <1>2. ASSUME NEW h \in Handlers, Arrive(h) PROVE TypeOK'
    <2>1. NoAnswer \in Answers
        BY DEF NoAnswer, Answers, Statuses
    <2>2. PICK r \in Requests :
              /\ req' = [req EXCEPT ![h] = r]
              /\ status' = [status EXCEPT ![h] = EarlyExit(r)]
              /\ pc' = [pc EXCEPT ![h] = IF EarlyExit(r) = "none" THEN "get" ELSE "answer"]
        BY <1>2 DEF Arrive
    <2>3. EarlyExit(r) \in Statuses
        BY EarlyExitType
    <2> QED BY <1>2, <2>1, <2>2, <2>3 DEF Arrive, poolVars, contextVars, PCs
  <1>3. ASSUME NEW h \in Handlers, LockForGet(h) PROVE TypeOK'
      BY <1>3 DEF LockForGet, contextVars, PCs
  <1>4. ASSUME NEW h \in Handlers, NewContext(h) PROVE TypeOK'
    <2>1. PICK c \in Contexts \ made :
              /\ ctx' = [ctx EXCEPT ![h] = c]
              /\ made' = made \cup {c}
              /\ username' = [username EXCEPT ![c] = Nobody]
              /\ header' = [header EXCEPT ![c] = "missing"]
              /\ buffer' = [buffer EXCEPT ![c] = [data |-> <<>>, len |-> 0]]
        BY <1>4 DEF NewContext
    <2>2. [data |-> <<>>, len |-> 0] \in [data : Seq(Requests), len : Nat]
        OBVIOUS
    <2> QED BY <1>4, <2>1, <2>2 DEF NewContext, PCs
  <1>5. ASSUME NEW h \in Handlers, Unlink(h) PROVE TypeOK'
      BY <1>5 DEF Unlink, contextVars, PCs
  <1>6. ASSUME NEW h \in Handlers, ResetContext(h) PROVE TypeOK'
    <2>1. ctx[h] \in Contexts
        BY <1>6 DEF ResetContext, Holding
    <2> QED BY <1>6, <2>1 DEF ResetContext, poolVars, PCs
  <1>7. ASSUME NEW h \in Handlers, Decode(h) PROVE TypeOK'
    <2>1. ctx[h] \in Contexts
        BY <1>7 DEF Decode, Holding
    <2>2. req[h] \in Request
        BY RequestsAssumption
    <2>3. PICK auth \in DecodedAuth(req[h], header[ctx[h]]) :
            \E s \in Session(req[h], auth, username[ctx[h]]) :
              /\ header' = [header EXCEPT ![ctx[h]] = auth]
              /\ username' = [username EXCEPT ![ctx[h]] = s[1]]
              /\ status' = [status EXCEPT ![h] = IF s[2] /\ req[h].args # "bad" THEN "none" ELSE "error"]
              /\ pc' = [pc EXCEPT ![h] = IF s[2] /\ req[h].args # "bad" THEN "invoke" ELSE "free"]
        BY <1>7 DEF Decode
    <2>4. auth \in Users \cup {"missing", "mistyped", "expired"}
        BY <2>1, <2>2, <2>3 DEF DecodedAuth, Request
    <2>5. PICK s \in Session(req[h], auth, username[ctx[h]]) :
              /\ header' = [header EXCEPT ![ctx[h]] = auth]
              /\ username' = [username EXCEPT ![ctx[h]] = s[1]]
              /\ status' = [status EXCEPT ![h] = IF s[2] /\ req[h].args # "bad" THEN "none" ELSE "error"]
              /\ pc' = [pc EXCEPT ![h] = IF s[2] /\ req[h].args # "bad" THEN "invoke" ELSE "free"]
        BY <2>3
    <2>6. s[1] \in Users \cup {Nobody}
        BY <2>1, <2>2, <2>4, SessionType
    <2> QED BY <1>7, <2>1, <2>4, <2>5, <2>6 DEF Decode, poolVars, PCs, Statuses
  <1>8. ASSUME NEW h \in Handlers, PadArguments(h) PROVE TypeOK'
      BY <1>8 DEF PadArguments, poolVars, contextVars, PCs
  <1>9. ASSUME NEW h \in Handlers, Invoke(h) PROVE TypeOK'
    <2>1. PICK out \in MethodOutcomes(ServiceOf(req[h])) :
            /\ returned' = [returned EXCEPT ![h] = out]
            /\ \/ /\ pc' = [pc EXCEPT ![h] = "encode"]
                  /\ UNCHANGED <<status, resp>>
               \/ /\ pc' = [pc EXCEPT ![h] = "free"]
                  /\ status' = [status EXCEPT ![h] = IF out = "odd" THEN "error" ELSE "ok"]
                  /\ resp' = [resp EXCEPT ![h] = IF out = "odd" THEN <<>> ELSE <<req[h]>>]
               \/ /\ pc' = [pc EXCEPT ![h] = "free"]
                  /\ AfterMethod(ServiceOf(req[h]), out) # "none"
                  /\ status' = [status EXCEPT ![h] = AfterMethod(ServiceOf(req[h]), out)]
                  /\ UNCHANGED resp
        BY <1>9 DEF Invoke
    <2>2. out \in Outcomes
        BY DEF MethodOutcomes, Outcomes
    <2>3. AfterMethod(ServiceOf(req[h]), out) \in Statuses
        BY DEF AfterMethod, Statuses
    <2>4. <<req[h]>> \in Seq(Requests) /\ <<>> \in Seq(Requests)
        OBVIOUS
    <2>5. pc' \in [Handlers -> PCs] /\ returned' \in [Handlers -> Outcomes]
        BY <2>1, <2>2 DEF PCs
    <2>6. status' \in [Handlers -> Statuses]
        BY <2>1, <2>3 DEF Statuses
    <2>7. resp' \in [Handlers -> Seq(Requests)]
        BY <2>1, <2>4
    <2> QED BY <1>9, <2>5, <2>6, <2>7 DEF Invoke, poolVars, contextVars
  <1>10. ASSUME NEW h \in Handlers, Encode(h) PROVE TypeOK'
    <2>1. ctx[h] \in Contexts
        BY <1>10 DEF Encode, Holding
    <2> DEFINE data == Append(SubSeq(buffer[ctx[h]].data, 1, buffer[ctx[h]].len), req[h])
    <2>2. data \in Seq(Requests) /\ Len(data) \in Nat
      <3>1. buffer[ctx[h]].len = 0 /\ buffer[ctx[h]].data \in Seq(Requests)
          BY <1>10, <2>1 DEF Encode, ContentInv
      <3>2. SubSeq(buffer[ctx[h]].data, 1, buffer[ctx[h]].len) = <<>>
          BY <3>1
      <3>3. req[h] \in Requests /\ data = Append(<<>>, req[h])
          BY <3>2
      <3>4. ASSUME NEW q \in Seq(Requests), NEW r \in Requests
            PROVE  Append(q, r) \in Seq(Requests) /\ Len(Append(q, r)) \in Nat
          OBVIOUS
      <3>5. <<>> \in Seq(Requests)
          OBVIOUS
      <3> HIDE DEF data
      <3> QED BY <3>3, <3>4, <3>5
    <2>3. CASE returned[h] = "odd"
        BY <1>10, <2>3 DEF Encode, poolVars, PCs, Statuses
    <2>4. CASE returned[h] # "odd"
      <3>1. /\ status' = [status EXCEPT ![h] = "ok"]
            /\ buffer' = [buffer EXCEPT ![ctx[h]] = [data |-> data, len |-> Len(data)]]
          BY <1>10, <2>4 DEF Encode
      <3>2. PICK moves \in BOOLEAN :
              /\ alias' = [g \in Handlers |-> g = h \/ (alias[g] /\ g \notin
                            {k \in Handlers : moves /\ alias[k] /\ ctx[k] = ctx[h]})]
              /\ resp' = [g \in Handlers |->
                            IF g \in {k \in Handlers : moves /\ alias[k] /\ ctx[k] = ctx[h]}
                            THEN buffer[ctx[h]].data ELSE resp[g]]
          BY <1>10, <2>4 DEF Encode
      <3> HIDE DEF data
      <3>3. buffer' \in [Contexts -> [data : Seq(Requests), len : Nat]]
          BY <2>1, <2>2, <3>1
      <3>4. alias' \in [Handlers -> BOOLEAN]
          BY <3>2
      <3>5. resp' \in [Handlers -> Seq(Requests)]
          BY <2>1, <3>2
      <3> QED BY <1>10, <3>1, <3>3, <3>4, <3>5 DEF Encode, poolVars, PCs, Statuses
    <2> QED BY <2>3, <2>4
  <1>11. ASSUME NEW h \in Handlers, LockForFree(h) PROVE TypeOK'
    <2>1. ctx[h] \in Contexts
        BY <1>11 DEF LockForFree, Holding, HolderInv
    <2> QED BY <1>11, <2>1 DEF LockForFree, contextVars, PCs
  <1>12. ASSUME NEW h \in Handlers, Push(h) PROVE TypeOK'
    <2>1. ctx[h] \in Contexts
        BY <1>12 DEF Push, Holding
    <2> QED BY <1>12, <2>1 DEF Push, contextVars, PCs
  <1>13. ASSUME NEW h \in Handlers, Answer(h) PROVE TypeOK'
    <2>1. Body(h) \in Seq(Requests)
        BY <1>13 DEF Answer, Body
    <2>2. <<>> \in Seq(Requests) /\ Cacheable(h) \in BOOLEAN
        BY DEF Cacheable
    <2>3. [status |-> status[h], cached |-> Cacheable(h),
           body |-> IF status[h] = "ok" THEN Body(h) ELSE <<>>] \in Answers
        BY <2>1, <2>2 DEF Answers
    <2> QED BY <1>13, <2>2, <2>3 DEF Answer, poolVars, contextVars, PCs, Statuses, Outcomes
  <1> QED BY <1>1, <1>2, <1>3, <1>4, <1>5, <1>6, <1>7, <1>8, <1>9, <1>10,
             <1>11, <1>12, <1>13 DEF Next, Serve

----------------------------------------------------------------------------
(* The critical sections.                                                  *)

\* The mutex is held exactly between a Lock and its Unlock.
LEMMA MutexStep ==
  ASSUME TypeOK, MutexInv, HolderInv, [Next]_vars
  PROVE  MutexInv'
  <1> USE NilAssumption DEF MutexInv
  <1> DEFINE Outside(h) == pc[h] \notin {"unlink", "push"}
  <1>0. /\ pc \in [Handlers -> PCs] /\ ctx \in [Handlers -> Contexts \cup {Nil}]
        /\ next \in [Contexts -> Contexts \cup {Nil}]
      BY DEF TypeOK
  <1>1. CASE UNCHANGED vars
      BY <1>1 DEF vars, handlerVars, poolVars
  <1>2. ASSUME NEW h \in Handlers, UNCHANGED <<mutex, free, next>>,
               \A g \in Handlers : g # h => pc'[g] = pc[g] /\ ctx'[g] = ctx[g],
               Outside(h), Outside(h)'
        PROVE  MutexInv'
      BY <1>2
  <1>3. ASSUME NEW h \in Handlers, Arrive(h) \/ ResetContext(h) \/ PadArguments(h) \/ Answer(h)
        PROVE  MutexInv'
      BY <1>0, <1>2, <1>3 DEF Arrive, ResetContext, PadArguments, Answer, poolVars
  <1>4. ASSUME NEW h \in Handlers, Decode(h) PROVE MutexInv'
    <2>1. Outside(h) /\ Outside(h)' /\ UNCHANGED <<ctx, mutex, free, next>>
        BY <1>0, <1>4 DEF Decode, poolVars
    <2>2. \A g \in Handlers : g # h => pc'[g] = pc[g]
        BY <1>0, <1>4 DEF Decode
    <2> QED BY <1>2, <2>1, <2>2
  <1>5. ASSUME NEW h \in Handlers, Invoke(h) PROVE MutexInv'
    <2>1. Outside(h) /\ UNCHANGED <<ctx, mutex, free, next>>
        BY <1>0, <1>5 DEF Invoke, poolVars
    <2>2. pc' = [pc EXCEPT ![h] = "encode"] \/ pc' = [pc EXCEPT ![h] = "free"]
        BY <1>5 DEF Invoke
    <2> QED BY <1>0, <1>2, <2>1, <2>2
  <1>6. ASSUME NEW h \in Handlers, Encode(h) PROVE MutexInv'
    <2>1. /\ Outside(h) /\ UNCHANGED <<ctx, mutex, free, next>>
          /\ pc' = [pc EXCEPT ![h] = "free"]
        BY <1>0, <1>6 DEF Encode, poolVars
    <2> QED BY <1>0, <1>2, <2>1
  <1>7. ASSUME NEW h \in Handlers, LockForGet(h) PROVE MutexInv'
      BY <1>0, <1>7 DEF LockForGet
  <1>8. ASSUME NEW h \in Handlers, NewContext(h) PROVE MutexInv'
    <2>1. /\ pc[h] = "unlink" /\ pc' = [pc EXCEPT ![h] = "decode"] /\ mutex' = Nil
          /\ \A g \in Handlers : g # h => ctx'[g] = ctx[g]
          /\ UNCHANGED <<free, next>>
        BY <1>0, <1>8 DEF NewContext
    <2> QED BY <1>0, <2>1
  <1>9. ASSUME NEW h \in Handlers, Unlink(h) PROVE MutexInv'
      BY <1>0, <1>9 DEF Unlink
  <1>10. ASSUME NEW h \in Handlers, LockForFree(h) PROVE MutexInv'
      BY <1>0, <1>10 DEF LockForFree, Holding, HolderInv
  <1>11. ASSUME NEW h \in Handlers, Push(h) PROVE MutexInv'
      BY <1>0, <1>11 DEF Push
  <1> QED BY <1>1, <1>3, <1>4, <1>5, <1>6, <1>7, <1>8, <1>9, <1>10, <1>11
          DEF Next, Serve

----------------------------------------------------------------------------
(* The free list.                                                          *)

\* The head of the list is a Context nobody holds; an empty list means that
\* every Context made is held.
LEMMA HeadIsPooled ==
  ASSUME TypeOK, PoolExact
  PROVE  /\ free # Nil => free \in made \ Held
         /\ free = Nil => made \ Held = {}
  <1>1. PICK n \in 0..Cardinality(Contexts) : \E f \in [1..n -> Contexts] :
           IsFreeList(n, f) /\ {f[i] : i \in 1..n} = made \ Held
      BY DEF PoolExact
  <1>f. PICK f \in [1..n -> Contexts] :
           IsFreeList(n, f) /\ {f[i] : i \in 1..n} = made \ Held
      BY <1>1
  <1>2. n \in Nat
      BY ContextsAssumption, FS_CardinalityType
  <1>3. CASE n = 0
      BY <1>f, <1>3 DEF IsFreeList
  <1>4. CASE n # 0
    <2>1. 1 \in 1..n /\ free = f[1] /\ f[1] \in Contexts
        BY <1>f, <1>2, <1>4 DEF IsFreeList
    <2> QED BY <1>f, <2>1, NilAssumption
  <1> QED BY <1>3, <1>4

\* A step that touches neither list nor holders keeps the pool exact.
LEMMA PoolKept ==
  ASSUME PoolExact, UNCHANGED <<free, next, made>>, Held' = Held
  PROVE  PoolExact'
  <1>1. PICK n \in 0..Cardinality(Contexts) : \E f \in [1..n -> Contexts] :
           IsFreeList(n, f) /\ {f[i] : i \in 1..n} = made \ Held
      BY DEF PoolExact
  <1>f. PICK f \in [1..n -> Contexts] :
           IsFreeList(n, f) /\ {f[i] : i \in 1..n} = made \ Held
      BY <1>1
  <1>2. IsFreeList(n, f)'
      BY <1>f DEF IsFreeList
  <1> QED BY <1>f, <1>2 DEF PoolExact

\* getContext: the list loses its head, which becomes held.
LEMMA PoolPop ==
  ASSUME PoolExact, free \in Contexts, free' = next[free], UNCHANGED <<next, made>>,
         Held' = Held \cup {free}
  PROVE  PoolExact'
  <1>1. PICK n \in 0..Cardinality(Contexts) : \E f \in [1..n -> Contexts] :
           IsFreeList(n, f) /\ {f[i] : i \in 1..n} = made \ Held
      BY DEF PoolExact
  <1>f. PICK f \in [1..n -> Contexts] :
           IsFreeList(n, f) /\ {f[i] : i \in 1..n} = made \ Held
      BY <1>1
  <1>2. n \in Nat /\ n # 0 /\ free = f[1] /\ n - 1 \in 0..Cardinality(Contexts)
      BY <1>f, ContextsAssumption, FS_CardinalityType, NilAssumption DEF IsFreeList
  <1> DEFINE g == [i \in 1..(n - 1) |-> f[i + 1]]
  <1>3. g \in [1..(n - 1) -> Contexts]
      BY <1>2
  <1>4. IsFreeList(n - 1, g)'
    <2>1. free' = IF n - 1 = 0 THEN Nil ELSE g[1]
        BY <1>f, <1>2 DEF IsFreeList
    <2>2. \A i \in 1..(n - 1) : next[g[i]] = IF i = n - 1 THEN Nil ELSE g[i + 1]
        BY <1>f, <1>2 DEF IsFreeList
    <2>3. \A i, j \in 1..(n - 1) : g[i] = g[j] => i = j
        BY <1>f, <1>2 DEF IsFreeList
    <2> QED BY <1>3, <2>1, <2>2, <2>3 DEF IsFreeList
  <1>5. {g[i] : i \in 1..(n - 1)} = made \ (Held \cup {free})
    <2>1. \A c : (\E i \in 1..n : c = f[i] /\ c # free) <=> (\E i \in 1..(n - 1) : c = g[i])
      <3> SUFFICES ASSUME NEW c
                   PROVE  (\E i \in 1..n : c = f[i] /\ c # free) <=> (\E i \in 1..(n - 1) : c = g[i])
          OBVIOUS
      <3>1. ASSUME NEW i \in 1..n, c = f[i], c # free PROVE \E k \in 1..(n - 1) : c = g[k]
        <4>1. i # 1 /\ i - 1 \in 1..(n - 1) /\ g[i - 1] = f[i]
            BY <1>2, <3>1
        <4> QED BY <3>1, <4>1
      <3>2. ASSUME NEW k \in 1..(n - 1), c = g[k] PROVE \E i \in 1..n : c = f[i] /\ c # free
        <4>1. k + 1 \in 1..n /\ c = f[k + 1] /\ 1 \in 1..n /\ k + 1 # 1
            BY <1>2, <3>2
        <4>2. c # f[1]
            BY <1>f, <4>1 DEF IsFreeList
        <4> QED BY <1>2, <4>1, <4>2
      <3> QED BY <3>1, <3>2
    <2> HIDE DEF g
    <2>2. \A x : x \in {g[i] : i \in 1..(n - 1)} <=> x \in made \ (Held \cup {free})
      <3> SUFFICES ASSUME NEW x PROVE x \in {g[i] : i \in 1..(n - 1)} <=> x \in made \ (Held \cup {free})
          OBVIOUS
      <3>1. x \in {g[i] : i \in 1..(n - 1)} <=> \E i \in 1..(n - 1) : x = g[i]
          OBVIOUS
      <3>2. x \in made \ Held <=> \E i \in 1..n : x = f[i]
          BY <1>f
      <3> QED BY <2>1, <3>1, <3>2
    <2> QED BY <2>2
  <1> QED BY <1>2, <1>3, <1>4, <1>5 DEF PoolExact

\* freeContext: a Context that was held becomes the head.
LEMMA PoolPush ==
  ASSUME TypeOK, PoolExact, NEW c \in Contexts, c \in made, c \in Held, next[c] = free,
         free' = c, UNCHANGED <<next, made>>, Held' = Held \ {c}
  PROVE  PoolExact'
  <1>1. PICK n \in 0..Cardinality(Contexts) : \E f \in [1..n -> Contexts] :
           IsFreeList(n, f) /\ {f[i] : i \in 1..n} = made \ Held
      BY DEF PoolExact
  <1>f. PICK f \in [1..n -> Contexts] :
           IsFreeList(n, f) /\ {f[i] : i \in 1..n} = made \ Held
      BY <1>1
  <1>2. n \in Nat
      BY ContextsAssumption, FS_CardinalityType
  <1>3. \A i \in 1..n : f[i] # c
      BY <1>f
  <1> DEFINE g == [i \in 1..(n + 1) |-> IF i = 1 THEN c ELSE f[i - 1]]
  <1>4. g \in [1..(n + 1) -> Contexts]
      BY <1>2
  <1>5. \A i, j \in 1..(n + 1) : g[i] = g[j] => i = j
    <2> SUFFICES ASSUME NEW i \in 1..(n + 1), NEW j \in 1..(n + 1), g[i] = g[j] PROVE i = j
        OBVIOUS
    <2>1. CASE i = 1 \/ j = 1
        BY <1>2, <1>3, <2>1
    <2>2. CASE i # 1 /\ j # 1
      <3>1. i - 1 \in 1..n /\ j - 1 \in 1..n /\ f[i - 1] = f[j - 1]
          BY <1>2, <2>2
      <3>2. i - 1 = j - 1
          BY <1>f, <3>1 DEF IsFreeList
      <3> QED BY <1>2, <3>2
    <2> QED BY <2>1, <2>2
  <1>6. n + 1 \in 0..Cardinality(Contexts)
    <2>1. g \in Injection(1..(n + 1), Contexts)
        BY <1>4, <1>5 DEF Injection, IsInjective
    <2>2. Cardinality(1..(n + 1)) <= Cardinality(Contexts)
        BY <2>1, ContextsAssumption, FS_Injection
    <2>3. Cardinality(1..(n + 1)) = n + 1
        BY <1>2, FS_Interval
    <2> QED BY <1>2, <2>2, <2>3, ContextsAssumption, FS_CardinalityType
  <1>7. IsFreeList(n + 1, g)'
    <2>1. free' = g[1]
        BY <1>2
    <2>2. ASSUME NEW i \in 1..(n + 1)
          PROVE  next[g[i]] = IF i = n + 1 THEN Nil ELSE g[i + 1]
      <3>1. CASE i = 1
          BY <1>f, <1>2, <3>1 DEF IsFreeList
      <3>2. CASE i # 1
        <4>1. i - 1 \in 1..n /\ g[i] = f[i - 1] /\ (i - 1 # n => g[i + 1] = f[(i - 1) + 1])
            BY <1>2, <3>2
        <4> QED BY <1>f, <1>2, <4>1 DEF IsFreeList
      <3> QED BY <3>1, <3>2
    <2> QED BY <1>2, <1>4, <1>5, <2>1, <2>2 DEF IsFreeList
  <1>8. {g[i] : i \in 1..(n + 1)} = made \ (Held \ {c})
    <2>1. \A x : (x = c \/ \E i \in 1..n : x = f[i]) <=> (\E i \in 1..(n + 1) : x = g[i])
      <3> SUFFICES ASSUME NEW x
                   PROVE  (x = c \/ \E i \in 1..n : x = f[i]) <=> (\E i \in 1..(n + 1) : x = g[i])
          OBVIOUS
      <3>1. c = g[1] /\ 1 \in 1..(n + 1)
          BY <1>2
      <3>2. ASSUME NEW i \in 1..n PROVE i + 1 \in 1..(n + 1) /\ f[i] = g[i + 1]
          BY <1>2
      <3>3. ASSUME NEW i \in 1..(n + 1), i # 1 PROVE i - 1 \in 1..n /\ g[i] = f[i - 1]
          BY <1>2, <3>3
      <3> HIDE DEF g
      <3> QED BY <3>1, <3>2, <3>3
    <2> HIDE DEF g
    <2>2. \A x : x \in {g[i] : i \in 1..(n + 1)} <=> x \in made \ (Held \ {c})
      <3> SUFFICES ASSUME NEW x PROVE x \in {g[i] : i \in 1..(n + 1)} <=> x \in made \ (Held \ {c})
          OBVIOUS
      <3>1. x \in {g[i] : i \in 1..(n + 1)} <=> \E i \in 1..(n + 1) : x = g[i]
          OBVIOUS
      <3>2. x \in made \ Held <=> \E i \in 1..n : x = f[i]
          BY <1>f
      <3> QED BY <2>1, <3>1, <3>2
    <2> QED BY <2>2
  <1> QED BY <1>4, <1>6, <1>7, <1>8 DEF PoolExact

----------------------------------------------------------------------------
(* Who holds what.                                                         *)

\* Every action keeps the holders of Contexts exclusive and the pool exact.
LEMMA HolderStep ==
  ASSUME TypeOK, MutexInv, ExclusiveContext, PoolExact, HolderInv, ContentInv, [Next]_vars
  PROVE  ExclusiveContext' /\ PoolExact' /\ HolderInv'
  <1> DEFINE Goal == ExclusiveContext' /\ PoolExact' /\ HolderInv'
  <1>0. /\ pc \in [Handlers -> PCs] /\ ctx \in [Handlers -> Contexts \cup {Nil}]
        /\ alias \in [Handlers -> BOOLEAN] /\ free \in Contexts \cup {Nil} /\ made \subseteq Contexts
      BY DEF TypeOK
  \* A step that leaves the list alone and changes nobody's hold.
  <1>1. ASSUME UNCHANGED <<free, next, made>>,
               \A g \in Handlers : Holding(g)' = Holding(g) /\ (Holding(g) => ctx'[g] = ctx[g]),
               \A g \in Handlers : pc'[g] = "answer" /\ alias'[g] =>
                    pc[g] = "answer" /\ alias[g] /\ ctx'[g] = ctx[g]
        PROVE  Goal
    <2>1. Held' = Held
        BY <1>1 DEF Held
    <2>2. PoolExact'
        BY <1>1, <2>1, PoolKept
    <2>3. ExclusiveContext' /\ HolderInv'
        BY <1>1 DEF ExclusiveContext, HolderInv
    <2> QED BY <2>2, <2>3
  <1>2. CASE UNCHANGED vars
      BY <1>1, <1>2 DEF vars, handlerVars, poolVars, Holding
  <1>3. ASSUME NEW h \in Handlers, Arrive(h) PROVE Goal
    <2>1. /\ UNCHANGED <<ctx, alias, free, next, made>> /\ pc[h] = "idle" /\ ~alias[h]
          /\ pc' = [pc EXCEPT ![h] = "get"] \/ pc' = [pc EXCEPT ![h] = "answer"]
        BY <1>3 DEF Arrive, ContentInv, poolVars
    <2> QED BY <1>0, <1>1, <2>1 DEF Holding
  <1>4. ASSUME NEW h \in Handlers, LockForGet(h) PROVE Goal
    <2>1. /\ UNCHANGED <<alias, free, next, made>> /\ pc[h] = "get"
          /\ pc' = [pc EXCEPT ![h] = "unlink"] /\ ctx' = [ctx EXCEPT ![h] = free]
        BY <1>4 DEF LockForGet
    <2> QED BY <1>0, <1>1, <2>1 DEF Holding
  <1>5. ASSUME NEW h \in Handlers, ResetContext(h) \/ PadArguments(h) PROVE Goal
    <2>1. /\ UNCHANGED <<ctx, alias, free, next, made>> /\ pc[h] \in {"reset", "decode"}
          /\ pc' = [pc EXCEPT ![h] = "decode"] \/ pc' = [pc EXCEPT ![h] = "invoke"]
        BY <1>5 DEF ResetContext, PadArguments, poolVars
    <2> QED BY <1>0, <1>1, <2>1 DEF Holding
  <1>6. ASSUME NEW h \in Handlers, Decode(h) \/ Invoke(h) PROVE Goal
    <2>1. /\ UNCHANGED <<ctx, alias, free, next, made>> /\ pc[h] \in {"decode", "invoke"}
          /\ \E p \in {"invoke", "encode", "free"} : pc' = [pc EXCEPT ![h] = p]
      <3>1. CASE Decode(h)
          BY <3>1 DEF Decode, poolVars
      <3>2. CASE Invoke(h)
          BY <3>2 DEF Invoke, poolVars
      <3> QED BY <1>6, <3>1, <3>2
    <2> QED BY <1>0, <1>1, <2>1 DEF Holding
  <1>7. ASSUME NEW h \in Handlers, Encode(h) PROVE Goal
    <2>1. /\ UNCHANGED <<ctx, free, next, made>> /\ pc[h] = "encode"
          /\ pc' = [pc EXCEPT ![h] = "free"]
        BY <1>7 DEF Encode, poolVars
    <2>2. \A g \in Handlers : g # h /\ alias'[g] => alias[g]
        BY <1>7 DEF Encode
    <2> QED BY <1>0, <1>1, <2>1, <2>2 DEF Holding
  <1>8. ASSUME NEW h \in Handlers, LockForFree(h) PROVE Goal
    <2>1. /\ UNCHANGED <<ctx, alias, free, made>> /\ pc[h] = "free"
          /\ pc' = [pc EXCEPT ![h] = "push"] /\ next' = [next EXCEPT ![ctx[h]] = free]
        BY <1>8 DEF LockForFree, contextVars
    <2>2. \A g \in Handlers : Holding(g)' = Holding(g)
        BY <1>0, <2>1 DEF Holding
    <2>3. Held' = Held /\ ctx[h] \in Held
        BY <2>1, <2>2 DEF Held, Holding
    <2>4. PICK n \in 0..Cardinality(Contexts) : \E f \in [1..n -> Contexts] :
             IsFreeList(n, f) /\ {f[i] : i \in 1..n} = made \ Held
        BY DEF PoolExact
    <2>5. PICK f \in [1..n -> Contexts] : IsFreeList(n, f) /\ {f[i] : i \in 1..n} = made \ Held
        BY <2>4
    <2>6. \A i \in 1..n : f[i] # ctx[h]
        BY <2>3, <2>5
    <2>7. \A i \in 1..n : next'[f[i]] = next[f[i]]
        BY <2>1, <2>6 DEF TypeOK
    <2>8. IsFreeList(n, f)'
        BY <2>1, <2>5, <2>7 DEF IsFreeList
    <2>9. PoolExact'
        BY <2>1, <2>3, <2>5, <2>8 DEF PoolExact
    <2> QED BY <1>0, <2>1, <2>2, <2>9 DEF ExclusiveContext, HolderInv
  <1>9. ASSUME NEW h \in Handlers, Answer(h) PROVE Goal
    <2>1. /\ UNCHANGED <<free, next, made>> /\ pc[h] = "answer"
          /\ pc' = [pc EXCEPT ![h] = "idle"] /\ ctx' = [ctx EXCEPT ![h] = Nil]
          /\ alias' = [alias EXCEPT ![h] = FALSE]
        BY <1>9 DEF Answer, poolVars
    <2> QED BY <1>0, <1>1, <2>1 DEF Holding
  <1>10. ASSUME NEW h \in Handlers, NewContext(h) PROVE Goal
    <2>1. PICK c \in Contexts \ made :
             ctx' = [ctx EXCEPT ![h] = c] /\ made' = made \cup {c}
        BY <1>10 DEF NewContext
    <2>2. /\ UNCHANGED <<alias, free, next>> /\ pc[h] = "unlink" /\ ctx[h] = Nil
          /\ pc' = [pc EXCEPT ![h] = "decode"]
        BY <1>10 DEF NewContext
    <2>3. free = Nil /\ made \ Held = {}
        BY <2>2, HeadIsPooled DEF MutexInv
    <2>4. ~Holding(h) /\ Holding(h)' /\ \A g \in Handlers : g # h => Holding(g)' = Holding(g)
        BY <1>0, <2>2 DEF Holding
    <2>5. Held' = Held \cup {c}
        BY <1>0, <2>1, <2>4 DEF Held
    <2>6. PoolExact'
      <3>1. PICK n \in 0..Cardinality(Contexts) : \E f \in [1..n -> Contexts] :
               IsFreeList(n, f) /\ {f[i] : i \in 1..n} = made \ Held
          BY DEF PoolExact
      <3>2. PICK f \in [1..n -> Contexts] : IsFreeList(n, f) /\ {f[i] : i \in 1..n} = made \ Held
          BY <3>1
      <3>3. {f[i] : i \in 1..n} = made' \ Held'
          BY <2>1, <2>3, <2>5, <3>2
      <3>4. IsFreeList(n, f)'
          BY <2>2, <3>2 DEF IsFreeList
      <3> QED BY <3>3, <3>4 DEF PoolExact
    <2>7. ExclusiveContext'
        BY <1>0, <2>1, <2>4 DEF ExclusiveContext
    <2>8. HolderInv'
        BY <1>0, <2>1, <2>2, <2>4 DEF HolderInv
    <2> QED BY <2>6, <2>7, <2>8
  <1>11. ASSUME NEW h \in Handlers, Unlink(h) PROVE Goal
    <2>1. /\ UNCHANGED <<ctx, alias, next, made>> /\ pc[h] = "unlink" /\ ctx[h] # Nil
          /\ pc' = [pc EXCEPT ![h] = "reset"] /\ free' = next[ctx[h]]
        BY <1>11 DEF Unlink
    <2>2. ctx[h] = free /\ free \in Contexts /\ free \in made \ Held
        BY <1>0, <2>1, HeadIsPooled DEF MutexInv
    <2>3. ~Holding(h) /\ Holding(h)' /\ \A g \in Handlers : g # h => Holding(g)' = Holding(g)
        BY <1>0, <2>1 DEF Holding
    <2>4. Held' = Held \cup {free}
        BY <2>1, <2>2, <2>3 DEF Held
    <2>5. PoolExact'
        BY <2>1, <2>2, <2>4, PoolPop
    <2>6. ExclusiveContext'
        BY <2>1, <2>2, <2>3 DEF ExclusiveContext, Held
    <2>7. HolderInv'
        BY <1>0, <2>1, <2>2, <2>3 DEF HolderInv
    <2> QED BY <2>5, <2>6, <2>7
  <1>12. ASSUME NEW h \in Handlers, Push(h) PROVE Goal
    <2>1. /\ UNCHANGED <<ctx, alias, next, made>> /\ pc[h] = "push"
          /\ pc' = [pc EXCEPT ![h] = "answer"] /\ free' = ctx[h]
        BY <1>12 DEF Push, contextVars
    <2>2. Holding(h) /\ ~Holding(h)' /\ \A g \in Handlers : g # h => Holding(g)' = Holding(g)
        BY <1>0, <2>1 DEF Holding
    <2>3. ctx[h] \in Contexts /\ ctx[h] \in made /\ ctx[h] \in Held /\ next[ctx[h]] = free
        BY <2>1, <2>2 DEF HolderInv, ExclusiveContext, MutexInv, Held
    <2>4. \A g \in Handlers : Holding(g) /\ g # h => ctx[g] # ctx[h]
        BY <2>2 DEF ExclusiveContext
    <2>5. Held' = Held \ {ctx[h]}
        BY <2>1, <2>2, <2>4 DEF Held
    <2>6. PoolExact'
        BY <2>1, <2>3, <2>5, PoolPush
    <2>7. ExclusiveContext'
        BY <2>1, <2>2 DEF ExclusiveContext
    <2>8. HolderInv'
        BY <1>0, <2>1, <2>2, <2>3 DEF HolderInv
    <2> QED BY <2>6, <2>7, <2>8
  <1> QED BY <1>2, <1>3, <1>4, <1>5, <1>6, <1>7, <1>8, <1>9, <1>10, <1>11, <1>12
          DEF Next, Serve

----------------------------------------------------------------------------
(* What a request leaves in its Context and finds there.                   *)

\* A call that goes on runs under the user its own token names.
LEMMA SessionOwn ==
  ASSUME NEW r \in Request, NEW old, NEW auth \in DecodedAuth(r, "missing"),
         NEW s \in Session(r, auth, old), s[2]
  PROVE  s[1] = Identity(r)
  <1>1. CASE BadCall(r) \/ (~services[r.svc].anon /\ auth \in {"missing", "mistyped"})
    <2>1. s = <<old, FALSE>>
        BY <1>1 DEF Session, BadCall
    <2> QED BY <2>1
  <1>2. CASE ~BadCall(r) /\ services[r.svc].anon
    <2>1. s = <<Nobody, TRUE>>
        BY <1>2 DEF Session
    <2> QED BY <1>2, <2>1 DEF Identity
  <1>3. CASE ~BadCall(r) /\ ~services[r.svc].anon /\ auth \notin {"missing", "mistyped"}
    <2>1. s \in Info(auth)
        BY <1>3 DEF Session
    <2>2. auth \in Users /\ s = <<auth, TRUE>>
      <3>1. CASE auth \notin Users
        <4>1. \E u \in Users \cup {Nobody} : s = <<u, FALSE>>
            BY <2>1, <3>1 DEF Info
        <4> QED BY <4>1
      <3>2. CASE auth \in Users
          BY <2>1, <3>2 DEF Info
      <3> QED BY <3>1, <3>2
    <2>3. r.shape = "ok"
        BY <1>3 DEF BadCall
    <2>4. auth = r.auth
        BY <1>3, <2>2, <2>3, UsersAssumption DEF DecodedAuth
    <2> QED BY <1>3, <2>2, <2>4 DEF Identity
  <1> QED BY <1>1, <1>2, <1>3

\* What a Context in use contains belongs to the request it serves.
LEMMA ContentStep ==
  ASSUME TypeOK, MutexInv, ExclusiveContext, HolderInv,
         ContentInv, OwnIdentity, ReplyKeptWhileHeld, [Next]_vars
  PROVE  ContentInv' /\ OwnIdentity' /\ ReplyKeptWhileHeld'
  <1> DEFINE Local(g) ==
        /\ pc[g] = "decode" => header[ctx[g]] = "missing"
        /\ pc[g] \in {"decode", "invoke", "encode"} => buffer[ctx[g]].len = 0
        /\ pc[g] \in {"get", "unlink", "reset", "decode", "invoke", "encode"}
              => status[g] = "none" /\ ~alias[g]
        /\ pc[g] = "idle" => ~alias[g]
        /\ pc[g] \in {"invoke", "encode"} /\ req[g].entry = "Handle"
              => username[ctx[g]] = Identity(req[g])
        /\ Holding(g) /\ status[g] = "ok" => Body(g) = <<req[g]>>
      Goal == ContentInv' /\ OwnIdentity' /\ ReplyKeptWhileHeld'
  <1>a. \A g \in Handlers : Local(g)
      BY DEF ContentInv, OwnIdentity, ReplyKeptWhileHeld
  <1>b. (\A g \in Handlers : Local(g)') => Goal
      BY DEF ContentInv, OwnIdentity, ReplyKeptWhileHeld
  <1>0. /\ pc \in [Handlers -> PCs] /\ ctx \in [Handlers -> Contexts \cup {Nil}]
        /\ status \in [Handlers -> Statuses] /\ alias \in [Handlers -> BOOLEAN]
        /\ req \in [Handlers -> Requests] /\ resp \in [Handlers -> Seq(Requests)]
        /\ username \in [Contexts -> Users \cup {Nobody}]
        /\ header \in [Contexts -> Users \cup {"missing", "mistyped", "expired"}]
        /\ buffer \in [Contexts -> [data : Seq(Requests), len : Nat]]
      BY DEF TypeOK
  \* The others keep what they have when the step leaves their Contexts alone.
  <1>1. ASSUME NEW h \in Handlers, Local(h)',
               \A g \in Handlers : g # h =>
                   /\ pc'[g] = pc[g] /\ ctx'[g] = ctx[g] /\ req'[g] = req[g]
                   /\ status'[g] = status[g]
                   /\ alias'[g] => alias[g]
                   /\ Holding(g) => /\ alias'[g] = alias[g] /\ resp'[g] = resp[g]
                                    /\ header'[ctx[g]] = header[ctx[g]]
                                    /\ username'[ctx[g]] = username[ctx[g]]
                                    /\ buffer'[ctx[g]] = buffer[ctx[g]]
        PROVE  Goal
    <2>1. ASSUME NEW g \in Handlers, g # h PROVE Local(g)'
        BY <1>a, <1>1, <2>1 DEF Holding, Body
    <2> QED BY <1>1, <1>b, <2>1
  <1>2. CASE UNCHANGED vars
      BY <1>2 DEF vars, handlerVars, contextVars, ContentInv, OwnIdentity,
                  ReplyKeptWhileHeld, Holding, Body
  <1>3. ASSUME NEW h \in Handlers, Arrive(h) PROVE Goal
    <2>1. PICK r \in Requests :
              /\ req' = [req EXCEPT ![h] = r]
              /\ status' = [status EXCEPT ![h] = EarlyExit(r)]
              /\ pc' = [pc EXCEPT ![h] = IF EarlyExit(r) = "none" THEN "get" ELSE "answer"]
        BY <1>3 DEF Arrive
    <2>2. UNCHANGED <<ctx, alias, resp, header, username, buffer>> /\ ~alias[h]
        BY <1>a, <1>3 DEF Arrive, contextVars
    <2>3. Local(h)'
        BY <1>0, <2>1, <2>2 DEF Holding
    <2> QED BY <1>0, <1>1, <2>1, <2>2, <2>3
  <1>4. ASSUME NEW h \in Handlers, LockForGet(h) \/ Unlink(h) \/ LockForFree(h) \/ Push(h) PROVE Goal
    <2>1. /\ UNCHANGED <<req, status, alias, resp, header, username, buffer>>
          /\ \A g \in Handlers : g # h => pc'[g] = pc[g] /\ ctx'[g] = ctx[g]
        BY <1>0, <1>4 DEF LockForGet, Unlink, LockForFree, Push, contextVars
    <2>2. \/ pc[h] = "get" /\ pc'[h] = "unlink"
          \/ pc[h] = "unlink" /\ pc'[h] = "reset"
          \/ pc[h] = "free" /\ pc'[h] = "push" /\ ctx'[h] = ctx[h]
          \/ pc[h] = "push" /\ pc'[h] = "answer"
        BY <1>0, <1>4 DEF LockForGet, Unlink, LockForFree, Push
    <2>3. Local(h)'
        BY <1>a, <2>1, <2>2 DEF Holding, Body
    <2> QED BY <1>1, <2>1, <2>3
  <1>5. ASSUME NEW h \in Handlers, NewContext(h) PROVE Goal
    <2>1. PICK c \in Contexts \ made :
              /\ ctx' = [ctx EXCEPT ![h] = c]
              /\ username' = [username EXCEPT ![c] = Nobody]
              /\ header' = [header EXCEPT ![c] = "missing"]
              /\ buffer' = [buffer EXCEPT ![c] = [data |-> <<>>, len |-> 0]]
        BY <1>5 DEF NewContext
    <2>2. /\ UNCHANGED <<req, status, alias, resp>> /\ pc[h] = "unlink"
          /\ pc' = [pc EXCEPT ![h] = "decode"]
        BY <1>5 DEF NewContext
    <2>3. Local(h)'
        BY <1>0, <1>a, <2>1, <2>2 DEF Holding
    <2>4. \A g \in Handlers : Holding(g) => ctx[g] # c
        BY <2>1 DEF ExclusiveContext
    <2>5. \A g \in Handlers : Holding(g) /\ g # h =>
              /\ header'[ctx[g]] = header[ctx[g]] /\ username'[ctx[g]] = username[ctx[g]]
              /\ buffer'[ctx[g]] = buffer[ctx[g]]
        BY <1>0, <2>1, <2>4 DEF HolderInv
    <2> HIDE DEF Local
    <2> QED BY <1>0, <1>1, <2>1, <2>2, <2>3, <2>5
  <1>6. ASSUME NEW h \in Handlers, ResetContext(h) PROVE Goal
    <2>1. /\ UNCHANGED <<ctx, req, status, alias, resp, username>> /\ pc[h] = "reset"
          /\ pc' = [pc EXCEPT ![h] = "decode"]
          /\ buffer' = [buffer EXCEPT ![ctx[h]].len = 0]
          /\ header' = [header EXCEPT ![ctx[h]] = "missing"]
        BY <1>6 DEF ResetContext
    <2>2. ctx[h] \in Contexts /\ \A g \in Handlers : Holding(g) /\ g # h => ctx[g] # ctx[h]
        BY <2>1 DEF HolderInv, ExclusiveContext, Holding
    <2>3. Local(h)'
        BY <1>0, <1>a, <2>1, <2>2 DEF Holding
    <2>4. \A g \in Handlers : Holding(g) /\ g # h =>
              /\ header'[ctx[g]] = header[ctx[g]] /\ username'[ctx[g]] = username[ctx[g]]
              /\ buffer'[ctx[g]] = buffer[ctx[g]]
        BY <1>0, <2>1, <2>2 DEF HolderInv
    <2> HIDE DEF Local
    <2> QED BY <1>0, <1>1, <2>1, <2>3, <2>4
  <1>7. ASSUME NEW h \in Handlers, Decode(h) PROVE Goal
    <2>1. PICK auth \in DecodedAuth(req[h], header[ctx[h]]) :
            \E s \in Session(req[h], auth, username[ctx[h]]) :
              /\ header' = [header EXCEPT ![ctx[h]] = auth]
              /\ username' = [username EXCEPT ![ctx[h]] = s[1]]
              /\ status' = [status EXCEPT ![h] = IF s[2] /\ req[h].args # "bad" THEN "none" ELSE "error"]
              /\ pc' = [pc EXCEPT ![h] = IF s[2] /\ req[h].args # "bad" THEN "invoke" ELSE "free"]
        BY <1>7 DEF Decode
    <2>2. PICK s \in Session(req[h], auth, username[ctx[h]]) :
              /\ header' = [header EXCEPT ![ctx[h]] = auth]
              /\ username' = [username EXCEPT ![ctx[h]] = s[1]]
              /\ status' = [status EXCEPT ![h] = IF s[2] /\ req[h].args # "bad" THEN "none" ELSE "error"]
              /\ pc' = [pc EXCEPT ![h] = IF s[2] /\ req[h].args # "bad" THEN "invoke" ELSE "free"]
        BY <2>1
    <2>3. UNCHANGED <<ctx, req, alias, resp, buffer>> /\ pc[h] = "decode"
        BY <1>7 DEF Decode
    <2>4. ctx[h] \in Contexts /\ \A g \in Handlers : Holding(g) /\ g # h => ctx[g] # ctx[h]
        BY <2>3 DEF HolderInv, ExclusiveContext, Holding
    <2>5. header[ctx[h]] = "missing" /\ buffer[ctx[h]].len = 0 /\ ~alias[h]
        BY <1>a, <2>3
    <2>6. s[2] => s[1] = Identity(req[h])
        BY <1>0, <2>1, <2>5, SessionOwn, RequestsAssumption
    <2>7. Local(h)'
      <3>1. CASE s[2] /\ req[h].args # "bad"
          BY <1>0, <2>2, <2>3, <2>4, <2>5, <2>6, <3>1 DEF Holding
      <3>2. CASE ~(s[2] /\ req[h].args # "bad")
          BY <1>0, <2>2, <2>3, <3>2 DEF Holding
      <3> QED BY <3>1, <3>2
    <2>8. \A g \in Handlers : Holding(g) /\ g # h =>
              /\ header'[ctx[g]] = header[ctx[g]] /\ username'[ctx[g]] = username[ctx[g]]
              /\ buffer'[ctx[g]] = buffer[ctx[g]]
        BY <1>0, <2>2, <2>3, <2>4 DEF HolderInv
    <2> HIDE DEF Local
    <2> QED BY <1>0, <1>1, <2>2, <2>3, <2>7, <2>8
  <1>8. ASSUME NEW h \in Handlers, PadArguments(h) PROVE Goal
    <2>1. /\ UNCHANGED <<ctx, req, status, alias, resp, header, username, buffer>>
          /\ pc[h] = "decode" /\ req[h].entry = "HandleGet" /\ pc' = [pc EXCEPT ![h] = "invoke"]
        BY <1>8 DEF PadArguments, contextVars
    <2>2. Local(h)'
        BY <1>0, <1>a, <2>1 DEF Holding
    <2> QED BY <1>0, <1>1, <2>1, <2>2
  <1>9. ASSUME NEW h \in Handlers, Invoke(h) PROVE Goal
    <2>1. /\ UNCHANGED <<ctx, req, alias, header, username, buffer>> /\ pc[h] = "invoke"
        BY <1>9 DEF Invoke, contextVars
    <2>2. \/ pc' = [pc EXCEPT ![h] = "encode"] /\ UNCHANGED <<status, resp>>
          \/ /\ pc' = [pc EXCEPT ![h] = "free"]
             /\ status' = [status EXCEPT ![h] = "ok"]
             /\ resp' = [resp EXCEPT ![h] = <<req[h]>>]
          \/ /\ pc' = [pc EXCEPT ![h] = "free"]
             /\ \E e \in Statuses \ {"ok"} : status' = [status EXCEPT ![h] = e]
             /\ \E q : resp' = [resp EXCEPT ![h] = q]
      <3>1. PICK out \in MethodOutcomes(ServiceOf(req[h])) :
               \/ pc' = [pc EXCEPT ![h] = "encode"] /\ UNCHANGED <<status, resp>>
               \/ /\ pc' = [pc EXCEPT ![h] = "free"]
                  /\ status' = [status EXCEPT ![h] = IF out = "odd" THEN "error" ELSE "ok"]
                  /\ resp' = [resp EXCEPT ![h] = IF out = "odd" THEN <<>> ELSE <<req[h]>>]
               \/ /\ pc' = [pc EXCEPT ![h] = "free"]
                  /\ status' = [status EXCEPT ![h] = AfterMethod(ServiceOf(req[h]), out)]
                  /\ UNCHANGED resp
          BY <1>9 DEF Invoke
      <3>2. AfterMethod(ServiceOf(req[h]), out) \in Statuses \ {"ok"}
          BY DEF AfterMethod, Statuses
      <3>3. resp = [resp EXCEPT ![h] = resp[h]]
          BY <1>0
      <3>4. "error" \in Statuses \ {"ok"}
          BY DEF Statuses
      <3> QED BY <3>1, <3>2, <3>3, <3>4
    <2>3. Local(h)'
        BY <1>0, <1>a, <2>1, <2>2 DEF Holding, Body
    <2> QED BY <1>0, <1>1, <2>1, <2>2, <2>3
  <1>10. ASSUME NEW h \in Handlers, Encode(h) PROVE Goal
    <2>1. /\ UNCHANGED <<ctx, req, header, username>> /\ pc[h] = "encode"
          /\ pc' = [pc EXCEPT ![h] = "free"]
        BY <1>10 DEF Encode
    <2>2. ctx[h] \in Contexts /\ \A g \in Handlers : Holding(g) /\ g # h => ctx[g] # ctx[h]
        BY <2>1 DEF HolderInv, ExclusiveContext, Holding
    <2>3. CASE returned[h] = "odd"
      <3>1. status' = [status EXCEPT ![h] = "error"] /\ UNCHANGED <<alias, resp, buffer>>
          BY <1>10, <2>3 DEF Encode
      <3>2. Local(h)'
          BY <1>0, <2>1, <3>1
      <3> QED BY <1>0, <1>1, <2>1, <3>1, <3>2
    <2>4. CASE returned[h] # "odd"
      <3> DEFINE data == Append(SubSeq(buffer[ctx[h]].data, 1, buffer[ctx[h]].len), req[h])
      <3>1. /\ status' = [status EXCEPT ![h] = "ok"]
            /\ buffer' = [buffer EXCEPT ![ctx[h]] = [data |-> data, len |-> Len(data)]]
          BY <1>10, <2>4 DEF Encode
      <3>2. PICK moves \in BOOLEAN :
              /\ alias' = [g \in Handlers |-> g = h \/ (alias[g] /\ g \notin
                            {k \in Handlers : moves /\ alias[k] /\ ctx[k] = ctx[h]})]
              /\ resp' = [g \in Handlers |->
                            IF g \in {k \in Handlers : moves /\ alias[k] /\ ctx[k] = ctx[h]}
                            THEN buffer[ctx[h]].data ELSE resp[g]]
          BY <1>10, <2>4 DEF Encode
      <3>3. data = <<req[h]>>
        <4>1. buffer[ctx[h]].len = 0 /\ buffer[ctx[h]].data \in Seq(Requests) /\ req[h] \in Requests
            BY <1>0, <1>a, <2>1, <2>2
        <4>2. SubSeq(buffer[ctx[h]].data, 1, buffer[ctx[h]].len) = <<>>
            BY <4>1
        <4>3. \A r : Append(<<>>, r) = <<r>>
            OBVIOUS
        <4> QED BY <4>2, <4>3
      <3> HIDE DEF data
      <3>4. buffer'[ctx[h]].data = <<req[h]>> /\ alias'[h]
          BY <1>0, <2>2, <3>1, <3>2, <3>3
      <3>5. Local(h)'
          BY <1>0, <2>1, <3>4 DEF Body
      <3>6. ASSUME NEW g \in Handlers, g # h
            PROVE  /\ status'[g] = status[g]
                   /\ alias'[g] => alias[g]
                   /\ Holding(g) => /\ alias'[g] = alias[g] /\ resp'[g] = resp[g]
                                    /\ buffer'[ctx[g]] = buffer[ctx[g]]
          BY <1>0, <2>2, <3>1, <3>2, <3>6 DEF HolderInv
      <3> QED BY <1>0, <1>1, <2>1, <3>5, <3>6
    <2> QED BY <2>3, <2>4
  <1>11. ASSUME NEW h \in Handlers, Answer(h) PROVE Goal
    <2>1. /\ UNCHANGED <<req, header, username, buffer>>
          /\ pc' = [pc EXCEPT ![h] = "idle"] /\ ctx' = [ctx EXCEPT ![h] = Nil]
          /\ alias' = [alias EXCEPT ![h] = FALSE] /\ resp' = [resp EXCEPT ![h] = <<>>]
          /\ status' = [status EXCEPT ![h] = "none"]
        BY <1>11 DEF Answer, contextVars
    <2>2. Local(h)'
        BY <1>0, <2>1 DEF Holding
    <2> QED BY <1>0, <1>1, <2>1, <2>2
  <1> QED BY <1>2, <1>3, <1>4, <1>5, <1>6, <1>7, <1>8, <1>9, <1>10, <1>11 DEF Next, Serve

----------------------------------------------------------------------------
(* The inductive invariant and the theorems.                               *)

\* The inductive invariant holds at first.
LEMMA InitIInv == Init => IInv
  <1> SUFFICES ASSUME Init PROVE IInv
      OBVIOUS
  <1>1. TypeOK
      BY InitTypeOK
  <1>2. \A h \in Handlers : /\ pc[h] = "idle" /\ ctx[h] = Nil /\ status[h] = "none"
                            /\ alias[h] = FALSE
      BY DEF Init
  <1>3. MutexInv /\ ExclusiveContext /\ ContentInv /\ OwnIdentity /\ ReplyKeptWhileHeld /\ HolderInv
      BY <1>2, NilAssumption DEF Init, MutexInv, ExclusiveContext, ContentInv, OwnIdentity,
              ReplyKeptWhileHeld, HolderInv, Holding
  <1>4. PoolExact
    <2> DEFINE f == [i \in 1..0 |-> Nil]
    <2>1. 0 \in 0..Cardinality(Contexts)
        BY ContextsAssumption, FS_CardinalityType
    <2>2. f \in [1..0 -> Contexts] /\ IsFreeList(0, f)
        BY DEF IsFreeList, Init
    <2>3. {f[i] : i \in 1..0} = made \ Held
        BY DEF Init
    <2> QED BY <2>1, <2>2, <2>3 DEF PoolExact
  <1> QED BY <1>1, <1>3, <1>4 DEF IInv

\* The inductive invariant is kept by every step.
LEMMA StepIInv == IInv /\ [Next]_vars => IInv'
  BY TypeStep, MutexStep, HolderStep, ContentStep DEF IInv

\* The inductive invariant holds always.
LEMMA Invariance == Spec => []IInv
  BY InitIInv, StepIInv, PTL DEF Spec

\* Every variable keeps its type, Statuses and Outcomes included.
THEOREM TypeCorrect == Spec => []TypeOK
  <1>1. IInv => TypeOK
      BY DEF IInv
  <1> QED BY <1>1, Invariance, PTL

\* getContext never hands out a Context that is in use, however many requests
\* race for the free list.
THEOREM Exclusive == Spec => []ExclusiveContext
  <1>1. IInv => ExclusiveContext
      BY DEF IInv
  <1> QED BY <1>1, Invariance, PTL

\* The free list is a repetition-free list of exactly the Contexts not in use.
THEOREM PoolIsExact == Spec => []PoolExact
  <1>1. IInv => PoolExact
      BY DEF IInv
  <1> QED BY <1>1, Invariance, PTL

\* A service called through Handle runs under its caller's own user.
THEOREM IdentityIsOwn == Spec => []OwnIdentity
  <1>1. IInv => OwnIdentity
      BY DEF IInv
  <1> QED BY <1>1, Invariance, PTL

\* The reply is intact for as long as the request has its Context.
THEOREM ReplyIsKept == Spec => []ReplyKeptWhileHeld
  <1>1. IInv => ReplyKeptWhileHeld
      BY DEF IInv
  <1> QED BY <1>1, Invariance, PTL

----------------------------------------------------------------------------
(* Refinement of ContextLease.                                             *)

\* holder[c] is the goroutine that holds c, and Nil when there is none.
HolderIs ==
    \A c \in Contexts :
        /\ \A h \in Handlers : holder[c] = h <=> Holding(h) /\ ctx[h] = c
        /\ holder[c] = Nil <=> c \notin Held

\* The refinement mapping picks the one goroutine that has the Context.
LEMMA HolderValue == ExclusiveContext => HolderIs
  <1> SUFFICES ASSUME ExclusiveContext, NEW c \in Contexts
               PROVE  /\ \A h \in Handlers : holder[c] = h <=> Holding(h) /\ ctx[h] = c
                      /\ holder[c] = Nil <=> c \notin Held
      BY DEF HolderIs
  <1>1. CASE c \in Held
    <2>1. PICK h \in Handlers : Holding(h) /\ ctx[h] = c
        BY <1>1 DEF Held
    <2>2. \A g \in Handlers : Holding(g) /\ ctx[g] = c => g = h
        BY <2>1 DEF ExclusiveContext
    <2>3. holder[c] = CHOOSE g \in Handlers : Holding(g) /\ ctx[g] = c
        BY <2>1 DEF holder
    <2>4. holder[c] = h
        BY <2>1, <2>2, <2>3
    <2> QED BY <1>1, <2>1, <2>2, <2>4, NilAssumption
  <1>2. CASE c \notin Held
    <2>1. holder[c] = Nil
        BY <1>2 DEF holder, Held
    <2> QED BY <1>2, <2>1, NilAssumption DEF Held
  <1> QED BY <1>1, <1>2

\* Taking and freeing a Context are the steps of ContextLease; every other
\* step leaves the leases as they are.
LEMMA LeaseStep ==
  ASSUME IInv, HolderIs, HolderIs', [Next]_vars
  PROVE  [Lease!Next]_<<holder, made>>
  <1> USE DEF IInv
  <1>0. /\ pc \in [Handlers -> PCs] /\ ctx \in [Handlers -> Contexts \cup {Nil}]
        /\ free \in Contexts \cup {Nil} /\ made \subseteq Contexts
      BY DEF TypeOK
  <1>a. /\ holder = [c \in Contexts |-> holder[c]] /\ holder' = [c \in Contexts |-> holder'[c]]
        /\ \A c \in Contexts : holder[c] \in Handlers \cup {Nil} /\ holder'[c] \in Handlers \cup {Nil}
    <2>1. \A c \in Contexts : holder[c] \in Handlers \cup {Nil}
        BY DEF HolderIs, Held
    <2>2. \A c \in Contexts : holder'[c] \in Handlers \cup {Nil}
        BY DEF HolderIs, Held
    <2> QED BY <2>1, <2>2 DEF holder
  <1>b. Lease!Pool = {c \in made : c \notin Held}
      BY <1>0 DEF Lease!Pool, HolderIs
  <1>1. ASSUME UNCHANGED made,
               \A g \in Handlers : Holding(g)' = Holding(g) /\ (Holding(g) => ctx'[g] = ctx[g])
        PROVE  UNCHANGED <<holder, made>>
    <2>1. ASSUME NEW c \in Contexts PROVE holder'[c] = holder[c]
      <3>1. CASE holder[c] = Nil
          BY <1>1, <3>1 DEF HolderIs, Held
      <3>2. CASE holder[c] \in Handlers
          BY <1>1, <3>2 DEF HolderIs
      <3> QED BY <1>a, <3>1, <3>2
    <2> QED BY <1>1, <1>a, <2>1
  \* h comes to hold c and nobody else's hold changes.
  <1>2. ASSUME NEW h \in Handlers, NEW c \in Contexts, ~Holding(h), Holding(h)', ctx'[h] = c,
               c \notin Held, made' = made \cup {c},
               IF made \subseteq Held THEN c \notin made ELSE c \in made,
               \A g \in Handlers : g # h => Holding(g)' = Holding(g) /\ ctx'[g] = ctx[g]
        PROVE  Lease!Next
    <2>1. \A d \in Contexts : holder[d] # h
        BY <1>2 DEF HolderIs
    <2>2. IF Lease!Pool = {} THEN c \notin made ELSE c \in Lease!Pool
        BY <1>2, <1>b
    <2>3. ASSUME NEW d \in Contexts PROVE holder'[d] = IF d = c THEN h ELSE holder[d]
      <3>1. CASE d = c
          BY <1>2, <3>1 DEF HolderIs
      <3>2. CASE d # c /\ holder[d] \in Handlers
          BY <1>2, <2>1, <3>2 DEF HolderIs
      <3>3. CASE d # c /\ holder[d] = Nil
        <4>1. d \notin Held
            BY <3>3 DEF HolderIs
        <4>2. d \notin Held'
            BY <1>2, <3>3, <4>1 DEF Held
        <4> QED BY <3>3, <4>2 DEF HolderIs
      <3> QED BY <1>a, <3>1, <3>2, <3>3
    <2>4. holder' = [holder EXCEPT ![c] = h]
        BY <1>a, <2>3
    <2> QED BY <1>2, <2>1, <2>2, <2>4 DEF Lease!Next, Lease!Take
  <1>3. CASE UNCHANGED vars
      BY <1>1, <1>3 DEF vars, handlerVars, poolVars, Holding
  <1>4. ASSUME NEW h \in Handlers, Arrive(h) \/ Answer(h) \/ LockForGet(h)
        PROVE  UNCHANGED <<holder, made>>
    <2>1. /\ made' = made /\ ~Holding(h)
          /\ \A g \in Handlers : g # h => pc'[g] = pc[g] /\ ctx'[g] = ctx[g]
        BY <1>0, <1>4 DEF Arrive, Answer, LockForGet, poolVars, Holding
    <2>2. pc'[h] \in {"get", "answer", "idle", "unlink"}
        BY <1>0, <1>4 DEF Arrive, Answer, LockForGet
    <2> QED BY <1>1, <2>1, <2>2 DEF Holding
  <1>5. ASSUME NEW h \in Handlers,
               ResetContext(h) \/ Decode(h) \/ PadArguments(h) \/ Invoke(h) \/ Encode(h) \/ LockForFree(h)
        PROVE  UNCHANGED <<holder, made>>
    <2>1. /\ UNCHANGED <<ctx, made>> /\ Holding(h)
          /\ \E p \in {"decode", "invoke", "encode", "free", "push"} : pc' = [pc EXCEPT ![h] = p]
      <3>1. CASE ResetContext(h) \/ PadArguments(h) \/ LockForFree(h)
          BY <3>1 DEF ResetContext, PadArguments, LockForFree, poolVars, Holding
      <3>2. CASE Decode(h)
          BY <3>2 DEF Decode, poolVars, Holding
      <3>3. CASE Invoke(h)
          BY <3>3 DEF Invoke, poolVars, Holding
      <3>4. CASE Encode(h)
          BY <3>4 DEF Encode, poolVars, Holding
      <3> QED BY <1>5, <3>1, <3>2, <3>3, <3>4
    <2> QED BY <1>0, <1>1, <2>1 DEF Holding
  <1>6. ASSUME NEW h \in Handlers, NewContext(h) PROVE Lease!Next
    <2>1. PICK c \in Contexts \ made : ctx' = [ctx EXCEPT ![h] = c] /\ made' = made \cup {c}
        BY <1>6 DEF NewContext
    <2>2. pc[h] = "unlink" /\ ctx[h] = Nil /\ pc' = [pc EXCEPT ![h] = "decode"]
        BY <1>6 DEF NewContext
    <2>3. made \subseteq Held /\ c \notin Held
        BY <2>1, <2>2, HeadIsPooled DEF MutexInv, ExclusiveContext, Held
    <2> QED BY <1>0, <1>2, <2>1, <2>2, <2>3 DEF Holding
  <1>7. ASSUME NEW h \in Handlers, Unlink(h) PROVE Lease!Next
    <2>1. /\ UNCHANGED <<ctx, made>> /\ pc[h] = "unlink" /\ ctx[h] # Nil
          /\ pc' = [pc EXCEPT ![h] = "reset"]
        BY <1>7 DEF Unlink
    <2>2. ctx[h] \in Contexts /\ ctx[h] \in made /\ ctx[h] \notin Held
        BY <1>0, <2>1, HeadIsPooled DEF MutexInv
    <2> QED BY <1>0, <1>2, <2>1, <2>2 DEF Holding
  <1>8. ASSUME NEW h \in Handlers, Push(h) PROVE Lease!Next
    <2>1. /\ UNCHANGED <<ctx, made>> /\ pc[h] = "push" /\ pc' = [pc EXCEPT ![h] = "answer"]
        BY <1>8 DEF Push
    <2>2. /\ Holding(h) /\ ~Holding(h)' /\ ctx[h] \in Contexts
          /\ \A g \in Handlers : g # h => Holding(g)' = Holding(g)
        BY <1>0, <2>1 DEF Holding, HolderInv
    <2>3. holder[ctx[h]] = h
        BY <2>2 DEF HolderIs
    <2>4. ASSUME NEW d \in Contexts PROVE holder'[d] = IF d = ctx[h] THEN Nil ELSE holder[d]
      <3>1. CASE d = ctx[h]
        <4>1. \A g \in Handlers : Holding(g) /\ ctx[g] = d => g = h
            BY <2>2, <3>1 DEF ExclusiveContext
        <4>2. d \notin Held'
            BY <2>1, <2>2, <4>1 DEF Held
        <4> QED BY <3>1, <4>2 DEF HolderIs
      <3>2. CASE d # ctx[h] /\ holder[d] \in Handlers
          BY <2>1, <2>2, <3>2 DEF HolderIs
      <3>3. CASE d # ctx[h] /\ holder[d] = Nil
        <4>1. d \notin Held
            BY <3>3 DEF HolderIs
        <4>2. d \notin Held'
            BY <2>1, <2>2, <4>1 DEF Held
        <4> QED BY <3>3, <4>2 DEF HolderIs
      <3> QED BY <1>a, <3>1, <3>2, <3>3
    <2>5. holder' = [holder EXCEPT ![ctx[h]] = Nil]
        BY <1>a, <2>4
    <2> QED BY <2>1, <2>2, <2>3, <2>5 DEF Lease!Next, Lease!Give
  <1> QED BY <1>3, <1>4, <1>5, <1>6, <1>7, <1>8 DEF Next, Serve

\* The free list of Rpc implements ContextLease.
THEOREM Refinement == Spec => LeaseSpec
  <1>1. Init => Lease!Init
      BY NilAssumption DEF Init, Lease!Init, holder, Holding
  <1>2. IInv => HolderIs
      BY HolderValue DEF IInv
  <1>3. IInv /\ HolderIs /\ HolderIs' /\ [Next]_vars => [Lease!Next]_<<holder, made>>
      BY LeaseStep
  <1> QED BY <1>1, <1>2, <1>3, Invariance, PTL DEF Spec, LeaseSpec, Lease!Spec
=============================================================================
