-------------------------- MODULE LiveServerProofs --------------------------
(***************************************************************************)
(* Theorems about LiveServer, for any number of items, signals and crashes *)
(* and any keys.                                                           *)
(***************************************************************************)
EXTENDS LiveServer, SequenceTheorems, TLAPS

AckStages == {"none", "post", "sleep", "done", "gaveup", "crashed"}

PublishTypes ==
    /\ publish \in [Items -> {"new", "admitted", "dropped", "200", "400", "401", "404", "503"}]
    /\ ack \in [Items -> AckStages]
    /\ tries \in [Items -> 0..10]
    /\ posts \in [Items -> [ok : Nat, failed : Nat]]
    /\ slept \in [Items -> Nat]

\* Between two posts an item has failed once for each try, and once more while
\* the pause after a failure lasts.
AckAccount(i) ==
    /\ publish[i] = "200" <=> ack[i] # "none"
    /\ ack[i] = "none" => tries[i] = 0
    /\ ack[i] \in {"none", "post", "done"} => posts[i].failed = tries[i]
    /\ ack[i] \in {"sleep", "gaveup"} => posts[i].failed = tries[i] + 1
    /\ ack[i] = "crashed" => posts[i].failed \in {tries[i], tries[i] + 1}
    /\ ack[i] = "sleep" => tries[i] < LastTry
    /\ ack[i] = "gaveup" => tries[i] = LastTry
    /\ posts[i].ok = IF ack[i] = "done" THEN 1 ELSE 0
    /\ slept[i] + 1 = 2 ^ tries[i]

AckInv == PublishTypes /\ \A i \in Items : AckAccount(i)

SignalTypes ==
    /\ handling \in Seq(BOOLEAN) /\ Len(handling) <= 1
    /\ ch \in Seq(BOOLEAN) /\ Len(ch) <= 1
    /\ applying \in Seq(BOOLEAN) /\ Len(applying) <= 1

----------------------------------------------------------------------------
(* Publishing.                                                             *)

\* Below the last try the next power is twice this one.
LEMMA PowerDoubles ==
    ASSUME NEW t \in 0..9
    PROVE  2 ^ (t + 1) = 2 * 2 ^ t /\ 2 ^ t \in Nat /\ powerOfTwos[t] = 2 ^ t
  <1> DEFINE P(n) == 2 ^ n
  <1>1. P(0) = 1 /\ P(1) = 2 /\ P(2) = 4 /\ P(3) = 8 /\ P(4) = 16 /\ P(5) = 32
    OBVIOUS
  <1>2. P(6) = 64 /\ P(7) = 128 /\ P(8) = 256 /\ P(9) = 512 /\ P(10) = 1024
    OBVIOUS
  <1>3. powerOfTwos[t] = P(t)
    BY DEF powerOfTwos
  <1> HIDE DEF P
  <1>4. t \in {0, 1, 2, 3, 4, 5, 6, 7, 8, 9}
    OBVIOUS
  <1>5. P(t + 1) = 2 * P(t) /\ P(t) \in Nat
    BY <1>1, <1>2, <1>4
  <1> QED
    BY <1>3, <1>5 DEF P

\* Nothing has been accepted or sent at the start.
LEMMA InitAck == Init => AckInv
  <1> SUFFICES ASSUME Init PROVE AckInv
    OBVIOUS
  <1>1. PublishTypes
    BY DEF Init, PublishTypes, AckStages
  <1>2. ASSUME NEW i \in Items PROVE AckAccount(i)
    <2>1. 0 + 1 = 2 ^ 0
      OBVIOUS
    <2> QED
      BY <2>1 DEF Init, AckAccount
  <1> QED
    BY <1>1, <1>2 DEF AckInv

\* A post is counted under its answer and decides how the goroutine goes on.
LEMMA PostCounts ==
    ASSUME AckInv, NEW i \in Items, PostAck(i)
    PROVE  /\ PublishTypes' /\ AckAccount(i)'
           /\ \A j \in Items \ {i} : posts'[j] = posts[j] /\ ack'[j] = ack[j]
  <1> USE DEF AckInv, PublishTypes
  <1>1. PICK r \in PostResults :
          /\ posts' = [posts EXCEPT ![i][r] = @ + 1]
          /\ ack' = [ack EXCEPT ![i] = IF r = "ok" THEN "done"
                                       ELSE IF tries[i] = LastTry THEN "gaveup" ELSE "sleep"]
    BY DEF PostAck
  <1>2. UNCHANGED <<publish, tries, slept>> /\ ack[i] = "post"
    BY DEF PostAck
  <1>3. AckAccount(i) /\ posts[i] \in [ok : Nat, failed : Nat] /\ tries[i] \in 0..10
    OBVIOUS
  <1>a. CASE r = "ok"
    <2>1. posts' = [posts EXCEPT ![i]["ok"] = posts[i]["ok"] + 1]
      BY <1>1, <1>a
    <2>2. ack' = [ack EXCEPT ![i] = "done"]
      BY <1>1, <1>a
    <2>3. posts'[i].ok = posts[i].ok + 1 /\ posts'[i].failed = posts[i].failed
      BY <1>3, <2>1
    <2> QED
      BY <1>2, <1>3, <2>1, <2>2, <2>3 DEF AckAccount, AckStages
  <1>b. CASE r = "failed"
    <2>1. posts' = [posts EXCEPT ![i]["failed"] = posts[i]["failed"] + 1]
      BY <1>1, <1>b
    <2>2. ack' = [ack EXCEPT ![i] = IF tries[i] = LastTry THEN "gaveup" ELSE "sleep"]
      BY <1>1, <1>b
    <2>3. posts'[i].ok = posts[i].ok /\ posts'[i].failed = posts[i].failed + 1
      BY <1>3, <2>1
    <2> QED
      BY <1>2, <1>3, <2>1, <2>2, <2>3 DEF AckAccount, AckStages, LastTry
  <1> QED
    BY <1>1, <1>a, <1>b DEF PostResults

\* Every step keeps the account of every item.
LEMMA NextAck == AckInv /\ [Next]_vars => AckInv'
  <1> SUFFICES ASSUME AckInv, [Next]_vars PROVE AckInv'
    OBVIOUS
  <1> USE DEF AckInv
  <1>a. ASSUME PublishTypes', \A j \in Items : AckAccount(j)'
        PROVE  AckInv'
    BY <1>a
  <1>b. ASSUME UNCHANGED publishVars PROVE AckInv'
    BY <1>b DEF publishVars, PublishTypes, AckAccount
  <1>1. ASSUME NEW i \in Items, Admit(i) PROVE AckInv'
    BY <1>1 DEF Admit, PublishTypes, AckAccount
  <1>2. ASSUME NEW i \in Items, HandlePublish(i) PROVE AckInv'
    <2>1. PICK request \in Requests :
            /\ publish' = [publish EXCEPT ![i] = Reply(request)]
            /\ ack' = [ack EXCEPT ![i] = IF Reply(request) = "200" THEN "post" ELSE "none"]
      BY <1>2 DEF HandlePublish
    <2>2. Reply(request) \in {"404", "400", "401", "200"}
      BY DEF Reply
    <2>3. ack[i] = "none"
      BY <1>2 DEF HandlePublish, AckAccount
    <2>4. UNCHANGED <<tries, posts, slept>>
      BY <1>2 DEF HandlePublish
    <2>5. PublishTypes'
      BY <2>1, <2>2, <2>4 DEF PublishTypes, AckStages
    <2>6. ASSUME NEW j \in Items PROVE AckAccount(j)'
      BY <2>1, <2>2, <2>3, <2>4 DEF PublishTypes, AckAccount
    <2> QED
      BY <2>5, <2>6
  <1>3. ASSUME NEW i \in Items, PostAck(i) PROVE AckInv'
    <2>1. UNCHANGED <<publish, tries, slept>>
      BY <1>3 DEF PostAck
    <2>2. ASSUME NEW j \in Items \ {i} PROVE AckAccount(j)'
      BY <1>3, <2>1, PostCounts DEF AckAccount
    <2> QED
      BY <1>3, <2>2, PostCounts
  <1>4. ASSUME NEW i \in Items, WakeAck(i) PROVE AckInv'
    <2>1. tries[i] \in 0..9 /\ slept[i] \in Nat /\ slept[i] + 1 = 2 ^ tries[i]
      BY <1>4 DEF WakeAck, PublishTypes, AckAccount, LastTry
    <2>2. slept[i] + powerOfTwos[tries[i]] + 1 = 2 ^ (tries[i] + 1)
      <3> DEFINE t == tries[i]
      <3>1. t \in 0..9 /\ slept[i] \in Nat /\ slept[i] + 1 = 2 ^ t
        BY <2>1
      <3> HIDE DEF t
      <3>2. 2 ^ (t + 1) = 2 * 2 ^ t /\ 2 ^ t \in Nat /\ powerOfTwos[t] = 2 ^ t
        BY <3>1, PowerDoubles
      <3>3. slept[i] + powerOfTwos[t] + 1 = 2 ^ (t + 1)
        BY <3>1, <3>2
      <3> QED
        BY <3>3 DEF t
    <2>3. PublishTypes'
      BY <1>4, <2>1, PowerDoubles DEF WakeAck, PublishTypes, AckStages
    <2>4. ASSUME NEW j \in Items PROVE AckAccount(j)'
      BY <1>4, <2>1, <2>2 DEF WakeAck, PublishTypes, AckAccount
    <2> QED
      BY <2>3, <2>4
  <1>5. CASE Crash
    <2>1. PublishTypes'
      BY <1>5 DEF Crash, PublishTypes, AckStages
    <2>2. ASSUME NEW j \in Items PROVE AckAccount(j)'
      BY <1>5 DEF Crash, PublishTypes, AckAccount
    <2> QED
      BY <2>1, <2>2
  <1>6. CASE \/ \E enable \in BOOLEAN : OperatorSignals(enable) \/ DeliverSignal(enable)
             \/ SignalHandler \/ TakeSignal \/ SetMaintenance
    BY <1>6, <1>b DEF OperatorSignals, DeliverSignal, SignalHandler, TakeSignal, SetMaintenance
  <1>7. CASE (\E at \in {"live", "redirector"}, path \in Paths : Ask(at, path)) \/ Answer \/ RedirectAnswer
    BY <1>7, <1>b DEF Ask, Answer, RedirectAnswer
  <1>8. CASE UNCHANGED vars
    BY <1>8, <1>b DEF vars
  <1> QED
    BY <1>1, <1>2, <1>3, <1>4, <1>5, <1>6, <1>7, <1>8 DEF Next, Work

\* However often the upstream fails and the process crashes, an accepted item is
\* acknowledged by at most eleven posts, at most one of which succeeded and is
\* then the last, and the pauses between them double.
THEOREM AcksAreBounded == Spec => []AcksBounded
  <1>1. AckInv => AcksBounded
    <2> SUFFICES ASSUME AckInv, NEW i \in Items
                 PROVE  /\ posts[i].ok + posts[i].failed <= 11
                        /\ posts[i].ok <= 1
                        /\ posts[i].ok = 1 => ack[i] = "done"
                        /\ posts[i].ok + posts[i].failed > 0 => publish[i] = "200"
                        /\ slept[i] + 1 = 2 ^ tries[i]
                        /\ ack[i] = "gaveup" => posts[i].failed = 11 /\ slept[i] = 1023
      BY DEF AcksBounded
    <2>1. AckAccount(i) /\ posts[i] \in [ok : Nat, failed : Nat] /\ tries[i] \in 0..10
            /\ slept[i] \in Nat /\ ack[i] \in AckStages
      BY DEF AckInv, PublishTypes
    <2>2. 2 ^ 10 = 1024
      OBVIOUS
    <2>3. ack[i] = "gaveup" => slept[i] + 1 = 2 ^ 10
      BY <2>1 DEF AckAccount, LastTry
    <2> QED
      BY <2>1, <2>2, <2>3 DEF AckAccount, AckStages, LastTry
  <1> QED
    BY InitAck, NextAck, <1>1, PTL DEF Spec

----------------------------------------------------------------------------
(* Maintenance.                                                            *)

\* The last of two sequences after one another.
LEMMA LastOfConcat ==
    ASSUME NEW S, NEW s \in Seq(S), NEW t \in Seq(S)
    PROVE  /\ s \o t \in Seq(S)
           /\ t = <<>> => s \o t = s
           /\ t # <<>> => s \o t # <<>> /\ (s \o t)[Len(s \o t)] = t[Len(t)]
  <1>1. t # <<>> => Len(t) \in Nat \ {0}
    BY EmptySeq
  <1> QED
    BY <1>1, ConcatProperties, ConcatEmptySeq, EmptySeq

coming == applying \o ch \o handling

SignalInv == SignalTypes /\ SignalsInOrder

\* The last signal on its way is the one that was asked for.
LEMMA ComingIs ==
    SignalsInOrder <=> wanted = IF coming = <<>> THEN inMaintenance ELSE coming[Len(coming)]
  BY DEF SignalsInOrder, coming

\* Taking a signal on leaves what is coming as it is.
LEMMA HandOn ==
    ASSUME SignalTypes, SignalHandler \/ TakeSignal
    PROVE  SignalTypes' /\ coming' = coming /\ UNCHANGED <<wanted, inMaintenance>>
  <1> DEFINE S == BOOLEAN
  <1>0. handling \in Seq(S) /\ ch \in Seq(S) /\ applying \in Seq(S)
    BY DEF SignalTypes
  <1>e. <<>> \in Seq(S) /\ Len(<<>>) = 0
    BY EmptySeq
  <1>1. CASE SignalHandler
    <2>1. ch = <<>> /\ ch' = handling /\ handling' = <<>> /\ applying' = applying
      BY <1>1 DEF SignalHandler
    <2> HIDE DEF S
    <2>2. applying \o ch = applying /\ (applying \o handling) \o <<>> = applying \o handling
      BY <1>0, <2>1, ConcatProperties, ConcatEmptySeq
    <2> QED
      BY <1>1, <1>0, <1>e, <2>1, <2>2 DEF SignalHandler, SignalTypes, coming, S
  <1>2. CASE TakeSignal
    <2>1. applying = <<>> /\ applying' = ch /\ ch' = <<>> /\ handling' = handling
      BY <1>2 DEF TakeSignal
    <2> HIDE DEF S
    <2>2. applying \o ch = ch /\ ch \o <<>> = ch
      BY <1>0, <2>1, ConcatEmptySeq
    <2> QED
      BY <1>2, <1>0, <1>e, <2>1, <2>2 DEF TakeSignal, SignalTypes, coming, S
  <1> QED
    BY <1>1, <1>2

\* Every step keeps the order of the signals.
LEMMA NextSignals == SignalInv /\ [Next]_vars => SignalInv'
  <1> SUFFICES ASSUME SignalInv, [Next]_vars PROVE SignalInv'
    OBVIOUS
  <1> DEFINE S == BOOLEAN
  <1>0. handling \in Seq(S) /\ ch \in Seq(S) /\ applying \in Seq(S)
    BY DEF SignalInv, SignalTypes
  <1>e. <<>> \in Seq(S) /\ Len(<<>>) = 0
    BY EmptySeq
  <1> HIDE DEF S
  <1>c. applying \o ch \in Seq(S) /\ coming \in Seq(S)
    BY <1>0, ConcatProperties DEF coming
  <1>u. ASSUME UNCHANGED <<handling, ch, applying, wanted, inMaintenance>> PROVE SignalInv'
    BY <1>u DEF SignalInv, SignalTypes, SignalsInOrder
  <1>1. ASSUME NEW enable \in BOOLEAN, DeliverSignal(enable) PROVE SignalInv'
    <2>1. handling' = <<enable>> /\ wanted' = enable /\ UNCHANGED <<ch, applying>>
      BY <1>1 DEF DeliverSignal
    <2>2. handling' \in Seq(S) /\ Len(handling') = 1 /\ handling'[1] = enable /\ handling' # <<>>
      BY <2>1, EmptySeq DEF S
    <2>3. coming' # <<>> /\ coming'[Len(coming')] = enable
      BY <1>0, <1>c, <2>1, <2>2, LastOfConcat DEF coming
    <2>4. SignalTypes'
      BY <2>1, <2>2 DEF SignalInv, SignalTypes, S
    <2> QED
      BY <2>1, <2>3, <2>4 DEF SignalInv, SignalsInOrder, coming
  <1>2. CASE SignalHandler \/ TakeSignal
    <2>1. SignalTypes' /\ coming' = coming /\ UNCHANGED <<wanted, inMaintenance>>
      BY <1>2, HandOn DEF SignalInv
    <2> QED
      BY <2>1 DEF SignalInv, SignalsInOrder, coming
  <1>3. CASE SetMaintenance
    <2>1. applying # <<>> /\ inMaintenance' = applying[1] /\ applying' = <<>> /\ UNCHANGED <<handling, ch, wanted>>
      BY <1>3 DEF SetMaintenance
    <2>2. applying' \o ch' = ch /\ coming' = ch \o handling /\ coming' \in Seq(S)
      BY <1>0, <2>1, ConcatEmptySeq, ConcatProperties DEF coming
    <2>3. Len(applying) = 1
      <3> DEFINE n == Len(applying)
      <3>1. n \in Nat /\ n # 0
        BY <1>0, <2>1, EmptySeq
      <3>2. n <= 1
        BY DEF SignalInv, SignalTypes
      <3> HIDE DEF n
      <3>3. n = 1
        BY <3>1, <3>2
      <3> QED
        BY <3>3 DEF n
    <2>4. coming = applying \o (ch \o handling)
      BY <1>0, ConcatAssociative, SMTT(30) DEF coming
    <2>5. wanted = IF coming = <<>> THEN inMaintenance ELSE coming[Len(coming)]
      BY ComingIs DEF SignalInv
    <2>6. wanted' = IF coming' = <<>> THEN inMaintenance' ELSE coming'[Len(coming')]
      <3>1. CASE coming' = <<>>
        <4>1. coming = applying
          BY <1>0, <2>2, <2>4, <3>1, ConcatEmptySeq
        <4> QED
          BY <2>1, <2>3, <2>5, <3>1, <4>1
      <3>2. CASE coming' # <<>>
        <4>1. ch \o handling \in Seq(S)
          BY <2>2
        <4>2. coming # <<>> /\ coming[Len(coming)] = coming'[Len(coming')]
          BY <1>0, <2>2, <2>4, <3>2, <4>1, LastOfConcat
        <4> QED
          BY <2>1, <2>5, <3>2, <4>2
      <3> QED
        BY <3>1, <3>2
    <2>7. SignalTypes'
      BY <2>1, <1>e DEF SignalInv, SignalTypes, S
    <2> QED
      BY <2>6, <2>7 DEF SignalInv, SignalsInOrder, coming
  <1>4. CASE Crash
    <2>1. handling' = <<>> /\ ch' = <<>> /\ applying' = <<>> /\ inMaintenance' = Maintenance /\ wanted' = Maintenance
      BY <1>4 DEF Crash
    <2>2. coming' = <<>>
      BY <2>1, <1>e, ConcatEmptySeq DEF coming
    <2> QED
      BY <2>1, <2>2, <1>e DEF SignalInv, SignalTypes, SignalsInOrder, coming, S
  <1>8. CASE \E enable \in BOOLEAN : OperatorSignals(enable)
    BY <1>8, <1>u DEF OperatorSignals
  <1>5. CASE \E i \in Items : Admit(i) \/ HandlePublish(i) \/ Work(i)
    BY <1>5, <1>u DEF Admit, HandlePublish, Work, PostAck, WakeAck, modeVars
  <1>6. CASE (\E at \in {"live", "redirector"}, path \in Paths : Ask(at, path)) \/ Answer \/ RedirectAnswer
    BY <1>6, <1>u DEF Ask, Answer, RedirectAnswer, modeVars
  <1>7. CASE UNCHANGED vars
    BY <1>7, <1>u DEF vars, modeVars
  <1> QED
    BY <1>1, <1>2, <1>3, <1>4, <1>5, <1>6, <1>7, <1>8 DEF Next

\* However many signals are delivered while others are on their way, and whenever
\* the process crashes, the last one delivered is the one that will be in force.
THEOREM SignalsKeepOrder == Spec => []SignalsInOrder
  <1>1. Init => SignalInv
    <2> SUFFICES ASSUME Init PROVE SignalInv
      OBVIOUS
    <2>1. handling = <<>> /\ ch = <<>> /\ applying = <<>> /\ inMaintenance = Maintenance /\ wanted = Maintenance
      BY DEF Init
    <2>2. <<>> \in Seq(BOOLEAN) /\ Len(<<>>) = 0 /\ coming = <<>>
      BY <2>1, EmptySeq, ConcatEmptySeq DEF coming
    <2> QED
      BY <2>1, <2>2 DEF SignalInv, SignalTypes, SignalsInOrder, coming
  <1>2. SignalInv => SignalsInOrder
    BY DEF SignalInv
  <1> QED
    BY <1>1, <1>2, NextSignals, PTL DEF Spec
=============================================================================
