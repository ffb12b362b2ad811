---------------------------- MODULE LoaderProofs ----------------------------
(***************************************************************************)
(* Theorems about Loader, for a bar of any number of steps above four and  *)
(* however often a browser announces a script.                             *)
(***************************************************************************)
EXTENDS Loader, TLAPS

Types ==
    /\ bar \in [target : 1..width, finishReq : Int, finished : BOOLEAN]
    /\ curwidth \in 0..width
    /\ repeats \in BOOLEAN
    /\ css \in {"upgrade", "loading", "visible", "hidden", "seen"}
    /\ script \in [Scripts -> {"absent", "loading", "loaded"}]
    /\ events \in [Scripts -> Nat]
    /\ runs \in Nat
    /\ screen \in {"shown", "upgrade", "focused", "broken"}

\* Only the first announcement of a script counts.
first(s) == IF events[s] = 0 THEN 0 ELSE 1

\* Until finish ends the loading, the bar has been moved at most by Google
\* Analytics and by the client; test.js comes later.
Unfinished ==
    ~bar.finished =>
        /\ bar.finishReq = 1
        /\ script["test"] = "absent"
        /\ bar.target = 1 + first("ga") + 2 * first("client")

IInv == Types /\ Unfinished /\ curwidth <= bar.target /\ runs = first("client") /\ NeverStalls

----------------------------------------------------------------------------
(* The bar.                                                                *)

Bars == [target : 1..width, finishReq : Int, finished : BOOLEAN]

\* incr moves the bar on, up to its end, and does nothing else.
LEMMA IncrMoves ==
    ASSUME NEW b \in Bars
    PROVE  /\ incr(b) \in Bars
           /\ incr(b).target >= b.target
           /\ b.target < width => incr(b).target = b.target + 1
           /\ incr(b).finishReq = b.finishReq /\ incr(b).finished = b.finished
  BY WidthAssumption DEF incr, Bars

\* finish never moves the bar back; the one that was asked for fills it.
LEMMA FinishMoves ==
    ASSUME NEW b \in Bars
    PROVE  /\ finish(b) \in Bars
           /\ finish(b).target >= b.target
           /\ b.finished \/ b.finishReq = 1 => finish(b).finished
  <1> DEFINE less == [b EXCEPT !.finishReq = b.finishReq - 1]
  <1>1. less \in Bars /\ less.target = b.target /\ less.finished = b.finished /\ less.finishReq = b.finishReq - 1
    BY DEF Bars
  <1>2. finish(b) = IF less.finishReq = 0 THEN [target |-> width, finishReq |-> less.finishReq, finished |-> TRUE] ELSE incr(less)
    BY DEF finish
  <1> HIDE DEF less
  <1>3. CASE less.finishReq = 0
    <2>1. finish(b) = [target |-> width, finishReq |-> less.finishReq, finished |-> TRUE]
      BY <1>2, <1>3
    <2>2. finish(b) \in Bars
      BY <1>1, <2>1, WidthAssumption DEF Bars
    <2>3. finish(b).target = width /\ finish(b).finished = TRUE
      BY <2>1
    <2> QED
      BY <1>1, <2>2, <2>3, WidthAssumption DEF Bars
  <1>4. CASE less.finishReq # 0
    <2>1. finish(b) = incr(less) /\ b.finishReq # 1
      BY <1>1, <1>2, <1>4 DEF Bars
    <2> QED
      BY <1>1, <2>1, IncrMoves
  <1> QED
    BY <1>3, <1>4

----------------------------------------------------------------------------
(* The invariant.                                                          *)

\* The page as its first script leaves it.
LEMMA InitInv == Init => IInv
  <1> SUFFICES ASSUME Init PROVE IInv
    OBVIOUS
  <1>1. script \in [Scripts -> {"absent", "loading"}] /\ script["test"] = "absent"
    <2>1. PICK ga, client \in {"absent", "loading"} :
            script = [[s \in Scripts |-> "absent"] EXCEPT !["ga"] = ga, !["client"] = client]
      BY DEF Init
    <2> QED
      BY <2>1 DEF Scripts
  <1>2. /\ curwidth \in {0, 1} /\ repeats \in BOOLEAN /\ css \in {"upgrade", "loading"}
        /\ screen \in {"upgrade", "shown"} /\ NeverStalls
    BY DEF Init, NeverStalls
  <1>3. events = [s \in Scripts |-> 0] /\ runs = 0 /\ bar = [target |-> 1, finishReq |-> 1, finished |-> FALSE]
    BY DEF Init
  <1>4. first("ga") = 0 /\ first("client") = 0
    BY <1>3 DEF first, Scripts
  <1>5. Types
    BY <1>1, <1>2, <1>3, WidthAssumption DEF Types
  <1>6. Unfinished
    BY <1>1, <1>3, <1>4 DEF Unfinished
  <1> QED
    BY <1>2, <1>3, <1>4, <1>5, <1>6 DEF IInv

\* A call of progress: the bar is full only when the loading has ended.
LEMMA NextProgress ==
    ASSUME IInv, progress
    PROVE  IInv'
  <1>1. bar \in Bars /\ curwidth \in 0..width /\ curwidth <= bar.target
    BY DEF IInv, Types, Bars
  <1>2. curwidth' = (IF bar.target > curwidth THEN curwidth + 1 ELSE curwidth) /\ UNCHANGED <<bar, css, script, events, runs>>
    BY DEF progress
  <1>3. curwidth' \in 0..width /\ curwidth' <= bar.target
    <2> DEFINE t == bar.target
    <2>1. t \in 1..width
      BY <1>1 DEF Bars
    <2> HIDE DEF t
    <2>2. curwidth' = IF t > curwidth THEN curwidth + 1 ELSE curwidth
      BY <1>2 DEF t
    <2>3. curwidth' \in 0..width /\ curwidth' <= t
      BY <1>1, <2>1, <2>2, WidthAssumption DEF t
    <2> QED
      BY <2>3 DEF t
  <1>4. CASE curwidth' < width
    BY <1>2, <1>3, <1>4 DEF progress, IInv, Types, Unfinished, NeverStalls, first
  <1>5. CASE ~(curwidth' < width)
    <2>1. bar.target = width
      BY <1>1, <1>3, <1>5, WidthAssumption DEF Bars
    <2>2. bar.finished
      <3>1. first("ga") \in {0, 1} /\ first("client") \in {0, 1}
        BY DEF first
      <3> QED
        BY <2>1, <3>1, WidthAssumption DEF IInv, Unfinished
    <2>3. repeats' = FALSE /\ screen' \in {"focused", "broken"}
      BY <1>5, <2>2 DEF progress
    <2> QED
      BY <1>2, <1>3, <2>3 DEF IInv, Types, Unfinished, NeverStalls, first
  <1> QED
    BY <1>4, <1>5

\* The stylesheet arrives, or is seen.
LEMMA NextStylesheet ==
    ASSUME IInv, CSSArrives \/ check
    PROVE  IInv'
  <1>1. CASE CSSArrives
    BY <1>1 DEF CSSArrives, IInv, Types, Unfinished, NeverStalls, first
  <1>2. CASE check
    <2>1. bar \in Bars /\ css' = "seen" /\ bar' = finish(bar)
      BY <1>2 DEF check, IInv, Types, Bars
    <2>2. bar' \in Bars /\ bar'.target >= bar.target /\ bar'.finished
      BY <2>1, FinishMoves DEF IInv, Unfinished
    <2>3. curwidth <= bar'.target
      BY <2>1, <2>2 DEF IInv, Types, Bars
    <2> QED
      BY <1>2, <2>1, <2>2, <2>3 DEF check, IInv, Types, Unfinished, NeverStalls, first, Bars
  <1> QED
    BY <1>1, <1>2

\* A script is announced.
LEMMA NextScript ==
    ASSUME IInv, NEW s \in Scripts, JS(s)
    PROVE  IInv'
  <1>1. /\ bar \in Bars /\ curwidth <= bar.target /\ runs = first("client") /\ events \in [Scripts -> Nat]
        /\ script \in [Scripts -> {"absent", "loading", "loaded"}] /\ Unfinished /\ curwidth \in 0..width
    BY DEF IInv, Types, Bars
  <1>2. script[s] # "absent" /\ events' = [events EXCEPT ![s] = events[s] + 1] /\ UNCHANGED <<curwidth, repeats, css, screen>>
    BY DEF JS
  <1>3. first(s)' = 1 /\ \A r \in Scripts \ {s} : first(r)' = first(r)
    <2>1. events[s] \in Nat /\ events'[s] = events[s] + 1 /\ \A r \in Scripts \ {s} : events'[r] = events[r]
      BY <1>1, <1>2
    <2> QED
      BY <2>1 DEF first
  <1>4. events' \in [Scripts -> Nat]
    BY <1>1, <1>2
  <1>5. CASE events[s] > 0
    <2>1. first(s) = 1 /\ UNCHANGED <<bar, script, runs>>
      BY <1>1, <1>5 DEF JS, first
    <2>2. \A r \in Scripts : first(r)' = first(r)
      BY <1>3, <2>1
    <2> QED
      BY <1>2, <1>4, <2>1, <2>2 DEF IInv, Types, Unfinished, NeverStalls, Scripts
  <1>6. CASE ~(events[s] > 0) /\ s = "client"
    <2>1. run /\ first("client") = 0 /\ runs' = 1
      BY <1>1, <1>6 DEF JS, run, first
    <2> DEFINE moved == incr(incr(bar))
    <2>2. /\ moved \in Bars /\ moved.target >= bar.target
          /\ moved.finishReq = bar.finishReq /\ moved.finished = bar.finished
          /\ bar.target < width - 1 => moved.target = bar.target + 2
      <3>1. /\ incr(bar) \in Bars /\ incr(bar).target >= bar.target
            /\ bar.target < width => incr(bar).target = bar.target + 1
            /\ incr(bar).finishReq = bar.finishReq /\ incr(bar).finished = bar.finished
        BY <1>1, IncrMoves
      <3>2. /\ moved \in Bars /\ moved.target >= incr(bar).target
            /\ incr(bar).target < width => moved.target = incr(bar).target + 1
            /\ moved.finishReq = incr(bar).finishReq /\ moved.finished = incr(bar).finished
        BY <3>1, IncrMoves
      <3> HIDE DEF moved
      <3>3. bar.target \in 1..width /\ incr(bar).target \in 1..width /\ moved.target \in 1..width
        BY <1>1, <3>1, <3>2 DEF Bars
      <3> QED
        BY <3>1, <3>2, <3>3, WidthAssumption
    <2> HIDE DEF moved
    <2>3. \/ bar' = moved /\ script' = [script EXCEPT !["client"] = "loaded"]
          \/ bar' = finish(moved) /\ script' = [script EXCEPT !["client"] = "loaded", !["test"] = "loading"]
      BY <2>1 DEF run, moved
    <2>4. bar' \in Bars /\ bar'.target >= bar.target
      <3>1. finish(moved) \in Bars /\ finish(moved).target >= moved.target
        BY <2>2, FinishMoves
      <3>2. bar.target \in Int /\ moved.target \in Int /\ finish(moved).target \in Int
        BY <1>1, <2>2, <3>1, WidthAssumption DEF Bars
      <3> QED
        BY <2>2, <2>3, <3>1, <3>2
    <2>5. script' \in [Scripts -> {"absent", "loading", "loaded"}]
      BY <1>1, <2>3
    <2>6. Unfinished'
      <3>1. SUFFICES ASSUME ~bar'.finished
                     PROVE  /\ bar'.finishReq = 1 /\ script'["test"] = "absent"
                            /\ bar'.target = 1 + first("ga")' + 2 * first("client")'
        BY DEF Unfinished
      <3>2. moved.finished \/ moved.finishReq = 1 => finish(moved).finished
        BY <2>2, FinishMoves
      <3>3. bar.finished \/ bar.finishReq = 1
        BY <1>1 DEF Unfinished
      <3>4. bar' = moved /\ script' = [script EXCEPT !["client"] = "loaded"]
        BY <2>2, <2>3, <3>1, <3>2, <3>3
      <3>5. ~bar.finished
        BY <2>2, <3>1, <3>4
      <3>6. first("ga") \in {0, 1}
        BY DEF first
      <3>7. bar.target = 1 + first("ga") /\ bar.finishReq = 1 /\ script["test"] = "absent"
        BY <1>1, <2>1, <3>5, <3>6 DEF Unfinished
      <3>8. bar.target < width - 1
        BY <3>6, <3>7, WidthAssumption
      <3>9. first("ga")' = first("ga") /\ first("client")' = 1
        BY <1>3, <1>6 DEF Scripts
      <3>10. script'["test"] = "absent"
        BY <1>1, <3>4, <3>7 DEF Scripts
      <3>11. bar'.target = bar.target + 2 /\ bar'.finishReq = 1
        BY <2>2, <3>4, <3>7, <3>8
      <3> QED
        BY <3>6, <3>7, <3>9, <3>10, <3>11
    <2>7. curwidth' <= bar'.target
      <3>1. bar.target \in Int /\ bar'.target \in Int
        BY <1>1, <2>4, WidthAssumption DEF Bars
      <3> QED
        BY <1>1, <1>2, <2>4, <3>1, WidthAssumption
    <2> QED
      BY <1>2, <1>3, <1>4, <1>6, <2>1, <2>4, <2>5, <2>6, <2>7 DEF IInv, Types, NeverStalls, Bars
  <1>7. CASE ~(events[s] > 0) /\ s # "client"
    <2>1. bar' = incr(bar) /\ script' = [script EXCEPT ![s] = "loaded"] /\ UNCHANGED runs
      BY <1>7 DEF JS
    <2>2. /\ bar' \in Bars /\ bar'.target >= bar.target
          /\ bar.target < width => bar'.target = bar.target + 1
          /\ bar'.finishReq = bar.finishReq /\ bar'.finished = bar.finished
      BY <1>1, <2>1, IncrMoves
    <2>3. script' \in [Scripts -> {"absent", "loading", "loaded"}]
      BY <1>1, <2>1
    <2>4. first(s) = 0 /\ first("client")' = first("client")
      BY <1>1, <1>3, <1>7 DEF first, Scripts
    <2>5. Unfinished'
      <3>1. SUFFICES ASSUME ~bar'.finished
                     PROVE  /\ bar'.finishReq = 1 /\ script'["test"] = "absent"
                            /\ bar'.target = 1 + first("ga")' + 2 * first("client")'
        BY DEF Unfinished
      <3>2. bar.finishReq = 1 /\ script["test"] = "absent" /\ bar.target = 1 + first("ga") + 2 * first("client")
        BY <1>1, <2>2, <3>1 DEF Unfinished
      <3>3. s = "ga"
        BY <1>2, <1>7, <3>2 DEF Scripts
      <3>4. first("client") \in {0, 1} /\ first("ga") = 0 /\ first("ga")' = 1
        BY <1>3, <2>4, <3>3 DEF first
      <3>5. bar.target < width
        BY <3>2, <3>4, WidthAssumption
      <3>6. script'["test"] = "absent"
        BY <1>1, <2>1, <3>2, <3>3 DEF Scripts
      <3> QED
        BY <2>2, <2>4, <3>2, <3>4, <3>5, <3>6
    <2>6. curwidth' <= bar'.target
      <3>1. bar.target \in Int /\ bar'.target \in Int
        BY <1>1, <2>2, WidthAssumption DEF Bars
      <3> QED
        BY <1>1, <1>2, <2>2, <3>1, WidthAssumption
    <2> QED
      BY <1>1, <1>2, <1>4, <2>1, <2>2, <2>3, <2>4, <2>5, <2>6 DEF IInv, Types, NeverStalls, Bars
  <1> QED
    BY <1>5, <1>6, <1>7

\* The invariant is inductive.
LEMMA NextInv == IInv /\ [Next]_vars => IInv'
  <1> SUFFICES ASSUME IInv, [Next]_vars PROVE IInv'
    OBVIOUS
  <1>1. CASE UNCHANGED vars
    BY <1>1 DEF vars, IInv, Types, Unfinished, NeverStalls, first
  <1> QED
    BY <1>1, NextProgress, NextStylesheet, NextScript DEF Next

\* So it holds in every state.
LEMMA Invariance == Spec => []IInv
  BY InitInv, NextInv, PTL DEF Spec

----------------------------------------------------------------------------
(* What it means.                                                          *)

\* However many steps the bar has, above the four that the scripts move it, it
\* never fills up before finish: while the loading screen is shown, a
\* timer will call progress again.
THEOREM BarNeverStalls == Spec => []NeverStalls
  <1>1. IInv => NeverStalls
    BY DEF IInv
  <1> QED
    BY <1>1, Invariance, PTL

\* espra.run is called once, however often the browser announces the client.
THEOREM ClientStartsOnce == Spec => []StartsOnce
  <1>1. IInv => StartsOnce
    BY DEF IInv, StartsOnce, first
  <1> QED
    BY <1>1, Invariance, PTL
=============================================================================
