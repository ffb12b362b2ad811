---------------------------- MODULE BuildProofs ----------------------------
(***************************************************************************)
(* Proofs about Build: a round never renders contents that are older than  *)
(* the files were when it began.                                           *)
(***************************************************************************)
EXTENDS Build, TLAPS

\* No file is from the future; began was seen on the file.
Clocked == \A f \in Files : mtime[f] <= clock /\ began[f] <= mtime[f]

\* The order of stat and read: what is in memory is at least as new as the time
\* it is cached with, and so will be what is about to be read.
CacheBehind ==
    /\ \A f \in Files : cache[f] <= contents[f]
    /\ ~Idle => looked.time <= mtime[looked.file]

\* A file that is gone, or came back during the round, binds nobody.
Forgotten == \A f \in Files \ present : began[f] = 0

\* The files this round is through with.
Handled(f) ==
    /\ f \notin todo
    /\ looked.file # f
    /\ f \in Templates => pc # "files"

Caught ==
    /\ pc \in {"files", "templates", "write", "close"} =>
         \A f \in present : Handled(f) => contents[f] >= began[f]
    /\ pc \in {"write", "close"} => todo = {} /\ Idle

RoundInv == Clocked /\ CacheBehind /\ Forgotten /\ Caught

IInv == Values /\ RoundInv

\* The initial states satisfy the invariant: no round has begun.
LEMMA InitInv == Init => IInv /\ Flags
  <1> SUFFICES ASSUME Init PROVE IInv /\ Flags
    OBVIOUS
  <1> USE DEF Init
  <1>1. Values
    BY BuildAssumption DEF Values, Time, Files, Nothing, NoFile
  <1>2. RoundInv
    BY DEF RoundInv, Clocked, CacheBehind, Forgotten, Caught, Nothing, NoFile, Idle, Files
  <1>3. Flags
    BY Zenon DEF Flags
  <1> QED
    BY <1>1, <1>2, <1>3 DEF IInv

\* The types of everything but the Boolean variables are kept by every step.
LEMMA NextValues == Values /\ [Next]_vars => Values'
  <1> SUFFICES ASSUME Values, [Next]_vars PROVE Values'
    OBVIOUS
  <1> USE BuildAssumption DEF Values, Time
  <1>1. ASSUME NEW f \in Files, Edit(f) PROVE Values'
    BY <1>1 DEF Edit, infoVars
  <1>2. ASSUME NEW t \in Templates, Remove(t) PROVE Values'
    BY <1>2 DEF Remove, infoVars
  <1>3. CASE Start
    BY <1>3 DEF Start, BeginRound, fileVars, Nothing, NoFile, Files
  <1>4. CASE Exit
    BY <1>4 DEF Exit, fileVars, infoVars
  <1>5. ASSUME NEW f \in Files, Look(f) PROVE Values'
    BY <1>5 DEF Look, fileVars, infoVars
  <1>6. CASE Read
    BY <1>6 DEF Read, NoFile, Idle, fileVars, infoVars
  <1>7. CASE List
    BY <1>7 DEF List, fileVars, infoVars
  <1>8. CASE Decide
    BY <1>8 DEF Decide, Done, fileVars, infoVars
  <1>9. CASE Truncate
    BY <1>9 DEF Truncate, Nothing, fileVars, infoVars
  <1>10. CASE Write
    BY <1>10 DEF Write, Done, fileVars, infoVars
  <1>11. CASE Wake
    BY <1>11 DEF Wake, BeginRound, fileVars, infoVars, Files
  <1>12. CASE UNCHANGED vars
    BY <1>12 DEF vars, fileVars, infoVars
  <1> QED
    BY <1>1, <1>2, <1>3, <1>4, <1>5, <1>6, <1>7, <1>8, <1>9, <1>10, <1>11, <1>12 DEF Next, Process

\* So are the types of the Boolean variables.
LEMMA NextFlags == Flags /\ [Next]_vars => Flags'
  <1> SUFFICES ASSUME Flags, [Next]_vars PROVE Flags'
    OBVIOUS
  <1> USE DEF Flags
  <1>1. CASE Start
    BY Zenon, <1>1 DEF Start, BeginRound
  <1>2. CASE \E f \in Files : Look(f)
    BY Zenon, <1>2 DEF Look, infoVars
  <1>3. CASE Read
    BY Zenon, <1>3 DEF Read, infoVars
  <1>4. CASE Wake
    BY Zenon, <1>4 DEF Wake, BeginRound, infoVars
  <1>5. CASE (\E f \in Files : Edit(f)) \/ (\E t \in Templates : Remove(t)) \/ Exit \/ List
    BY Zenon, <1>5 DEF Edit, Remove, Exit, List, infoVars
  <1>6. CASE Decide \/ Truncate \/ Write \/ UNCHANGED vars
    BY Zenon, <1>6 DEF Decide, Truncate, Write, vars, infoVars
  <1> QED
    BY Zenon, <1>1, <1>2, <1>3, <1>4, <1>5, <1>6 DEF Next, Process

\* The rest of the invariant is kept by every step.
LEMMA NextInv == IInv /\ [Next]_vars => IInv'
  <1> SUFFICES ASSUME IInv, [Next]_vars PROVE RoundInv'
    BY NextValues DEF IInv
  <1>1. ASSUME NEW f \in Files, Edit(f) PROVE RoundInv'
    BY <1>1, BuildAssumption DEF Edit, infoVars,
      IInv, RoundInv, Values, Idle, Time, Clocked, CacheBehind, Forgotten, Caught, Handled
  <1>2. ASSUME NEW t \in Templates, Remove(t) PROVE RoundInv'
    BY <1>2, BuildAssumption DEF Remove, infoVars,
      IInv, RoundInv, Values, Idle, Time, Clocked, CacheBehind, Forgotten, Caught, Handled
  <1>3. CASE Start
    BY <1>3, BuildAssumption DEF Start, BeginRound, fileVars, Nothing, NoFile, Files,
      IInv, RoundInv, Values, Idle, Time, Clocked, CacheBehind, Forgotten, Caught, Handled
  <1>4. CASE Exit
    BY <1>4 DEF Exit, fileVars, infoVars,
      IInv, RoundInv, Values, Idle, Time, Clocked, CacheBehind, Forgotten, Caught, Handled
  <1>5. ASSUME NEW f \in Files, Look(f) PROVE RoundInv'
    <2> USE <1>5 DEF IInv, RoundInv, Values, Look, fileVars, infoVars
    <2>1. Clocked' /\ Forgotten'
      BY DEF Clocked, Forgotten
    <2>2. CacheBehind'
      <3>1. CASE looked' = looked
        BY <3>1 DEF CacheBehind, Idle
      <3>2. CASE looked' = [file |-> f, time |-> mtime[f]]
        BY <3>2 DEF CacheBehind, Time
      <3> QED
        BY <3>1, <3>2
    <2>3. ASSUME f \in present, looked' = looked PROVE contents[f] >= began[f]
      BY <2>3, BuildAssumption DEF InCache, Clocked, CacheBehind, Idle, Files, Time
    <2>4. CASE f \notin present
      BY <2>1, <2>2, <2>4 DEF Caught
    <2>5. CASE f \in present
      <3>1. pc' = pc /\ pc \in {"files", "templates"} /\ todo' = todo \ {f}
        BY <2>5
      <3>2. ASSUME NEW g \in present, Handled(g)' PROVE contents[g] >= began[g]
        <4>1. CASE g = f
          BY <4>1, <3>2, <2>3, <2>5 DEF Handled
        <4>2. CASE g # f
          BY <4>2, <3>1, <3>2, BuildAssumption DEF Handled, Caught, Idle, Files
        <4> QED
          BY <4>1, <4>2
      <3> QED
        BY <2>1, <2>2, <3>1, <3>2 DEF Caught, Idle
    <2> QED
      BY <2>4, <2>5
  <1>6. CASE Read
    BY <1>6, BuildAssumption DEF Read, NoFile, fileVars, infoVars,
      IInv, RoundInv, Values, Idle, Time, Clocked, CacheBehind, Forgotten, Caught, Handled
  <1>7. CASE List
    BY <1>7 DEF List, fileVars, infoVars,
      IInv, RoundInv, Values, Idle, Time, Clocked, CacheBehind, Forgotten, Caught, Handled
  <1>8. CASE Decide
    BY <1>8 DEF Decide, Done, fileVars, infoVars,
      IInv, RoundInv, Values, Idle, Time, Clocked, CacheBehind, Forgotten, Caught, Handled
  <1>9. CASE Truncate
    <2> USE <1>9 DEF IInv, RoundInv, Truncate, fileVars, infoVars
    <2>1. Clocked' /\ Forgotten' /\ CacheBehind'
      BY DEF Clocked, Forgotten, CacheBehind, Idle
    <2>2. Caught'
      BY DEF Caught, Handled, Idle
    <2> QED
      BY <2>1, <2>2 DEF RoundInv
  <1>10. CASE Write
    BY <1>10 DEF Write, Done, fileVars, infoVars,
      IInv, RoundInv, Values, Idle, Time, Clocked, CacheBehind, Forgotten, Caught, Handled
  <1>11. CASE Wake
    BY <1>11, BuildAssumption DEF Wake, BeginRound, fileVars, infoVars, Files,
      IInv, RoundInv, Values, Idle, Time, Clocked, CacheBehind, Forgotten, Caught, Handled
  <1>12. CASE UNCHANGED vars
    BY <1>12 DEF vars, fileVars, infoVars,
      IInv, RoundInv, Values, Idle, Time, Clocked, CacheBehind, Forgotten, Caught, Handled
  <1> QED
    BY <1>1, <1>2, <1>3, <1>4, <1>5, <1>6, <1>7, <1>8, <1>9, <1>10, <1>11, <1>12 DEF Next, Process

\* The invariant holds in every state.
LEMMA Invariance == Spec => []IInv
  <1>1. Init => IInv
    BY InitInv
  <1> QED
    BY <1>1, NextInv, PTL DEF Spec

\* Every variable keeps its type, for any templates, clock and number of runs.
THEOREM TypeCorrect == Spec => []TypeOK
  <1>1. Init => Flags
    BY InitInv
  <1>2. Spec => []Flags
    BY <1>1, NextFlags, PTL DEF Spec
  <1>3. IInv /\ Flags => TypeOK
    BY DEF IInv, TypeOK
  <1> QED
    BY <1>2, <1>3, Invariance, PTL

\* A round renders nothing that is older than the files were when it began,
\* whichever files are edited, added or removed between its system calls.
THEOREM RoundsAreFresh == Spec => []RoundIsFresh
  <1>1. IInv => RoundIsFresh
    BY BuildAssumption DEF IInv, RoundInv, Values, Caught, Handled, Idle, Files, RoundIsFresh
  <1> QED
    BY <1>1, Invariance, PTL
=============================================================================
