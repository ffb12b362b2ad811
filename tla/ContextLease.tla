---------------------------- MODULE ContextLease ----------------------------
(***************************************************************************)
(* What getContext and freeContext of src/espra/rpc/rpc.go promise: a      *)
(* Context belongs to one request at a time, a request has at most one, a  *)
(* Context once made is kept for reuse, and a new one is made only when    *)
(* every known Context is in use, so that there are never more than the    *)
(* largest number of requests that were served at once.                    *)
(***************************************************************************)
CONSTANTS Handlers, Contexts, Nil

VARIABLES
    lease,   \* who has each Context, Nil when nobody does
    known    \* the Contexts made so far

Pool == {c \in known : lease[c] = Nil}

Init ==
    /\ lease = [c \in Contexts |-> Nil]
    /\ known = {}

Take(h) ==
    /\ \A c \in Contexts : lease[c] # h
    /\ \E c \in Contexts :
         /\ IF Pool = {} THEN c \notin known ELSE c \in Pool
         /\ lease' = [lease EXCEPT ![c] = h]
         /\ known' = known \cup {c}

Give(h) ==
    /\ \E c \in Contexts :
         /\ lease[c] = h
         /\ lease' = [lease EXCEPT ![c] = Nil]
    /\ UNCHANGED known

Next == \E h \in Handlers : Take(h) \/ Give(h)

Spec == Init /\ [][Next]_<<lease, known>>
=============================================================================
