------------------------------ MODULE MatchDB ------------------------------
(***************************************************************************)
(* The key-value store of src/matchdb: main with the checks on its         *)
(* options, Run with the loop that accepts connections and waits after an  *)
(* error, and Handle up to its loop, which is empty at this commit, as is  *)
(* Master.Run.                                                             *)
(***************************************************************************)
EXTENDS Naturals, Sequences

CONSTANTS
    Peers,      \* nodes that connect, once each (a bound)
    HostOf, PortOf, ClockOf,   \* of a peer, when it makes its node id
    MaxErrors   \* bound: errors of Accept in a row

ASSUME PeerAssumption ==
    /\ HostOf \in [Peers -> STRING] /\ PortOf \in [Peers -> Nat] /\ ClockOf \in [Peers -> Nat]
    /\ MaxErrors \in Nat

VARIABLES
    options,
    dbState,    \* where main is
    master,     \* the kind of MasterController
    delay,      \* in milliseconds
    conns,      \* peer -> its connection
    served,     \* peer -> the address Handle knows it by
    pauses,     \* history: the delays since the last connection
    accepted    \* history: there has been a connection

dbVars == <<options, dbState, master, delay, conns, served, pauses, accepted>>

Options == [hashKey : {"hex", "short", "other"}, access : BOOLEAN, secret : BOOLEAN, table : BOOLEAN,
            region : BOOLEAN, ipv4 : BOOLEAN, free : BOOLEAN]

NoAddr == <<"", 0>>

DBInit ==
    /\ options \in Options
    /\ dbState = "starting" /\ master = "none" /\ delay = 1
    /\ conns = [p \in Peers |-> "none"] /\ served = [p \in Peers |-> NoAddr]
    /\ pauses = <<>> /\ accepted = FALSE

HashKeyOk == options.hashKey = "hex"

\* The kind of master the options ask for; "exit" if they are incomplete.
NewMaster ==
    LET distributed == options.access \/ options.secret \/ options.table
        complete == options.access /\ options.secret /\ options.table /\ options.region
    IN  IF ~distributed THEN "LocalMaster" ELSE IF complete THEN "Master" ELSE "exit"

\* The last part is the time of the start, shifted as in the code.
getNodeID(host, port, clock) == <<host, port % 2 ^ 16, 2 * clock>>
getAddrFromID(id) == <<id[1], id[2]>>

\* The key, the master, the node's id, the listener, in this order; each may end
\* the process.  Options.free is whether the address can be listened on.
Start ==
    /\ dbState = "starting"
    /\ LET started == HashKeyOk /\ NewMaster # "exit" /\ options.ipv4 /\ options.free IN
         /\ dbState' = IF started THEN "accept" ELSE "exit"
         /\ master' = IF started THEN NewMaster ELSE "none"
    /\ UNCHANGED <<options, delay, conns, served, pauses, accepted>>

Capped(d) == IF d > 1000 THEN 1000 ELSE d

Pause(d) ==
    /\ delay' = d
    /\ pauses' = Append(pauses, d)
    /\ dbState' = "sleep"

\* MUTANT: the cap comes before the doubling.
AcceptErrorCapsFirst ==
    /\ dbState = "accept" /\ Len(pauses) < MaxErrors
    /\ Pause(IF delay = 0 THEN 5 ELSE 2 * Capped(delay))
    /\ UNCHANGED <<options, master, conns, served, accepted>>

AcceptError ==
    /\ dbState = "accept" /\ Len(pauses) < MaxErrors
    /\ Pause(Capped(IF delay = 0 THEN 5 ELSE 2 * delay))
    /\ UNCHANGED <<options, master, conns, served, accepted>>

Slept ==
    /\ dbState = "sleep"
    /\ dbState' = "accept"
    /\ UNCHANGED <<options, master, delay, conns, served, pauses, accepted>>

\* Any other error ends Run and with it the process and every connection.
AcceptFails ==
    /\ dbState = "accept"
    /\ dbState' = "exit"
    /\ conns' = [p \in Peers |-> IF conns[p] = "none" THEN "none" ELSE "closed"]
    /\ UNCHANGED <<options, master, delay, served, pauses, accepted>>

Accept(p) ==
    /\ dbState = "accept" /\ conns[p] = "none"
    /\ conns' = [conns EXCEPT ![p] = "open"]
    /\ delay' = 0 /\ pauses' = <<>> /\ accepted' = TRUE
    /\ UNCHANGED <<options, dbState, master, served>>

\* The network hands over all of the id, or a first part of it, or an error.
\* There is one Read, which does not wait for the rest.
Handle(p) ==
    /\ dbState # "exit" /\ conns[p] = "open"
    /\ \E n \in {0, 1, 13, 14}, failed \in BOOLEAN :
         IF failed \/ n # 14
         THEN conns' = [conns EXCEPT ![p] = "closed"] /\ UNCHANGED served
         ELSE /\ conns' = [conns EXCEPT ![p] = "served"]
              /\ served' = [served EXCEPT ![p] =
                              getAddrFromID(getNodeID(HostOf[p], PortOf[p], ClockOf[p]))]
    /\ UNCHANGED <<options, dbState, master, delay, pauses, accepted>>

DBNext == Start \/ AcceptError \/ Slept \/ AcceptFails \/ \E p \in Peers : Accept(p) \/ Handle(p)

DBSpec == DBInit /\ [][DBNext]_dbVars

\* The pause after i errors in a row; nine doublings pass a second.
doubled(first, i) ==
    IF i > 9 \/ first * 2 ^ (i - 1) > 1000 THEN 1000 ELSE first * 2 ^ (i - 1)

\* However errors and connections alternate, the pauses after a connection are
\* 5, 10, 20 ... and never above a second; those before the first connection
\* are 2, 4, 8 ... instead.
PausesDouble ==
    \A i \in 1..Len(pauses) : pauses[i] = doubled(IF accepted THEN 5 ELSE 2, i)
=============================================================================
