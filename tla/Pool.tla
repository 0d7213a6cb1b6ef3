-------------------------------- MODULE Pool --------------------------------
(***************************************************************************)
(* What a pool of connections promises, whichever component keeps it: the  *)
(* tunnels of TunMgr, the DNS tunnels of Forwarder and the one connection  *)
(* of XTunnel are connected and reconnected by the same scheme.            *)
(*                                                                         *)
(* Every index of the pool is at one place at a time: a connection attempt *)
(* is under way, it has a connection, it waits for the next keep-alive to  *)
(* be tried again, or, once the pool was stopped, it is gone.  No index is *)
(* ever lost or tried twice at once, none comes back after the stop, and   *)
(* in the end all are gone.                                                *)
(***************************************************************************)
CONSTANT Index

VARIABLES
    where,    \* the place of every index
    stopped   \* the pool was told to stop

vars == << where, stopped >>

Init == where = [i \in Index |-> "attempt"] /\ stopped = FALSE

\* Where an index goes when it has no connection and no attempt.
Rest == IF stopped THEN "gone" ELSE "waiting"

\* An attempt ends: a stopped pool refuses the connection.
AttemptEnds(i) ==
    /\ where[i] = "attempt"
    /\ \/ where' = [where EXCEPT ![i] = Rest]
       \/ ~stopped /\ where' = [where EXCEPT ![i] = "up"]
    /\ UNCHANGED stopped

Lose(i) ==
    /\ where[i] = "up"
    /\ where' = [where EXCEPT ![i] = Rest]
    /\ UNCHANGED stopped

\* The keep-alive tries all that wait.
Retry ==
    /\ ~stopped
    /\ where' = [i \in Index |-> IF where[i] = "waiting" THEN "attempt" ELSE where[i]]
    /\ UNCHANGED stopped

\* What waits is not tried any more.  A connection may turn out to be dead.
Stop ==
    /\ ~stopped
    /\ stopped' = TRUE
    /\ \E dead \in SUBSET {i \in Index : where[i] = "up"} :
         where' = [i \in Index |-> IF where[i] = "waiting" \/ i \in dead
                                     THEN "gone" ELSE where[i]]

Next == Retry \/ Stop \/ \E i \in Index : AttemptEnds(i) \/ Lose(i)

Spec == Init /\ [][Next]_vars

(***************************************************************************)
(* Attempts end, what waits is tried again, and what was stopped stops.    *)
(***************************************************************************)
Progress ==
    /\ \A i \in Index : []<>(where[i] # "attempt") /\ []<>(where[i] # "waiting")
    /\ stopped ~> [](\A i \in Index : where[i] = "gone")
=============================================================================
