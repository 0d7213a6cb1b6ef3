------------------------------ MODULE Sessions ------------------------------
(***************************************************************************)
(* What a tunnel promises to the requests it carries, as one sees it from  *)
(* the outside: every request has a pipe of its own from the server to the *)
(* client.  Messages, numbered in the order sent, come out in that order,  *)
(* each one once.  An end that the server makes loses nothing that was     *)
(* sent before; only the end of the connection loses a tail of the pipe,   *)
(* and a client that resets its own connection loses what is left in it.   *)
(***************************************************************************)
EXTENDS Naturals, Sequences

CONSTANT Req

VARIABLES
    pipe,    \* the numbers of the messages that are on their way
    got,     \* how many messages each client was given
    closed,  \* nothing more enters the pipe
    reset,   \* the client reset its connection
    down     \* the connection that carries all pipes is gone

vars == << pipe, got, closed, reset, down >>

Init ==
    /\ pipe = [r \in Req |-> << >>]
    /\ got = [r \in Req |-> 0]
    /\ closed = [r \in Req |-> FALSE]
    /\ reset = [r \in Req |-> FALSE]
    /\ down = FALSE

Send(r) ==
    /\ ~closed[r]
    /\ pipe' = [pipe EXCEPT ![r] = Append(@, got[r] + Len(@) + 1)]
    /\ UNCHANGED << got, closed, reset, down >>

Deliver(r) ==
    /\ pipe[r] # << >> /\ ~reset[r]
    /\ got' = [got EXCEPT ![r] = Head(pipe[r])]
    /\ pipe' = [pipe EXCEPT ![r] = Tail(@)]
    /\ UNCHANGED << closed, reset, down >>

Close(r) ==
    /\ ~closed[r]
    /\ closed' = [closed EXCEPT ![r] = TRUE]
    /\ UNCHANGED << pipe, got, reset, down >>

Reset(r) ==
    /\ reset' = [reset EXCEPT ![r] = TRUE]
    /\ UNCHANGED << pipe, got, closed, down >>

\* A write to a client that reset its connection fails.
Discard(r) ==
    /\ reset[r]
    /\ pipe' = [pipe EXCEPT ![r] = << >>]
    /\ closed' = [closed EXCEPT ![r] = TRUE]
    /\ UNCHANGED << got, reset, down >>

\* What had not yet arrived is lost.
GoDown ==
    /\ ~down
    /\ down' = TRUE
    /\ closed' = [r \in Req |-> TRUE]
    /\ \E n \in [Req -> UNION {0 .. Len(pipe[r]) : r \in Req}] :
         /\ \A r \in Req : n[r] <= Len(pipe[r])
         /\ pipe' = [r \in Req |-> SubSeq(pipe[r], 1, n[r])]
    /\ UNCHANGED << got, reset >>

Next ==
    \/ GoDown
    \/ \E r \in Req : Send(r) \/ Deliver(r) \/ Close(r) \/ Reset(r) \/ Discard(r)

Spec == Init /\ [][Next]_vars
=============================================================================
