------------------------------- MODULE Tunnel -------------------------------
(***************************************************************************)
(* The requests that one tunnel carries, message by message                *)
(* (src/tunnels/tunnel.rs and reqserv.rs).                                 *)
(*                                                                         *)
(* A client of the proxy opens a TCP connection; its request task copies   *)
(* what it reads to the tunnel (north) and what the tunnel's channel rx    *)
(* holds to the client.  The server at the other end of the tunnel keeps a *)
(* session per slot and sends data against a quota: it may have as many    *)
(* messages under way as the quota, and every Quota \div 2 messages that   *)
(* the request task takes from rx are reported back to it.                 *)
(*                                                                         *)
(* The tunnel is one life of a connection, from on_tunnel_created to       *)
(* on_tunnel_closed (module TunMgr has the lives before and after).  The   *)
(* server is not part of the repository: it is modelled from the messages  *)
(* that the code sends to it and accepts from it, as is the client.        *)
(*                                                                         *)
(* A data message is its request and its number in the stream.  Both       *)
(* directions of the connection are FIFO: an unbounded channel, then TCP.  *)
(***************************************************************************)
EXTENDS Reqq, FiniteSets

CONSTANTS
    Quota,     \* request_quota, given to the server in the URL of the tunnel
    MaxDown,   \* bound of the model: messages the server sends per request
    MaxUp      \* bound of the model: messages a client sends

ASSUME TunnelAssumption ==
    /\ Quota \in Nat /\ Quota >= 2
    /\ MaxDown \in Nat
    /\ MaxUp \in Nat

VARIABLES
    alive,      \* the task of the tunnel is running
    reqq,       \* Tunnel.requests
    req_count,  \* Tunnel.req_count
    north,      \* messages to the server
    south,      \* messages from the server
    task,       \* the request tasks
    rx,         \* the channel from the tunnel to each request task
    client,     \* each client: what it has done, and how much it was given
    sess        \* the sessions of the server, by slot

clientSide == << alive, reqq, req_count, task, rx >>
vars == << clientSide, north, south, client, sess >>

Cmd == {"ReqCreated", "ReqData", "ReqClientFinished", "ReqClientClosed",
        "ReqClientQuota", "ReqServerFinished", "ReqServerClosed"}

\* own is not on the wire: it is the request that a message really belongs to.
Msg == [cmd : Cmd, req_idx : Slot, req_tag : Tag, own : Req, n : Nat]

Task == [st : {"new", "open", "done"}, req_idx : Slot, req_tag : Tag,
         sending : BOOLEAN, receiving : BOOLEAN, write_out : 0 .. Quota]

Client == [st : {"up", "fin", "rst"}, sent : 0 .. MaxUp, got : Nat]

Session == [open : BOOLEAN, req_tag : Tag, own : Req \cup {NoReq}, credit : Int,
            sent : 0 .. MaxDown, client_fin : BOOLEAN, server_fin : BOOLEAN]

NoSession == [open |-> FALSE, req_tag |-> 0, own |-> NoReq, credit |-> 0,
              sent |-> 0, client_fin |-> FALSE, server_fin |-> FALSE]

Init ==
    /\ alive = TRUE
    /\ reqq = new
    /\ req_count = 0
    /\ north = << >>
    /\ south = << >>
    /\ task = [r \in Req |-> [st |-> "new", req_idx |-> 0, req_tag |-> 0,
                              sending |-> FALSE, receiving |-> FALSE,
                              write_out |-> 0]]
    /\ rx = [r \in Req |-> << >>]
    /\ client = [r \in Req |-> [st |-> "up", sent |-> 0, got |-> 0]]
    /\ sess = [s \in Slot |-> NoSession]

-----------------------------------------------------------------------------
(***************************************************************************)
(* The request task.                                                       *)
(***************************************************************************)

Message(cmd, r, n) == [cmd |-> cmd, req_idx |-> task[r].req_idx,
                       req_tag |-> task[r].req_tag, own |-> r, n |-> n]

\* tunnel_tx.send: the message is lost if the tunnel is gone.
Sent(msgs) == IF alive THEN north \o msgs ELSE north

SlotOf(r) == reqq.elements[task[r].req_idx]

\* A request is given a slot and the server is told (on_request_created).
\* TunMgr only asks a tunnel that has room.
on_request_created(r) ==
    /\ alive
    /\ task[r].st = "new"
    /\ req_count + 1 < ReqCap
    /\ Len(reqq.free) > 0
    /\ reqq' = alloc(reqq, r)
    /\ req_count' = req_count + 1
    /\ task' = [task EXCEPT ![r] =
                  [st |-> "open", req_idx |-> alloc_idx(reqq),
                   req_tag |-> alloc_tag(reqq), sending |-> TRUE,
                   receiving |-> TRUE, write_out |-> 0]]
    /\ north' = Append(north, [cmd |-> "ReqCreated", req_idx |-> alloc_idx(reqq),
                               req_tag |-> alloc_tag(reqq), own |-> r, n |-> 0])
    /\ UNCHANGED << alive, south, rx, client, sess >>

\* Data of the client is forwarded.  On a closed tunnel the send fails, and the
\* receiving future ends (ReceiveEnds).
on_request_msg(r) ==
    /\ alive
    /\ task[r].receiving
    /\ client[r].st = "up"
    /\ client[r].sent < MaxUp
    /\ client' = [client EXCEPT ![r].sent = @ + 1]
    /\ north' = Sent(<< Message("ReqData", r, client[r].sent + 1) >>)
    /\ UNCHANGED << clientSide, south, sess >>

\* Tunnel::on_request_closed, with what it sends to the server.
Frees(r) == alive /\ free_ok(reqq, task[r].req_idx, task[r].req_tag)

\* Mutant: the server is not told.
ClosedMsgs_none(r) == << >>

ClosedMsgs(r) == IF Frees(r) THEN << Message("ReqClientClosed", r, 0) >> ELSE << >>

on_request_closed(r) ==
    IF Frees(r)
      THEN /\ reqq' = free(reqq, task[r].req_idx, task[r].req_tag)
           /\ req_count' = req_count - 1
      ELSE UNCHANGED << reqq, req_count >>

\* Mutant: the request is closed before the last future has sent its message.
EndHalf_closes_first(r, t, msgs) ==
    /\ IF t.sending \/ t.receiving
         THEN /\ task' = [task EXCEPT ![r] = t]
              /\ north' = Sent(msgs)
              /\ UNCHANGED << reqq, req_count >>
         ELSE /\ task' = [task EXCEPT ![r] = [t EXCEPT !.st = "done", !.write_out = 0]]
              /\ north' = Sent(ClosedMsgs(r) \o msgs)
              /\ on_request_closed(r)
    /\ UNCHANGED << alive, south, sess >>

\* One future ends, after sending msgs; the second one to end closes the
\* request in the same poll, and drops what is left in rx.
EndHalf(r, t, msgs) ==
    /\ IF t.sending \/ t.receiving
         THEN /\ task' = [task EXCEPT ![r] = t]
              /\ north' = Sent(msgs)
              /\ UNCHANGED << reqq, req_count >>
         ELSE /\ task' = [task EXCEPT ![r] = [t EXCEPT !.st = "done", !.write_out = 0]]
              /\ north' = Sent(msgs \o ClosedMsgs(r))
              /\ on_request_closed(r)
    /\ UNCHANGED << alive, south, sess >>

\* The receiving future ends: the client finished or reset its connection, or
\* the trigger was dropped, or the tunnel is closed.
ReceiveEnds(r) ==
    /\ task[r].receiving
    /\ client[r].st # "up" \/ SlotOf(r).trigger # r \/ ~alive
    /\ EndHalf(r, [task[r] EXCEPT !.receiving = FALSE],
               << Message("ReqClientFinished", r, 0) >>)
    /\ UNCHANGED << rx, client >>

\* Mutant: the report waits for one message more than is counted.
QuotaMsgs_late(r) == IF task[r].write_out = Quota \div 2
                       THEN << Message("ReqClientQuota", r, task[r].write_out) >>
                       ELSE << >>

\* The sending future takes a message from rx, counts it, reports the quota and
\* hands it to the socket.
QuotaMsgs(r) == IF task[r].write_out + 1 = Quota \div 2
                  THEN << Message("ReqClientQuota", r, task[r].write_out + 1) >>
                  ELSE << >>

\* Mutant: the count does not start again after a report.
Counted_on(r) == task[r].write_out + 1

Counted(r) == IF task[r].write_out + 1 = Quota \div 2 THEN 0
                                                      ELSE task[r].write_out + 1

WriteOut(r) ==
    /\ task[r].sending
    /\ rx[r] # << >>
    /\ client[r].st # "rst"
    /\ rx' = [rx EXCEPT ![r] = Tail(@)]
    /\ client' = [client EXCEPT ![r].got = @ + 1]
    /\ task' = [task EXCEPT ![r].write_out = Counted(r)]
    /\ north' = Sent(QuotaMsgs(r))
    /\ UNCHANGED << alive, reqq, req_count, south, sess >>

\* The sending future ends because the sender was dropped and rx is empty, or
\* because a write to a client that reset its connection fails.  That write is
\* counted first, like every other.
SendDrained(r) ==
    /\ task[r].sending
    /\ rx[r] = << >>
    /\ SlotOf(r).request_tx # r
    /\ EndHalf(r, [task[r] EXCEPT !.sending = FALSE], << >>)
    /\ UNCHANGED << rx, client >>

SendFails(r) ==
    /\ task[r].sending
    /\ rx[r] # << >>
    /\ client[r].st = "rst"
    /\ EndHalf(r, [task[r] EXCEPT !.sending = FALSE, !.write_out = Counted(r)],
               QuotaMsgs(r))
    /\ rx' = [rx EXCEPT ![r] = << >>]
    /\ UNCHANGED client

-----------------------------------------------------------------------------
(***************************************************************************)
(* The tunnel: on_tunnel_msg, and the end of its task.                     *)
(***************************************************************************)

\* Mutant: the tag is not compared.
Reachable_untagged(m) ==
    /\ reqq.elements[m.req_idx].request_tx # NoReq
    /\ task[reqq.elements[m.req_idx].request_tx].sending

\* get_request_tx finds a channel whose receiver still exists.
Reachable(m) ==
    /\ reqq.elements[m.req_idx].tag = m.req_tag
    /\ reqq.elements[m.req_idx].request_tx # NoReq
    /\ task[reqq.elements[m.req_idx].request_tx].sending

on_data(m) ==
    /\ m.cmd = "ReqData"
    /\ rx' = IF Reachable(m)
               THEN [rx EXCEPT ![reqq.elements[m.req_idx].request_tx] = Append(@, m)]
               ELSE rx
    /\ UNCHANGED << reqq, req_count >>

\* free_request_tx
on_server_finished(m) ==
    /\ m.cmd = "ReqServerFinished"
    /\ reqq' = IF reqq.elements[m.req_idx].tag = m.req_tag
                 THEN [reqq EXCEPT !.elements[m.req_idx].request_tx = NoReq]
                 ELSE reqq
    /\ UNCHANGED << req_count, rx >>

on_server_closed(m) ==
    /\ m.cmd = "ReqServerClosed"
    /\ IF free_ok(reqq, m.req_idx, m.req_tag)
         THEN /\ reqq' = free(reqq, m.req_idx, m.req_tag)
              /\ req_count' = req_count - 1
         ELSE UNCHANGED << reqq, req_count >>
    /\ UNCHANGED rx

on_tunnel_msg ==
    /\ alive
    /\ south # << >>
    /\ south' = Tail(south)
    /\ \/ on_data(Head(south))
       \/ on_server_finished(Head(south))
       \/ on_server_closed(Head(south))
    /\ UNCHANGED << alive, task, north, client, sess >>

\* The connection ends, and with it the server's sessions.
on_closed ==
    /\ alive
    /\ alive' = FALSE
    /\ reqq' = clear_all(reqq)
    /\ north' = << >>
    /\ south' = << >>
    /\ sess' = [s \in Slot |-> NoSession]
    /\ UNCHANGED << req_count, task, rx, client >>

-----------------------------------------------------------------------------
(***************************************************************************)
(* The clients: they finish their stream, or reset the connection.         *)
(***************************************************************************)
ClientEnds(r) ==
    /\ task[r].st = "open"
    /\ \E e \in {"fin", "rst"} :
         /\ client[r].st \notin {e, "rst"}
         /\ client' = [client EXCEPT ![r].st = e]
    /\ UNCHANGED << clientSide, north, south, sess >>

(***************************************************************************)
(* The server.                                                             *)
(***************************************************************************)
Matches(m) == sess[m.req_idx].open /\ sess[m.req_idx].req_tag = m.req_tag

Reply(cmd, s, n) == [cmd |-> cmd, req_idx |-> s, req_tag |-> sess[s].req_tag,
                     own |-> sess[s].own, n |-> n]

ServerReceives ==
    /\ north # << >>
    /\ north' = Tail(north)
    /\ LET m == Head(north)
           s == m.req_idx
       IN  sess' = CASE m.cmd = "ReqCreated" ->
                          [sess EXCEPT ![s] = [NoSession EXCEPT
                             !.open = TRUE, !.req_tag = m.req_tag,
                             !.own = m.own, !.credit = Quota]]
                     [] m.cmd = "ReqClientFinished" /\ Matches(m) ->
                          [sess EXCEPT ![s].client_fin = TRUE]
                     [] m.cmd = "ReqClientClosed" /\ Matches(m) ->
                          [sess EXCEPT ![s] = NoSession]
                     [] m.cmd = "ReqClientQuota" /\ Matches(m) ->
                          [sess EXCEPT ![s].credit = @ + m.n]
                     [] OTHER -> sess
    /\ UNCHANGED << clientSide, south, client >>

ServerData(s) ==
    /\ sess[s].open /\ ~sess[s].server_fin
    /\ sess[s].credit > 0 /\ sess[s].sent < MaxDown
    /\ south' = Append(south, Reply("ReqData", s, sess[s].sent + 1))
    /\ sess' = [sess EXCEPT ![s].sent = @ + 1, ![s].credit = @ - 1]
    /\ UNCHANGED << clientSide, north, client >>

ServerFinishes(s) ==
    /\ sess[s].open /\ ~sess[s].server_fin
    /\ south' = Append(south, Reply("ReqServerFinished", s, 0))
    /\ sess' = [sess EXCEPT ![s].server_fin = TRUE]
    /\ UNCHANGED << clientSide, north, client >>

\* When both directions are finished, or the target fails.
ServerCloses(s) ==
    /\ sess[s].open
    /\ south' = Append(south, Reply("ReqServerClosed", s, 0))
    /\ sess' = [sess EXCEPT ![s] = NoSession]
    /\ UNCHANGED << clientSide, north, client >>

-----------------------------------------------------------------------------
TaskNext(r) ==
    \/ on_request_created(r)
    \/ on_request_msg(r)
    \/ ReceiveEnds(r)
    \/ WriteOut(r)
    \/ SendDrained(r)
    \/ SendFails(r)

ServerNext(s) == ServerData(s) \/ ServerFinishes(s) \/ ServerCloses(s)

Next ==
    \/ \E r \in Req : TaskNext(r) \/ ClientEnds(r)
    \/ \E s \in Slot : ServerNext(s)
    \/ ServerReceives
    \/ on_tunnel_msg
    \/ on_closed

Spec == Init /\ [][Next]_vars

(***************************************************************************)
(* Fairness: the executor polls a task that can go on, the connection      *)
(* delivers what was sent, and a client reads what it is sent, unless it   *)
(* resets the connection.  The server and the clients need not do anything *)
(* else, and the connection may end at any time.                           *)
(***************************************************************************)
Fairness ==
    /\ WF_vars(on_tunnel_msg)
    /\ WF_vars(ServerReceives)
    /\ \A r \in Req : /\ WF_vars(ReceiveEnds(r)) /\ WF_vars(WriteOut(r))
                      /\ WF_vars(SendDrained(r)) /\ WF_vars(SendFails(r))

FairSpec == Spec /\ Fairness

-----------------------------------------------------------------------------
(***************************************************************************)
(* Properties.                                                             *)
(***************************************************************************)

\* The variables have their types; the slot table is accounted for, so that
\* req_count does not underflow when both ends close a request at once.
TypeOK ==
    /\ alive \in BOOLEAN
    /\ reqq \in Table
    /\ alive => Accounted(reqq, req_count)
    /\ north \in Seq(Msg) /\ south \in Seq(Msg)
    /\ task \in [Req -> Task]
    /\ rx \in [Req -> Seq(Msg)]
    /\ client \in [Req -> Client]
    /\ sess \in [Slot -> Session]

\* What the server sends for r can still reach it.
Connected(r) == alive /\ task[r].sending /\ SlotOf(r).request_tx = r

\* The data of r on the wire, in order: the j-th one is the one that is preceded by
\* j - 1 others.
DataOf(r) == {k \in DOMAIN south : south[k].cmd = "ReqData" /\ south[k].own = r}

Rank(r, k) == Cardinality({l \in DataOf(r) : l <= k})

Wire(r) == [j \in 1 .. Cardinality(DataOf(r)) |->
              south[CHOOSE k \in DataOf(r) : Rank(r, k) = j]]

\* What is on its way to r: in its channel, and behind that on the wire.  A
\* message of another request counts as number 0, which no stream has.
OnWay(r) == rx[r] \o (IF Connected(r) THEN Wire(r) ELSE << >>)

InPipe(r) == LET ms == OnWay(r)
             IN  [k \in DOMAIN ms |-> IF ms[k].own = r THEN ms[k].n ELSE 0]

S == INSTANCE Sessions WITH
       pipe <- [r \in Req |-> InPipe(r)],
       got <- [r \in Req |-> client[r].got],
       closed <- [r \in Req |-> ~(alive /\ (task[r].st = "new" \/ Connected(r)))],
       reset <- [r \in Req |-> client[r].st = "rst"],
       down <- ~alive

\* The tunnel implements a Session for every request.  The streams do not mix,
\* reorder or repeat, although the wire only names a slot and a tag and a slot
\* is used again while the task of its last request may still be running; and
\* a request that the server ends, with ReqServerFinished or ReqServerClosed,
\* gets all that was sent to it before, unless its client resets.
ImplementsSessions == S!Spec

Data(s) == {k \in DOMAIN south : south[k].cmd = "ReqData" /\ south[k].req_idx = s
                                 /\ south[k].req_tag = sess[s].req_tag}

Reports(s) == {k \in DOMAIN north : north[k].cmd = "ReqClientQuota"
                                    /\ north[k].req_idx = s
                                    /\ north[k].req_tag = sess[s].req_tag}

\* No quota is lost or made up: while the request task writes, what the server
\* may still send, what is on its way, what waits in rx, what was written and
\* not reported and what was reported and not received add up to the quota.
\* Hence the channel of a request, unbounded in the code (reqserv.rs:57), never
\* holds more than the quota, however slowly its client reads.
QuotaConserved ==
    \A s \in Slot :
      LET r == sess[s].own IN
      sess[s].open /\ task[r].sending =>
        sess[s].credit + Cardinality(Data(s)) + Len(rx[r]) + task[r].write_out
          + (Quota \div 2) * Cardinality(Reports(s)) = Quota

\* A slot is given to a new request only when the server has let go of it too:
\* a ReqCreated never meets an open session, whichever end closed the previous
\* request of that slot and even if both did.
SlotFreeAtServer ==
    \A k \in DOMAIN north :
      north[k].cmd = "ReqCreated" =>
        LET s == north[k].req_idx IN
        sess[s].open => \E l \in 1 .. k - 1 : /\ north[l].cmd = "ReqClientClosed"
                                              /\ north[l].req_idx = s
                                              /\ north[l].req_tag = sess[s].req_tag

\* The server never gets data of a request after its end: ReqClientFinished is
\* the last word of the receiving future and ReqClientClosed that of the task.
Ends == {"ReqClientFinished", "ReqClientClosed"}

NothingAfterEnd ==
    \A k, l \in DOMAIN north :
      k < l /\ north[k].own = north[l].own /\ north[k].cmd \in Ends =>
        /\ north[l].cmd # "ReqData"
        /\ north[k].cmd # "ReqClientClosed"

\* The server does not stall for want of quota: a session without credit gets
\* some, unless it ends or its client goes away.
QuotaReturns ==
    \A s \in Slot, r \in Req :
      (sess[s].open /\ sess[s].own = r /\ sess[s].credit = 0)
        ~> (sess[s].own # r \/ sess[s].credit > 0 \/ client[r].st = "rst")

\* Both ends agree in the end: when a request task has ended, the server closes
\* its session, and when the server closes a session, the task ends.  So does
\* the task of a client that reset its connection once there is something to
\* write to it.  Before that only the receiving future ends, whatever the
\* comment at reqserv.rs:119 says ("when peer total closed(RST), then both
\* futures will end"): the sending one does not look at the socket while its
\* channel is empty.
BothEndsClose ==
    \A r \in Req :
      /\ \A s \in Slot :
           (sess[s].open /\ sess[s].own = r /\ task[r].st = "done") ~> sess[s].own # r
      /\ (task[r].st = "open" /\ SlotOf(r).trigger # r) ~> task[r].st = "done"
      /\ (task[r].sending /\ client[r].st = "rst" /\ rx[r] # << >>) ~> task[r].st = "done"

-----------------------------------------------------------------------------
(***************************************************************************)
(* What the proofs rest on.  IInv is inductive for all constants; TInv     *)
(* beside it, as long as the tags do not wrap around in the life of a      *)
(* tunnel (TagsSuffice); and PInv beside both.                             *)
(***************************************************************************)

\* A message names the slot and the tag that its request was given.
Names(m) == /\ task[m.own].st # "new"
            /\ m.req_idx = task[m.own].req_idx
            /\ m.req_tag = task[m.own].req_tag

Named ==
    /\ \A k \in DOMAIN north : Names(north[k])
    /\ \A k \in DOMAIN south : Names(south[k])
    /\ \A s \in Slot : sess[s].open => LET r == sess[s].own
                                       IN  /\ r \in Req
                                           /\ task[r].st # "new"
                                           /\ task[r].req_idx = s
                                           /\ task[r].req_tag = sess[s].req_tag

\* A task is open as long as one of its futures runs.
TaskParts ==
    \A r \in Req :
      /\ task[r].st = "open" <=> task[r].sending \/ task[r].receiving
      /\ task[r].write_out < Quota \div 2
      /\ task[r].st # "new" => task[r].req_tag % 2 = 1
      /\ task[r].st = "new" => rx[r] = << >>

\* A slot in use belongs to a task that is open and knows it.
Held ==
    \A s \in Slot :
      LET r == reqq.elements[s].trigger
      IN  r # NoReq => /\ task[r].st = "open"
                       /\ task[r].req_idx = s
                       /\ task[r].req_tag = reqq.elements[s].tag

\* Nothing is left of a connection that ended.
Silent ==
    ~alive => /\ north = << >> /\ south = << >>
              /\ \A s \in Slot : ~sess[s].open /\ reqq.elements[s].trigger = NoReq

\* A future that said its last word has ended, and so has a task.
EndsMeant ==
    \A k \in DOMAIN north :
      /\ north[k].cmd = "ReqClientFinished" => ~task[north[k].own].receiving
      /\ north[k].cmd = "ReqClientClosed" => task[north[k].own].st = "done"

IInv == TypeOK /\ Named /\ TaskParts /\ Held /\ Silent /\ EndsMeant /\ NothingAfterEnd

\* The requests that a slot has served in this life of the tunnel.  TagsSuffice is
\* not an invariant but what the proofs assume: each request takes two tags of its
\* slot, and no slot serves so many that its tag wraps around.
Served(s) == {r \in Req : task[r].st # "new" /\ task[r].req_idx = s}

TagsSuffice == \A s \in Slot : 2 * Cardinality(Served(s)) < TagMod

\* A slot and a tag name one request: the tags of a slot grow.
Started == {r \in Req : task[r].st # "new"}

TagsUnique ==
    /\ \A r, q \in Started : /\ task[r].req_idx = task[q].req_idx
                             /\ task[r].req_tag = task[q].req_tag
                             => r = q
    /\ alive => /\ \A r \in Started : task[r].req_tag <= SlotOf(r).tag
                /\ \A s \in Slot : LET t == reqq.elements[s].tag
                                       n == Cardinality(Served(s))
                                   IN  /\ IsFiniteSet(Served(s))
                                       /\ t <= 2 * n
                                       /\ t % 2 = 1 => t < 2 * n

\* The server knows nothing of a request before ReqCreated, ...
Announced ==
    \A k \in DOMAIN north :
      north[k].cmd = "ReqCreated" =>
        LET r == north[k].own IN
        /\ \A l \in DOMAIN north : l # k /\ north[l].own = r =>
              l > k /\ north[l].cmd \notin {"ReqCreated", "ReqClientQuota"}
        /\ \A l \in DOMAIN south : south[l].own # r
        /\ \A s \in Slot : sess[s].open => sess[s].own # r
        /\ rx[r] = << >> /\ task[r].write_out = 0
        /\ SlotOf(r).trigger = r => SlotOf(r).request_tx = r

\* ... and forgets it with ReqServerClosed.
Forgotten ==
    \A k \in DOMAIN south :
      south[k].cmd = "ReqServerClosed" =>
        \A s \in Slot : sess[s].open => sess[s].own # south[k].own

\* It is told when a slot that it knows to be in use becomes free, and before it
\* is told that the slot is in use again.
CloseOf(r, k) == north[k].cmd = "ReqClientClosed" /\ north[k].own = r

WillBeTold ==
    /\ \A s \in Slot :
         sess[s].open => LET r == sess[s].own
                         IN  SlotOf(r).trigger = r \/ \E k \in DOMAIN north : CloseOf(r, k)
    /\ \A k \in DOMAIN north :
         north[k].cmd = "ReqCreated" =>
           LET r == north[k].own
           IN  SlotOf(r).trigger = r \/ \E l \in DOMAIN north : k < l /\ CloseOf(r, l)

ToldInOrder ==
    \A k \in DOMAIN north :
      north[k].cmd = "ReqCreated" =>
        /\ \A j \in DOMAIN north :
             j < k /\ north[j].cmd = "ReqCreated" /\ north[j].req_idx = north[k].req_idx
               => \E l \in DOMAIN north : j < l /\ l < k /\ CloseOf(north[j].own, l)
        /\ sess[north[k].req_idx].open
             => \E l \in DOMAIN north : l < k /\ CloseOf(sess[north[k].req_idx].own, l)

\* No data follows an end, and a channel that was dropped expects none.
DataFirst ==
    /\ \A k, l \in DOMAIN south :
         /\ k < l /\ south[k].own = south[l].own
         /\ south[k].cmd \in {"ReqServerFinished", "ReqServerClosed"}
         => south[l].cmd # "ReqData"
    /\ \A s \in Slot :
         sess[s].open =>
           LET r == sess[s].own IN
           IF sess[s].server_fin
             THEN SlotOf(r).trigger = r /\ SlotOf(r).request_tx # r =>
                    \A k \in DOMAIN south : south[k].own = r => south[k].cmd # "ReqData"
             ELSE /\ SlotOf(r).trigger = r => SlotOf(r).request_tx = r
                  /\ \A k \in DOMAIN south : south[k].own = r => south[k].cmd # "ReqServerFinished"

\* A report is for half of the quota, and the quota is where QuotaConserved says,
\* counted by requests instead of tags.
ReportsWhole ==
    \A k \in DOMAIN north : north[k].cmd = "ReqClientQuota" => north[k].n = Quota \div 2

ReportsOf(r) == {k \in DOMAIN north : north[k].cmd = "ReqClientQuota" /\ north[k].own = r}

QuotaKept ==
    \A s \in Slot :
      LET r == sess[s].own IN
      sess[s].open /\ task[r].sending =>
        sess[s].credit + Cardinality(DataOf(r)) + Len(rx[r]) + task[r].write_out
          + (Quota \div 2) * Cardinality(ReportsOf(r)) = Quota

TInv == TagsUnique /\ Announced /\ Forgotten /\ WillBeTold /\ ToldInOrder
          /\ DataFirst /\ ReportsWhole /\ QuotaKept

\* The numbers of a stream have no gap, from the client through the channel and
\* over the wire to the server: what each of them holds goes on where the one
\* before it stops.
ChannelNumbered ==
    \A r \in Req : \A j \in DOMAIN rx[r] :
      rx[r][j].own = r /\ rx[r][j].n = client[r].got + j

WireNumbered ==
    \A r \in Req : Connected(r) =>
      \A k \in DataOf(r) : south[k].n = client[r].got + Len(rx[r]) + Rank(r, k)

ServerNumbered ==
    \A s \in Slot :
      LET r == sess[s].own IN
      sess[s].open /\ Connected(r) =>
        sess[s].sent = client[r].got + Len(rx[r]) + Cardinality(DataOf(r))

\* Nothing was given to a client before the server knows of its request.
NothingYet ==
    /\ \A r \in Req : task[r].st = "new" => client[r].got = 0
    /\ \A k \in DOMAIN north :
         north[k].cmd = "ReqCreated" => client[north[k].own].got = 0

PInv == ChannelNumbered /\ WireNumbered /\ ServerNumbered /\ NothingYet
=============================================================================
