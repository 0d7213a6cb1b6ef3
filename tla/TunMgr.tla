------------------------------- MODULE TunMgr -------------------------------
(***************************************************************************)
(* The tunnel manager (src/tunnels/tunmgr.rs) with the tunnels it owns     *)
(* (tunnel.rs), the tasks that build them (tunbuilder.rs) and the request  *)
(* tasks that use them (reqserv.rs).                                       *)
(*                                                                         *)
(* All of this runs on one single-threaded executor, so a handler runs     *)
(* from one await to the next without interruption and is one action here. *)
(* The interleavings are those of the tasks: one per connection attempt,   *)
(* one per live tunnel, one per request, the keep-alive timer and the      *)
(* control channel that stops the manager.                                 *)
(*                                                                         *)
(* Abstracted: what the messages carry (module Tunnel models the           *)
(* streams); the byte counter `busy', which only orders the tunnels, so    *)
(* that the order found by a keep-alive is an arbitrary one; round-trip    *)
(* times, which nothing reads; the access log and UDP packets, which are   *)
(* in module Access.                                                       *)
(***************************************************************************)
EXTENDS Reqq, FiniteSets

CONSTANTS
    TunCount,   \* number of tunnel indices: TunMgr.capacity
    PingLimit,  \* unanswered pings before a tunnel is given up: 5
    TagBound    \* bound of the model: a slot with this tag is not allocated

ASSUME TunMgrAssumption ==
    /\ TunCount \in Nat \ {0}
    /\ PingLimit \in Nat
    /\ TagBound \in Nat

Tun == 0 .. TunCount - 1

VARIABLES
    discarded,          \* TunMgr.discarded
    reconnect_queue,    \* TunMgr.reconnect_queue
    sorted_tun_indies,  \* TunMgr.sorted_tun_indies
    current_tun_idx,    \* TunMgr.current_tun_idx
    building,           \* number of connection attempts under way, per index
    live,               \* TunMgr.tunnels[i] is Some, and its task is running
    up,                 \* the tunnel's socket has not been shut down by us
    reqq,               \* Tunnel.requests
    req_count,          \* Tunnel.req_count
    ping_count,         \* Tunnel.ping_count
    req                 \* the request tasks

mgrVars == << discarded, reconnect_queue, sorted_tun_indies, current_tun_idx >>
tunVars == << building, live, up, ping_count >>
slotVars == << reqq, req_count >>
vars == << mgrVars, tunVars, slotVars, req >>

(***************************************************************************)
(* A request task: the TunStub it was given, and which of its two futures  *)
(* are still running.  tunnel_tx says whether the channel of the tunnel    *)
(* that the stub was made by is still open.                                *)
(***************************************************************************)
Task == [tun_idx : Tun, req_idx : Slot, req_tag : Tag, tunnel_tx : BOOLEAN,
         sending : BOOLEAN, receiving : BOOLEAN]

Idle == [tun_idx |-> 0, req_idx |-> 0, req_tag |-> 0, tunnel_tx |-> FALSE,
         sending |-> FALSE, receiving |-> FALSE]

Open(r) == req[r].sending \/ req[r].receiving

\* The slot that r was given, as it is now.
SlotOf(r) == reqq[req[r].tun_idx].elements[req[r].req_idx]

Orders == {f \in [Tun -> Tun] : \A i, j \in Tun : f[i] = f[j] => i = j}

-----------------------------------------------------------------------------
(***************************************************************************)
(* TunMgr::new followed by TunMgr::init: every index is being connected.   *)
(***************************************************************************)
Init ==
    /\ discarded = FALSE
    /\ reconnect_queue = << >>
    /\ sorted_tun_indies = [i \in Tun |-> i]
    /\ current_tun_idx = 0
    /\ building = [i \in Tun |-> 1]
    /\ live = [i \in Tun |-> FALSE]
    /\ up = [i \in Tun |-> FALSE]
    /\ reqq = [i \in Tun |-> new]
    /\ req_count = [i \in Tun |-> 0]
    /\ ping_count = [i \in Tun |-> 0]
    /\ req = [r \in Req |-> Idle]

\* Mutant: a discarded manager is not noticed.
on_tunnel_created_unchecked(i) ==
    /\ building[i] > 0
    /\ ~live[i]
    /\ building' = [building EXCEPT ![i] = @ - 1]
    /\ live' = [live EXCEPT ![i] = TRUE]
    /\ up' = [up EXCEPT ![i] = TRUE]
    /\ ping_count' = [ping_count EXCEPT ![i] = 0]
    /\ reqq' = [reqq EXCEPT ![i] = new]
    /\ req_count' = [req_count EXCEPT ![i] = 0]
    /\ UNCHANGED << mgrVars, req >>

(***************************************************************************)
(* A connection attempt succeeds.  A discarded manager refuses the tunnel. *)
(* The handler panics if the index already has one (see OneOwner).       *)
(***************************************************************************)
on_tunnel_created(i) ==
    /\ building[i] > 0
    /\ building' = [building EXCEPT ![i] = @ - 1]
    /\ IF discarded
         THEN UNCHANGED << live, up, ping_count, slotVars >>
         ELSE /\ ~live[i]
              /\ live' = [live EXCEPT ![i] = TRUE]
              /\ up' = [up EXCEPT ![i] = TRUE]
              /\ ping_count' = [ping_count EXCEPT ![i] = 0]
              /\ reqq' = [reqq EXCEPT ![i] = new]
              /\ req_count' = [req_count EXCEPT ![i] = 0]
    /\ UNCHANGED << mgrVars, req >>

\* Mutant: a failed attempt is not queued for reconnection.
on_tunnel_build_error_forgets(i) ==
    /\ building[i] > 0
    /\ building' = [building EXCEPT ![i] = @ - 1]
    /\ UNCHANGED << mgrVars, live, up, ping_count, slotVars, req >>

(***************************************************************************)
(* A connection attempt fails or runs into its 10 seconds limit.           *)
(***************************************************************************)
on_tunnel_build_error(i) ==
    /\ building[i] > 0
    /\ building' = [building EXCEPT ![i] = @ - 1]
    /\ reconnect_queue' = IF discarded THEN reconnect_queue
                                       ELSE Append(reconnect_queue, i)
    /\ UNCHANGED << discarded, sorted_tun_indies, current_tun_idx, live, up,
                    ping_count, slotVars, req >>

(***************************************************************************)
(* The task of a tunnel ends, because the peer or the network closed the   *)
(* connection or because its socket was shut down.  Its end of the channel *)
(* goes away with it, so every stub it made is left with a closed one.     *)
(***************************************************************************)
on_tunnel_closed(i) ==
    /\ live[i]
    /\ live' = [live EXCEPT ![i] = FALSE]
    /\ up' = [up EXCEPT ![i] = FALSE]
    /\ reqq' = [reqq EXCEPT ![i] = clear_all(reqq[i])]
    /\ req' = [r \in Req |-> IF Open(r) /\ req[r].tun_idx = i
                               THEN [req[r] EXCEPT !.tunnel_tx = FALSE]
                               ELSE req[r]]
    /\ reconnect_queue' = IF discarded THEN reconnect_queue
                                       ELSE Append(reconnect_queue, i)
    /\ UNCHANGED << discarded, sorted_tun_indies, current_tun_idx, building,
                    ping_count, req_count >>

-----------------------------------------------------------------------------
(***************************************************************************)
(* The keep-alive timer.                                                   *)
(***************************************************************************)

\* sort_by with a comparison that calls an absent tunnel equal to every other
\* one leaves an unspecified order, and `busy' is not modelled.
sort_tunnels_by_busy == sorted_tun_indies' \in Orders

\* send_ping refuses once more than PingLimit pings are unanswered; send_pings
\* then shuts the socket down, which ends the tunnel's task some time later.
send_ping(i) == ping_count[i] <= PingLimit

\* Mutant: the socket of a silent tunnel is not shut down.
send_pings_only ==
    /\ ping_count' = [i \in Tun |-> IF live[i] /\ send_ping(i)
                                      THEN ping_count[i] + 1
                                      ELSE ping_count[i]]
    /\ UNCHANGED up

send_pings ==
    /\ ping_count' = [i \in Tun |-> IF live[i] /\ send_ping(i)
                                      THEN ping_count[i] + 1
                                      ELSE ping_count[i]]
    /\ up' = [i \in Tun |-> up[i] /\ (live[i] => send_ping(i))]

Queued(i) == {k \in DOMAIN reconnect_queue : reconnect_queue[k] = i}

\* Mutant: the queue is not emptied.
process_reconnect_again ==
    /\ building' = [i \in Tun |-> building[i] + Cardinality(Queued(i))]
    /\ UNCHANGED reconnect_queue

process_reconnect ==
    /\ building' = [i \in Tun |-> building[i] + Cardinality(Queued(i))]
    /\ reconnect_queue' = << >>

keepalive ==
    /\ ~discarded
    /\ sort_tunnels_by_busy
    /\ send_pings
    /\ process_reconnect
    /\ UNCHANGED << discarded, current_tun_idx, live, slotVars, req >>

\* The peer answers a ping.  A tunnel whose socket was shut down can still read
\* a pong that it had received before.
on_pong(i) ==
    /\ live[i]
    /\ ping_count' = [ping_count EXCEPT ![i] = 0]
    /\ UNCHANGED << mgrVars, building, live, up, slotVars, req >>

(***************************************************************************)
(* The manager is told to stop.                                            *)
(***************************************************************************)
stop ==
    /\ ~discarded
    /\ discarded' = TRUE
    /\ up' = [i \in Tun |-> FALSE]
    /\ UNCHANGED << reconnect_queue, sorted_tun_indies, current_tun_idx,
                    building, live, ping_count, slotVars, req >>

-----------------------------------------------------------------------------
(***************************************************************************)
(* Requests.                                                               *)
(***************************************************************************)

\* A tunnel is skipped when it is absent or "fulled".
Usable(i) == live[i] /\ req_count[i] + 1 < ReqCap

\* The positions that the two loops of alloc_tunnel_for_req stop at.
FirstUsable(lo, hi) ==
    {n \in lo .. hi : /\ Usable(sorted_tun_indies[n])
                      /\ \A m \in lo .. n - 1 : ~Usable(sorted_tun_indies[m])}

\* Mutant: the search does not start over at the first tunnel.
alloc_tunnel_for_req_once == FirstUsable(current_tun_idx, TunCount - 1)

alloc_tunnel_for_req ==
    LET above == FirstUsable(current_tun_idx, TunCount - 1)
    IN  IF above # {} THEN above ELSE FirstUsable(0, current_tun_idx - 1)

(***************************************************************************)
(* A connection is accepted and given a slot of a tunnel.  When no tunnel  *)
(* can take it, or the manager is discarded, the connection is dropped and *)
(* nothing changes.                                                        *)
(***************************************************************************)
on_request_created(r) ==
    /\ ~Open(r)
    /\ ~discarded
    /\ \E n \in alloc_tunnel_for_req :
         LET i == sorted_tun_indies[n]
             q == reqq[i]
         IN  /\ Len(q.free) > 0
             /\ q.elements[alloc_idx(q)].tag < TagBound
             /\ current_tun_idx' = (n + 1) % TunCount
             /\ reqq' = [reqq EXCEPT ![i] = alloc(q, r)]
             /\ req_count' = [req_count EXCEPT ![i] = @ + 1]
             /\ req' = [req EXCEPT ![r] =
                          [tun_idx |-> i, req_idx |-> alloc_idx(q),
                           req_tag |-> alloc_tag(q), tunnel_tx |-> TRUE,
                           sending |-> TRUE, receiving |-> TRUE]]
    /\ UNCHANGED << discarded, reconnect_queue, sorted_tun_indies, tunVars >>

\* on_request_closed finds its slot: the tunnel that is at the stub's index NOW
\* has the stub's tag in the stub's slot.
Frees(r) == /\ live[req[r].tun_idx]
            /\ free_ok(reqq[req[r].tun_idx], req[r].req_idx, req[r].req_tag)

\* Mutant: the slot is not freed when the request's trigger is still there.
on_request_closed_leaks(r) ==
    LET t == req[r] IN
    IF Frees(r) /\ SlotOf(r).trigger = NoReq
      THEN /\ reqq' = [reqq EXCEPT ![t.tun_idx] =
                         free(reqq[t.tun_idx], t.req_idx, t.req_tag)]
           /\ req_count' = [req_count EXCEPT ![t.tun_idx] = @ - 1]
      ELSE UNCHANGED slotVars

\* TunMgr::on_request_closed and Tunnel::on_request_closed.
on_request_closed(r) ==
    LET t == req[r] IN
    IF Frees(r)
      THEN /\ reqq' = [reqq EXCEPT ![t.tun_idx] =
                         free(reqq[t.tun_idx], t.req_idx, t.req_tag)]
           /\ req_count' = [req_count EXCEPT ![t.tun_idx] = @ - 1]
      ELSE UNCHANGED slotVars

\* One of the two joined futures ends.  When it is the second one, the join
\* completes in the same poll and the request is closed.
EndHalf(r, task) ==
    /\ IF task.sending \/ task.receiving
         THEN req' = [req EXCEPT ![r] = task] /\ UNCHANGED slotVars
         ELSE req' = [req EXCEPT ![r] = Idle] /\ on_request_closed(r)
    /\ UNCHANGED << mgrVars, tunVars >>

SendEnds(r) == EndHalf(r, [req[r] EXCEPT !.sending = FALSE])
ReceiveEnds(r) == EndHalf(r, [req[r] EXCEPT !.receiving = FALSE])

\* The channel's sender is gone and what it held has been written.
SendDrained(r) == req[r].sending /\ SlotOf(r).request_tx # r /\ SendEnds(r)

\* Writing to the client fails.
SendFails(r) == req[r].sending /\ SlotOf(r).request_tx = r /\ SendEnds(r)

\* The trigger was dropped.
ReceiveTripped(r) == req[r].receiving /\ SlotOf(r).trigger # r /\ ReceiveEnds(r)

\* The client finished or reset its side, or its data met a closed channel.
ReceiveFinished(r) == req[r].receiving /\ SlotOf(r).trigger = r /\ ReceiveEnds(r)

(***************************************************************************)
(* Messages of the server about a request.  The server echoes the index    *)
(* and the tag of a ReqCreated message, and alloc only hands out odd tags, *)
(* but the message may be late, and the request long gone.                 *)
(***************************************************************************)
Echoed == {t \in Tag : t % 2 = 1}

\* Cmd::ReqServerFinished: free_request_tx.
on_server_finished(i, s, t) ==
    /\ live[i]
    /\ reqq[i].elements[s].tag = t
    /\ reqq[i].elements[s].request_tx # NoReq
    /\ reqq' = [reqq EXCEPT ![i].elements[s].request_tx = NoReq]
    /\ UNCHANGED << mgrVars, tunVars, req_count, req >>

\* Cmd::ReqServerClosed.
on_server_closed(i, s, t) ==
    /\ live[i]
    /\ free_ok(reqq[i], s, t)
    /\ reqq' = [reqq EXCEPT ![i] = free(reqq[i], s, t)]
    /\ req_count' = [req_count EXCEPT ![i] = @ - 1]
    /\ UNCHANGED << mgrVars, tunVars, req >>

-----------------------------------------------------------------------------
TunnelNext(i) ==
    \/ on_tunnel_created(i)
    \/ on_tunnel_build_error(i)
    \/ on_tunnel_closed(i)
    \/ on_pong(i)
    \/ \E s \in Slot, t \in Echoed :
         on_server_finished(i, s, t) \/ on_server_closed(i, s, t)

RequestNext(r) ==
    \/ on_request_created(r)
    \/ SendDrained(r)
    \/ SendFails(r)
    \/ ReceiveTripped(r)
    \/ ReceiveFinished(r)

Next ==
    \/ \E i \in Tun : TunnelNext(i)
    \/ \E r \in Req : RequestNext(r)
    \/ keepalive
    \/ stop

Spec == Init /\ [][Next]_vars

(***************************************************************************)
(* Fairness.  The timer fires every 15 seconds while the manager is not    *)
(* discarded.  A connection attempt ends, if only by its time limit.  The  *)
(* task of a tunnel whose socket was shut down reads the end of the stream *)
(* and ends.  A dropped trigger is noticed.  The last one is about the     *)
(* client: it reads what is sent to it or goes away, since no time limit   *)
(* is set on writing.  Nothing is assumed of the peer or of the network.   *)
(***************************************************************************)
BuildEnds(i) == on_tunnel_created(i) \/ on_tunnel_build_error(i)
ShutTunnelEnds(i) == ~up[i] /\ on_tunnel_closed(i)

Fairness ==
    /\ WF_vars(keepalive)
    /\ \A i \in Tun : WF_vars(BuildEnds(i)) /\ WF_vars(ShutTunnelEnds(i))
    /\ \A r \in Req : WF_vars(ReceiveTripped(r)) /\ WF_vars(SendDrained(r))

FairSpec == Spec /\ Fairness

-----------------------------------------------------------------------------
(***************************************************************************)
(* Properties.                                                             *)
(***************************************************************************)

\* The variables have their types.  In particular req_count, a u16 that the
\* code decrements without a test, never goes below zero, and ping_count, a
\* u8, stops at PingLimit + 1.
TypeOK ==
    /\ discarded \in BOOLEAN
    /\ reconnect_queue \in Seq(Tun)
    /\ sorted_tun_indies \in Orders
    /\ current_tun_idx \in Tun
    /\ building \in [Tun -> Nat]
    /\ live \in [Tun -> BOOLEAN]
    /\ up \in [Tun -> BOOLEAN]
    /\ reqq \in [Tun -> Table]
    /\ req_count \in [Tun -> 0 .. ReqCap]
    /\ ping_count \in [Tun -> 0 .. PingLimit + 1]
    /\ req \in [Req -> Task]

\* Who is responsible for an index: at most one connection attempt, its live
\* tunnel, or one entry of reconnect_queue, and never two of them.  So the
\* panic of on_tunnel_created ("there is tunnel at {} already!") is never met.
\* While the manager is not discarded there is always one: no index is lost
\* to reconnection.
OneOwner ==
    /\ \A i \in Tun : building[i] <= 1 /\ ~(live[i] /\ building[i] = 1)
    /\ \A k \in DOMAIN reconnect_queue :
         LET i == reconnect_queue[k] IN ~live[i] /\ building[i] = 0
    /\ \A k, l \in DOMAIN reconnect_queue :
         reconnect_queue[k] = reconnect_queue[l] => k = l
    /\ ~discarded => \A i \in Tun : \/ live[i] \/ building[i] = 1
                                     \/ \E k \in DOMAIN reconnect_queue :
                                          reconnect_queue[k] = i

\* Reqq::free does not test that a slot is in use, yet no close of a request,
\* by its own task, by a server message or by both in any order, frees a slot
\* twice: the table of every live tunnel is accounted for and req_count is the
\* number of its slots in use.
SlotAccounting == \A i \in Tun : live[i] => Accounted(reqq[i], req_count[i])

\* No slot leaks: a slot in use belongs to a request task that is still running
\* and holds a stub with this very index, slot and tag, over a channel to this
\* tunnel, so that the end of the task frees the slot.
SlotOwned ==
    \A i \in Tun, s \in Slot :
      LET e == reqq[i].elements[s] IN
      live[i] /\ e.trigger # NoReq =>
        LET t == req[e.trigger] IN
        /\ Open(e.trigger)
        /\ t.tun_idx = i /\ t.req_idx = s /\ t.req_tag = e.tag /\ t.tunnel_tx

\* The tags that stubs hold are odd, so that none of them names a free slot.
StubTags == \A r \in Req : Open(r) => req[r].req_tag % 2 = 1

\* A stub of this life of a tunnel has a tag that its slot has now or had before,
\* and no two of them have the same slot and tag.  This holds as long as tags do
\* not wrap around in the life of a tunnel: TagBound + 2 <= TagMod.
LiveStub(r) == Open(r) /\ req[r].tunnel_tx

TagsOrdered ==
    /\ \A i \in Tun, s \in Slot :
         LET t == reqq[i].elements[s].tag IN
         live[i] => t <= TagBound + 1 /\ (t % 2 = 1 => t <= TagBound)
    /\ \A r \in Req : LiveStub(r) => live[req[r].tun_idx] /\ req[r].req_tag <= SlotOf(r).tag
    /\ \A r, u \in Req :
         /\ LiveStub(r) /\ LiveStub(u)
         /\ req[r].tun_idx = req[u].tun_idx /\ req[r].req_idx = req[u].req_idx
         /\ req[r].req_tag = req[u].req_tag
         => r = u

\* The inductive invariant of the proofs (module TunMgrProofs).
IInv == TypeOK /\ OneOwner /\ SlotAccounting /\ SlotOwned /\ StubTags

\* A request is refused only if every live tunnel is full: the two loops of
\* alloc_tunnel_for_req miss no tunnel, whatever order the last keep-alive
\* left, and the tunnel they find has a free slot, so that Reqq::alloc never
\* fails.
UsableIsFound ==
    /\ (\E i \in Tun : Usable(i)) => alloc_tunnel_for_req # {}
    /\ \A n \in alloc_tunnel_for_req : reqq[sorted_tun_indies[n]].free # << >>

\* The step closes the request r and frees a slot for it.
Closes(r) == Open(r) /\ ~Open(r)' /\ Frees(r)

\* As long as tags do not wrap around, a request that closes over the tunnel
\* it was created on frees its own slot, never that of a later request that
\* was given the same slot after a ReqServerClosed.
OwnFree ==
    [][\A r \in Req : Closes(r) /\ req[r].tunnel_tx => SlotOf(r).trigger = r]_vars

\* "send to peer, should always succeed" (tunnel.rs:461): when the close of a
\* request frees a slot, the channel that carries ReqClientClosed is open.
\* Stated for requests whose last future is the sending one, which a client
\* that reads slowly can hold up for as long as it likes.
SendToPeerSucceeds ==
    [][\A r \in Req :
         Closes(r) /\ ~req[r].receiving => req[r].tunnel_tx]_vars

\* A tunnel that stays up for ever is answered for ever: one whose peer falls
\* silent, without closing the connection, is given up.
SilentPeerIsDropped ==
    \A i \in Tun : <>[]live[i] => []<>(ping_count[i] = 0)

\* Where the Pool has index i: who is responsible for it.
Owners(i) == {o \in {"attempt", "up", "waiting"} :
                \/ o = "attempt" /\ building[i] > 0
                \/ o = "up" /\ live[i]
                \/ o = "waiting" /\ Queued(i) # {} /\ ~discarded}

PoolPlace(i) ==
    IF Owners(i) = {} THEN IF discarded THEN "gone" ELSE "lost"
    ELSE IF Cardinality(Owners(i)) > 1 \/ building[i] > 1 \/ Cardinality(Queued(i)) > 1
      THEN "twice"
    ELSE CHOOSE o \in Owners(i) : TRUE

PoolWhere == [i \in Tun |-> PoolPlace(i)]

P == INSTANCE Pool WITH Index <- Tun, where <- PoolWhere, stopped <- discarded

\* The manager implements a Pool of tunnels: no index is lost to reconnection
\* or connected twice, whatever the order in which attempts end, tunnels die
\* and the timer fires; a discarded manager takes no tunnel that a late
\* attempt brings.
ImplementsPool == P!Spec

\* Attempts end, what waits is connected again, and once the manager is discarded
\* every tunnel is gone for good.
PoolProgress == P!Progress

\* Once the manager is discarded, connection attempts under way included,
\* everything ends and stays ended, so that the thread can be joined.
StopQuiesces ==
    discarded ~> [](/\ \A i \in Tun : ~live[i] /\ building[i] = 0
                    /\ \A r \in Req : ~Open(r))
=============================================================================
