------------------------------ MODULE XTunnel -------------------------------
(***************************************************************************)
(* The reverse tunnel (src/xport): the server asks this side to open       *)
(* connections to local ports, so the roles of module Tunnel are swapped.  *)
(* The peer chooses the slot and the tag of a request; this side keeps a   *)
(* table of the slots (XReqq, xrequest.rs) and a task per request          *)
(* (xreqserv.rs).  One XTunnel object lives through all connections of the *)
(* reverse tunnel (xtunserv.rs), so its table does too.                    *)
(*                                                                         *)
(* One single-threaded executor: a handler is one action.  The peer is not *)
(* part of the repository.  It is modelled with a table of its own and     *)
(* learns with a delay that a request was closed here; what it sends       *)
(* arrives at once, since a delay of it and a delay of what it knows       *)
(* cannot be told apart here.                                              *)
(***************************************************************************)
EXTENDS Integers, FiniteSets

CONSTANTS
    ReqCap,     \* number of slots: 128
    PingLimit,  \* unanswered pings before the tunnel is given up: 5
    TagBound,   \* bound of the model: tags the peer uses in one connection
    CountMod,   \* the values of req_count, a u16: 2^16
    Req,        \* the request tasks
    NoReq       \* None: no sender, no trigger

ASSUME XTunnelAssumption ==
    /\ ReqCap \in Nat \ {0}
    /\ PingLimit \in Nat
    /\ TagBound \in Nat
    /\ CountMod \in Nat \ {0}
    /\ NoReq \notin Req

Slot == 0 .. ReqCap - 1
Tag == 0 .. TagBound

VARIABLES
    discarded,       \* XTunnel.discarded
    need_reconnect,  \* XTunnel.need_reconnect
    connecting,      \* number of connection attempts under way
    tun_tx,          \* XTunnel.tun_tx is Some; the tunnel's task is running
    rawfd,           \* XTunnel.rawfd is Some: the socket was not shut down
    ping_count,      \* XTunnel.ping_count
    elements,        \* XTunnel.requests
    req_count,       \* XTunnel.req_count
    task,            \* the request tasks
    peer,            \* the peer's table: the tag of its open request, or 0
    peer_tag,        \* the last tag that the peer used
    to_peer          \* ReqServerClosed messages on their way

connVars == << discarded, need_reconnect, connecting, tun_tx, rawfd, ping_count >>
reqVars == << elements, req_count, task >>
peerVars == << peer, peer_tag, to_peer >>
vars == << connVars, reqVars, peerVars >>

XRequest == [tag : Tag, is_inused : BOOLEAN, request_tx : Req \cup {NoReq},
             trigger : Req \cup {NoReq}]

\* now: the connection that the request was created on has not been closed.
Task == [st : {"idle", "connecting", "open"}, req_idx : Slot, req_tag : Tag,
         now : BOOLEAN, sending : BOOLEAN, receiving : BOOLEAN]

Idle == [st |-> "idle", req_idx |-> 0, req_tag |-> 0, now |-> FALSE,
         sending |-> FALSE, receiving |-> FALSE]

clean_req(e) == [e EXCEPT !.request_tx = NoReq, !.trigger = NoReq,
                          !.is_inused = FALSE]

\* Mutant: the tag is not compared.
check_req_valid_untagged(s, t) == elements[s].is_inused

\* XReqq::free and check_req_valid make the same tests.
check_req_valid(s, t) == elements[s].tag = t /\ elements[s].is_inused

-----------------------------------------------------------------------------
(***************************************************************************)
(* XTunnel::new and XTunnel::start: a first connection attempt.            *)
(***************************************************************************)
Init ==
    /\ discarded = FALSE
    /\ need_reconnect = FALSE
    /\ connecting = 1
    /\ tun_tx = FALSE
    /\ rawfd = FALSE
    /\ ping_count = 0
    /\ elements = [s \in Slot |-> [tag |-> 0, is_inused |-> FALSE,
                                   request_tx |-> NoReq, trigger |-> NoReq]]
    /\ req_count = 0
    /\ task = [r \in Req |-> Idle]
    /\ peer = [s \in Slot |-> 0]
    /\ peer_tag = [s \in Slot |-> 0]
    /\ to_peer = {}

\* Mutant: a discarded XTunnel is not noticed.
on_tunnel_created_unchecked ==
    /\ connecting > 0
    /\ connecting' = connecting - 1
    /\ tun_tx' = TRUE
    /\ rawfd' = TRUE
    /\ peer' = [s \in Slot |-> 0]
    /\ peer_tag' = [s \in Slot |-> 0]
    /\ to_peer' = {}
    /\ UNCHANGED << discarded, need_reconnect, ping_count, reqVars >>

(***************************************************************************)
(* A connection attempt succeeds; the peer starts with a fresh table.      *)
(***************************************************************************)
on_tunnel_created ==
    /\ connecting > 0
    /\ connecting' = connecting - 1
    /\ IF discarded
         THEN UNCHANGED << tun_tx, rawfd, peerVars >>
         ELSE /\ tun_tx' = TRUE
              /\ rawfd' = TRUE
              /\ peer' = [s \in Slot |-> 0]
              /\ peer_tag' = [s \in Slot |-> 0]
              /\ to_peer' = {}
    /\ UNCHANGED << discarded, need_reconnect, ping_count, reqVars >>

on_tunnel_build_error ==
    /\ connecting > 0
    /\ connecting' = connecting - 1
    /\ need_reconnect' = (need_reconnect \/ ~discarded)
    /\ UNCHANGED << discarded, tun_tx, rawfd, ping_count, reqVars, peerVars >>

(***************************************************************************)
(* The task of the tunnel ends.  A discarded XTunnel returns before the    *)
(* table is cleared.                                                       *)
(***************************************************************************)
clear_all ==
    elements' = IF discarded THEN elements
                             ELSE [s \in Slot |-> clean_req(elements[s])]

on_tunnel_closed ==
    /\ tun_tx
    /\ tun_tx' = FALSE
    /\ rawfd' = FALSE
    /\ need_reconnect' = (need_reconnect \/ ~discarded)
    /\ clear_all
    /\ task' = [r \in Req |-> [task[r] EXCEPT !.now = FALSE]]
    /\ peer' = [s \in Slot |-> 0]
    /\ peer_tag' = [s \in Slot |-> 0]
    /\ to_peer' = {}
    /\ UNCHANGED << discarded, connecting, ping_count, req_count >>

(***************************************************************************)
(* The keep-alive timer: send_ping, then process_reconnect.                *)
(***************************************************************************)
Silent == ping_count > PingLimit

\* send_ping counts the pings that no pong has answered; beyond the limit the
\* tunnel is closed instead.
send_ping == IF tun_tx /\ ~Silent THEN ping_count + 1 ELSE ping_count

\* Mutant: need_reconnect is not reset.
keepalive_again ==
    /\ ~discarded
    /\ rawfd' = (rawfd /\ ~Silent)
    /\ connecting' = IF need_reconnect THEN connecting + 1 ELSE connecting
    /\ ping_count' = IF need_reconnect THEN 0 ELSE send_ping
    /\ UNCHANGED << discarded, need_reconnect, tun_tx, reqVars, peerVars >>

\* Mutant: the socket of a silent tunnel is not shut down.
keepalive_waits ==
    /\ ~discarded
    /\ connecting' = IF need_reconnect THEN connecting + 1 ELSE connecting
    /\ ping_count' = IF need_reconnect THEN 0 ELSE send_ping
    /\ need_reconnect' = FALSE
    /\ UNCHANGED << discarded, rawfd, tun_tx, reqVars, peerVars >>

keepalive ==
    /\ ~discarded
    /\ rawfd' = (rawfd /\ ~Silent)
    /\ IF need_reconnect
         THEN /\ connecting' = connecting + 1
              /\ ping_count' = 0
              /\ need_reconnect' = FALSE
         ELSE /\ ping_count' = send_ping
              /\ UNCHANGED << connecting, need_reconnect >>
    /\ UNCHANGED << discarded, tun_tx, reqVars, peerVars >>

on_pong ==
    /\ tun_tx
    /\ ping_count' = 0
    /\ UNCHANGED << discarded, need_reconnect, connecting, tun_tx, rawfd, reqVars,
                    peerVars >>

stop ==
    /\ ~discarded
    /\ discarded' = TRUE
    /\ rawfd' = FALSE
    /\ UNCHANGED << need_reconnect, connecting, tun_tx, ping_count, reqVars, peerVars >>

-----------------------------------------------------------------------------
(***************************************************************************)
(* Messages of the peer.                                                   *)
(***************************************************************************)

\* The arithmetic of a u16 without overflow checks (the release build).
Wrap(n) == n % CountMod

\* A task that is not running and that the table does not refer to any more.
Unused(r) == task[r].st = "idle" /\ \A s \in Slot : elements[s].trigger # r

\* Mutant: the request is not counted.
on_req_created_uncounted(s, t, r) ==
    LET e == [tag |-> t, is_inused |-> TRUE, request_tx |-> NoReq, trigger |-> NoReq]
    IN  IF discarded
          THEN /\ elements' = [elements EXCEPT ![s] = e]
               /\ UNCHANGED << req_count, task >>
          ELSE /\ elements' = [elements EXCEPT ![s] =
                                 [e EXCEPT !.request_tx = r, !.trigger = r]]
               /\ task' = [task EXCEPT ![r] =
                             [st |-> "connecting", req_idx |-> s, req_tag |-> t,
                              now |-> TRUE, sending |-> FALSE, receiving |-> FALSE]]
               /\ UNCHANGED req_count

\* Cmd::ReqCreated: the slot is taken, whatever was in it.  The request is
\* counted and its task starts to connect, unless the XTunnel is discarded.
on_req_created(s, t, r) ==
    LET e == [tag |-> t, is_inused |-> TRUE, request_tx |-> NoReq, trigger |-> NoReq]
    IN  IF discarded
          THEN /\ elements' = [elements EXCEPT ![s] = e]
               /\ UNCHANGED << req_count, task >>
          ELSE /\ elements' = [elements EXCEPT ![s] =
                                 [e EXCEPT !.request_tx = r, !.trigger = r]]
               /\ req_count' = Wrap(req_count + 1)
               /\ task' = [task EXCEPT ![r] =
                             [st |-> "connecting", req_idx |-> s, req_tag |-> t,
                              now |-> TRUE, sending |-> FALSE, receiving |-> FALSE]]

PeerCreates(s, r) ==
    LET t == peer_tag[s] + 1 IN
    /\ tun_tx
    /\ peer[s] = 0
    /\ t <= TagBound
    /\ Unused(r)
    /\ peer' = [peer EXCEPT ![s] = t]
    /\ peer_tag' = [peer_tag EXCEPT ![s] = t]
    /\ on_req_created(s, t, r)
    /\ UNCHANGED << connVars, to_peer >>

\* Cmd::ReqClientFinished: free_request_tx.
PeerFinishes(s) ==
    /\ tun_tx
    /\ peer[s] # 0
    /\ elements[s].tag = peer[s]
    /\ elements[s].request_tx # NoReq
    /\ elements' = [elements EXCEPT ![s].request_tx = NoReq]
    /\ UNCHANGED << connVars, req_count, task, peerVars >>

\* Cmd::ReqClientClosed.
PeerCloses(s) ==
    /\ tun_tx
    /\ peer[s] # 0
    /\ peer' = [peer EXCEPT ![s] = 0]
    /\ IF check_req_valid(s, peer[s])
         THEN /\ elements' = [elements EXCEPT ![s] = clean_req(@)]
              /\ req_count' = IF req_count > 0 THEN req_count - 1 ELSE req_count
         ELSE UNCHANGED << elements, req_count >>
    /\ UNCHANGED << connVars, task, peer_tag, to_peer >>

\* The peer is told that a request was closed here.
PeerToldClosed(s, t) ==
    /\ << s, t >> \in to_peer
    /\ to_peer' = to_peer \ {<< s, t >>}
    /\ peer' = IF peer[s] = t THEN [peer EXCEPT ![s] = 0] ELSE peer
    /\ UNCHANGED << connVars, reqVars, peer_tag >>

-----------------------------------------------------------------------------
(***************************************************************************)
(* The request tasks.                                                      *)
(***************************************************************************)

SlotOf(r) == elements[task[r].req_idx]

Frees(r) == tun_tx /\ check_req_valid(task[r].req_idx, task[r].req_tag)

\* Mutant: the peer is told only by requests of its own connection.
on_request_closed_untold(r) ==
    IF Frees(r)
      THEN /\ elements' = [elements EXCEPT ![task[r].req_idx] = clean_req(@)]
           /\ req_count' = Wrap(req_count - 1)
           /\ to_peer' = IF task[r].now
                           THEN to_peer \cup {<< task[r].req_idx, task[r].req_tag >>}
                           ELSE to_peer
      ELSE UNCHANGED << elements, req_count, to_peer >>

\* The message goes to the tunnel that is up now.
on_request_closed(r) ==
    IF Frees(r)
      THEN /\ elements' = [elements EXCEPT ![task[r].req_idx] = clean_req(@)]
           /\ req_count' = Wrap(req_count - 1)
           /\ to_peer' = to_peer \cup {<< task[r].req_idx, task[r].req_tag >>}
      ELSE UNCHANGED << elements, req_count, to_peer >>

TaskEnds(r) ==
    /\ task' = [task EXCEPT ![r] = Idle]
    /\ on_request_closed(r)
    /\ UNCHANGED << connVars, peer, peer_tag >>

\* The connection to the local port is there.
Connected(r) ==
    /\ task[r].st = "connecting"
    /\ task' = [task EXCEPT ![r].st = "open", ![r].sending = TRUE,
                            ![r].receiving = TRUE]
    /\ UNCHANGED << connVars, elements, req_count, peerVars >>

\* It takes more than 5 seconds: on_request_connect_error.
ConnectTimeout(r) == task[r].st = "connecting" /\ TaskEnds(r)

\* It is refused: the task ends, and the slot stays in use.
ConnectRefused(r) ==
    /\ task[r].st = "connecting"
    /\ task' = [task EXCEPT ![r] = Idle]
    /\ UNCHANGED << connVars, elements, req_count, peerVars >>

\* One of the joined futures ends; with the second one, the task does.
EndHalf(r, t) ==
    IF t.sending \/ t.receiving
      THEN task' = [task EXCEPT ![r] = t]
           /\ UNCHANGED << connVars, elements, req_count, peerVars >>
      ELSE TaskEnds(r)

\* The sending future ends when its sender was dropped, or when a write of data
\* that the peer sent fails.
SendDrained(r) ==
    /\ task[r].sending
    /\ SlotOf(r).request_tx # r
    /\ EndHalf(r, [task[r] EXCEPT !.sending = FALSE])

SendFails(r) ==
    /\ task[r].sending
    /\ SlotOf(r).request_tx = r
    /\ tun_tx
    /\ EndHalf(r, [task[r] EXCEPT !.sending = FALSE])

\* The receiving future ends when its trigger was dropped, or when the local
\* connection ends.
ReceiveTripped(r) ==
    /\ task[r].receiving
    /\ SlotOf(r).trigger # r
    /\ EndHalf(r, [task[r] EXCEPT !.receiving = FALSE])

ReceiveFinished(r) ==
    /\ task[r].receiving
    /\ SlotOf(r).trigger = r
    /\ EndHalf(r, [task[r] EXCEPT !.receiving = FALSE])

-----------------------------------------------------------------------------
ConnNext == \/ on_tunnel_created \/ on_tunnel_build_error \/ on_tunnel_closed
            \/ keepalive \/ on_pong \/ stop

PeerNext(s) == \/ \E r \in Req : PeerCreates(s, r)
               \/ PeerFinishes(s)
               \/ PeerCloses(s)
               \/ \E t \in Tag : PeerToldClosed(s, t)

TaskNext(r) == \/ Connected(r) \/ ConnectTimeout(r) \/ ConnectRefused(r)
               \/ SendDrained(r) \/ SendFails(r)
               \/ ReceiveTripped(r) \/ ReceiveFinished(r)

Next == ConnNext \/ (\E s \in Slot : PeerNext(s)) \/ (\E r \in Req : TaskNext(r))

Spec == Init /\ [][Next]_vars

(***************************************************************************)
(* Fairness: the timer fires, connection attempts end (both have a time    *)
(* limit), the end of a stream and a dropped trigger or sender are         *)
(* noticed, and a local connection ends sooner or later.  Nothing is       *)
(* assumed of the peer.                                                    *)
(***************************************************************************)
BuildEnds == on_tunnel_created \/ on_tunnel_build_error
ShutTunnelEnds == ~rawfd /\ on_tunnel_closed
ConnectEnds(r) == Connected(r) \/ ConnectTimeout(r) \/ ConnectRefused(r)

Fairness ==
    /\ WF_vars(keepalive) /\ WF_vars(BuildEnds) /\ WF_vars(ShutTunnelEnds)
    /\ \A r \in Req : /\ WF_vars(ConnectEnds(r)) /\ WF_vars(SendDrained(r))
                      /\ WF_vars(ReceiveTripped(r)) /\ WF_vars(ReceiveFinished(r))

FairSpec == Spec /\ Fairness

-----------------------------------------------------------------------------
(***************************************************************************)
(* Properties.                                                             *)
(***************************************************************************)

\* The variables have their types; ping_count stops at PingLimit + 1.
TypeOK ==
    /\ discarded \in BOOLEAN /\ need_reconnect \in BOOLEAN
    /\ connecting \in Nat /\ tun_tx \in BOOLEAN /\ rawfd \in BOOLEAN
    /\ ping_count \in 0 .. PingLimit + 1
    /\ elements \in [Slot -> XRequest]
    /\ req_count \in 0 .. CountMod - 1
    /\ task \in [Req -> Task]
    /\ peer \in [Slot -> Tag] /\ peer_tag \in [Slot -> Tag]
    /\ to_peer \in SUBSET (Slot \X Tag)

InUse == {s \in Slot : elements[s].is_inused}

\* How far req_count is above the slots in use.
Drift == req_count - Cardinality(InUse)

\* req_count is never reset, and drifts from the slots in use.  It does so for two
\* reasons only: the requests of a lost connection stay counted, and the u16 wraps.
\* No request is counted off twice or not counted, so that the unguarded decrement
\* of on_request_closed (xtunnel.rs:447) can underflow only after such a wrap.
CountKeepsPace ==
    [][Drift >= 0 /\ Drift' # Drift /\ ~discarded' =>
         \/ tun_tx /\ ~tun_tx' /\ InUse' = {} /\ req_count' = req_count
         \/ req_count = CountMod - 1 /\ req_count' = 0]_vars

\* The peer does not keep a request that this side has let go of: the message
\* that closes it is on its way, whichever task freed the slot and on whichever
\* connection that task was created.
PeerWillKnow ==
    \A s \in Slot :
      tun_tx /\ peer[s] # 0 =>
        check_req_valid(s, peer[s]) \/ << s, peer[s] >> \in to_peer

\* A request that closes over the connection it was created on frees its own
\* slot, not that of a later request in the same slot.
OwnFree ==
    [][\A r \in Req :
         task[r].st # "idle" /\ task'[r].st = "idle" /\ task[r].now
           /\ elements' # elements => SlotOf(r).trigger = r]_vars

\* A connection that stays up for ever is answered for ever.
SilentPeerIsDropped == <>[]tun_tx => []<>(ping_count = 0)

\* Where the Pool has the one connection: who is responsible for it.
Waiting == need_reconnect /\ ~discarded

Owners == connecting + (IF tun_tx THEN 1 ELSE 0) + (IF Waiting THEN 1 ELSE 0)

PoolPlace == IF Owners > 1 THEN "twice"
             ELSE IF tun_tx THEN "up"
             ELSE IF Waiting THEN "waiting"
             ELSE IF connecting = 1 THEN "attempt"
             ELSE IF discarded THEN "gone" ELSE "lost"

PoolWhere == [i \in {0} |-> PoolPlace]

P == INSTANCE Pool WITH Index <- {0}, where <- PoolWhere, stopped <- discarded

\* The XTunnel implements a Pool of one connection.  There is never a second
\* connection or attempt, so that its table never serves two peers and
\* on_tunnel_created, which does not look, never overwrites the sender of a
\* live tunnel; a lost connection is tried again until the XTunnel is stopped.
ImplementsPool == P!Spec

\* An attempt ends, a lost connection is tried again by some keep-alive, and once
\* the XTunnel is stopped its connection is gone for good.
PoolProgress == P!Progress

\* "XTunnel is discarded, tun will be discard" (xtunnel.rs:107): after stop the
\* tunnel and its requests end, so that cleanup_subservices can join the thread.
StopQuiesces ==
    discarded ~> (~tun_tx /\ connecting = 0 /\ \A r \in Req : task[r].st = "idle")

-----------------------------------------------------------------------------
(***************************************************************************)
(* The inductive invariant that the proofs rest on.                        *)
(***************************************************************************)

\* The connection is being attempted, is up or is to be tried again, and never
\* two of these; until the XTunnel is discarded it is always one.
OneOwner ==
    /\ connecting <= 1
    /\ ~(connecting = 1 /\ tun_tx)
    /\ need_reconnect => connecting = 0 /\ ~tun_tx
    /\ ~discarded => connecting = 1 \/ tun_tx \/ need_reconnect

\* A task of the present connection has a tag that the peer has used in it, and
\* the slot that still has this tag belongs to the task.
TagsOrdered ==
    \A r \in Req : task[r].now =>
      /\ tun_tx
      /\ task[r].req_tag <= peer_tag[task[r].req_idx]
      /\ check_req_valid(task[r].req_idx, task[r].req_tag) => SlotOf(r).trigger = r

\* A slot in use has the tag that the peer has open in it, and there is none without
\* a connection.  What the peer is told of is closed here.
SlotsKnown ==
    \A s \in Slot :
      /\ peer[s] <= peer_tag[s]
      /\ elements[s].is_inused => /\ elements[s].tag # 0
                                  /\ tun_tx \/ discarded
                                  /\ tun_tx => peer[s] = elements[s].tag
      /\ \A t \in Tag : << s, t >> \in to_peer =>
                          t <= peer_tag[s] /\ ~check_req_valid(s, t)

IInv == TypeOK /\ OneOwner /\ SlotsKnown /\ PeerWillKnow /\ TagsOrdered
=============================================================================
