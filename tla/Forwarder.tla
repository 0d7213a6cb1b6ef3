----------------------------- MODULE Forwarder ------------------------------
(***************************************************************************)
(* The DNS forwarder (src/dns/forwarder.rs) with its UDP server            *)
(* (udpserv.rs), its DNS tunnels (dnstunnel.rs, dnstunbuilder.rs) and the  *)
(* local resolver (lresolver.rs).                                          *)
(*                                                                         *)
(* The queries of the clients come in over one UDP socket.  A listed name  *)
(* (module DomainMap) is asked through a tunnel, together with the address *)
(* to answer to; any other name is asked at the local DNS server, and the  *)
(* address to answer to is remembered under the name and the id of the     *)
(* query, for one to two periods of the keep-alive timer.                  *)
(*                                                                         *)
(* One single-threaded executor: a handler is one action.  A panic ends    *)
(* the task it happens in and nothing else.  A query is the pair of its    *)
(* name and id; all names here are asked with one id, since the key is     *)
(* built from both.  Packets that cannot be parsed change nothing and are  *)
(* left out, as are round-trip times, so that the tunnel chosen is an      *)
(* arbitrary one, and work_as_global, with which every query goes through  *)
(* a tunnel.  What an answer of a tunnel does to the ipset and the         *)
(* access log is in module Access.                                         *)
(***************************************************************************)
EXTENDS DomainMap, Integers, FiniteSets

CONSTANTS
    Tun,        \* indices of the DNS tunnels: 0 .. dns_tunnel_number - 1
    PingLimit,  \* unanswered pings before a tunnel is given up: 5
    Query,      \* the queries of the clients, by their names
    Client,     \* their addresses
    NoClient,   \* None
    Lists,      \* the lists of domains that the cloud may send
    AskBound    \* bound of the model: local queries without an answer

ASSUME ForwarderAssumption ==
    /\ PingLimit \in Nat
    /\ AskBound \in Nat
    /\ NoClient \notin Client
    /\ Query \subseteq Seq(Label)
    /\ \A l \in Lists : l \subseteq Seq(Label)

VARIABLES
    discarded,        \* Forwarder.discarded
    reconnect_queue,  \* Forwarder.reconnect_queue
    building,         \* number of connection attempts under way, per index
    tun,              \* Forwarder.tunnels[i] and its task: "none", "up", "shut" when we
                      \* have shut its socket, "crashed" when the task has panicked
    ping_count,       \* DnsTunnel.ping_count
    asked,            \* the peer of the tunnel has queries to answer
    server,           \* the task of the UdpServer is running
    list,             \* the list of domains given last
    domap,            \* Forwarder.domap
    lres,             \* LocalResolver: its task, tx and fw
    request_memo, request_memo_history,
    upstream,         \* queries that the local DNS server got from the socket
    owed              \* local queries of each client without an answer

poolVars == << reconnect_queue, building, tun, ping_count, asked >>
memoVars == << request_memo, request_memo_history >>
resVars == << lres, upstream, owed >>
vars == << discarded, poolVars, server, list, domap, memoVars, resVars >>

NoMemo == [q \in Query |-> NoClient]

Unanswered == Cardinality({x \in Client \X Query \X (1 .. AskBound) :
                             x[3] <= owed[<< x[1], x[2] >>]})

-----------------------------------------------------------------------------
(***************************************************************************)
(* Forwarder::new and a successful Forwarder::init.                        *)
(***************************************************************************)
new_domap(l) == insert_all(EmptyTree, l)

Init ==
    /\ discarded = FALSE
    /\ reconnect_queue = << >>
    /\ building = [i \in Tun |-> 1]
    /\ tun = [i \in Tun |-> "none"]
    /\ ping_count = [i \in Tun |-> 0]
    /\ asked = [i \in Tun |-> FALSE]
    /\ server = TRUE
    /\ list \in Lists
    /\ domap = new_domap(list)
    /\ lres = [task |-> TRUE, tx |-> TRUE, fw |-> TRUE]
    /\ request_memo = NoMemo
    /\ request_memo_history = NoMemo
    /\ upstream = {}
    /\ owed = [x \in Client \X Query |-> 0]

\* Mutant: the new domains are added to the old ones.
update_domains_merges(l) ==
    /\ ~discarded
    /\ list' = l
    /\ domap' = insert_all(domap, l)
    /\ UNCHANGED << discarded, poolVars, server, memoVars, resVars >>

update_domains(l) ==
    /\ ~discarded
    /\ list' = l
    /\ domap' = new_domap(l)
    /\ UNCHANGED << discarded, poolVars, server, memoVars, resVars >>

-----------------------------------------------------------------------------
(***************************************************************************)
(* The tunnels.                                                            *)
(***************************************************************************)

\* Mutant: a discarded forwarder is not noticed.
on_tunnel_created_unchecked(i) ==
    /\ building[i] > 0
    /\ tun[i] = "none"
    /\ building' = [building EXCEPT ![i] = @ - 1]
    /\ tun' = [tun EXCEPT ![i] = "up"]
    /\ ping_count' = [ping_count EXCEPT ![i] = 0]
    /\ asked' = [asked EXCEPT ![i] = FALSE]
    /\ UNCHANGED << discarded, reconnect_queue, server, list, domap, memoVars, resVars >>

\* A connection attempt succeeds; a discarded forwarder refuses the tunnel.
on_tunnel_created(i) ==
    /\ building[i] > 0
    /\ building' = [building EXCEPT ![i] = @ - 1]
    /\ IF discarded
         THEN UNCHANGED << tun, ping_count, asked >>
         ELSE /\ tun[i] = "none"
              /\ tun' = [tun EXCEPT ![i] = "up"]
              /\ ping_count' = [ping_count EXCEPT ![i] = 0]
              /\ asked' = [asked EXCEPT ![i] = FALSE]
    /\ UNCHANGED << discarded, reconnect_queue, server, list, domap, memoVars, resVars >>

on_tunnel_build_error(i) ==
    /\ building[i] > 0
    /\ building' = [building EXCEPT ![i] = @ - 1]
    /\ reconnect_queue' = IF discarded THEN reconnect_queue
                                       ELSE Append(reconnect_queue, i)
    /\ UNCHANGED << discarded, tun, ping_count, asked, server, list, domap, memoVars,
                    resVars >>

\* Mutant: the tunnel is not queued for reconnection.
on_tunnel_closed_forgets(i) ==
    /\ tun[i] \in {"up", "shut"}
    /\ tun' = [tun EXCEPT ![i] = "none"]
    /\ UNCHANGED << discarded, reconnect_queue, building, ping_count, asked, server,
                    list, domap, memoVars, resVars >>

\* The task of a tunnel ends.  The index is queued even after stop.
on_tunnel_closed(i) ==
    /\ tun[i] \in {"up", "shut"}
    /\ tun' = [tun EXCEPT ![i] = "none"]
    /\ reconnect_queue' = Append(reconnect_queue, i)
    /\ UNCHANGED << discarded, building, ping_count, asked, server, list, domap,
                    memoVars, resVars >>

on_pong(i) ==
    /\ tun[i] \in {"up", "shut"}
    /\ ping_count' = [ping_count EXCEPT ![i] = 0]
    /\ UNCHANGED << discarded, reconnect_queue, building, tun, asked, server, list,
                    domap, memoVars, resVars >>

\* The answer to a query is handed to the UDP server.  "udp send should not
\* failed!": when the server's task has ended the tunnel's task panics, and
\* nobody takes the tunnel out of the forwarder.
on_tunnel_msg(i) ==
    /\ tun[i] \in {"up", "shut"}
    /\ asked[i]
    /\ asked' = [asked EXCEPT ![i] = FALSE]
    /\ tun' = IF server THEN tun ELSE [tun EXCEPT ![i] = "crashed"]
    /\ UNCHANGED << discarded, reconnect_queue, building, ping_count, server, list,
                    domap, memoVars, resVars >>

-----------------------------------------------------------------------------
(***************************************************************************)
(* The queries of the clients.                                             *)
(***************************************************************************)

\* alloc_tunnel_for_req and DnsTunnel::on_dns_udp_msg.  Without a tunnel the
\* query is dropped; in the channel of a crashed tunnel it is lost.
AskTunnel ==
    /\ IF \A i \in Tun : tun[i] = "none"
         THEN UNCHANGED asked
         ELSE \E i \in Tun :
                /\ tun[i] # "none"
                /\ asked' = [asked EXCEPT ![i] = @ \/ tun[i] # "crashed"]
    /\ UNCHANGED << reconnect_queue, building, tun, ping_count, memoVars, resVars >>

\* The address is noted, over that of an earlier client that asked the same,
\* and the query is sent if there is a task to do it.
Ask(q, c, r) ==
    /\ Unanswered < AskBound
    /\ lres' = r
    /\ request_memo' = [request_memo EXCEPT ![q] = c]
    /\ owed' = [owed EXCEPT ![<< c, q >>] = @ + 1]
    /\ upstream' = IF r.task THEN upstream \cup {q} ELSE upstream
    /\ UNCHANGED << poolVars, request_memo_history >>

\* LocalResolver::request.  A resolver that lost its socket is started again;
\* try_rebuild takes fw out before that can fail.
request(q, c) ==
    \/ lres.tx /\ Ask(q, c, lres)
    \/ ~lres.tx /\ lres.fw /\ Ask(q, c, [task |-> TRUE, tx |-> TRUE, fw |-> TRUE])
    \/ /\ ~lres.tx /\ lres.fw
       /\ lres' = [lres EXCEPT !.fw = FALSE]
       /\ UNCHANGED << poolVars, memoVars, upstream, owed >>

\* A client's query.  Once the resolver has lost fw, a local one is dropped.
on_dns_udp_msg(q, c) ==
    /\ server /\ ~discarded
    /\ IF has(domap, q) THEN AskTunnel ELSE request(q, c)
    /\ UNCHANGED << discarded, server, list, domap >>

\* The task of the server ends: its socket failed, or its trigger was dropped.
\* on_dns_udp_closed only logs it.
on_dns_udp_closed ==
    /\ server
    /\ server' = FALSE
    /\ UNCHANGED << discarded, poolVars, list, domap, memoVars, resVars >>

-----------------------------------------------------------------------------
(***************************************************************************)
(* The local resolver.                                                     *)
(***************************************************************************)

\* The older generation is looked up first.
Waiting(q) == IF request_memo_history[q] # NoClient THEN request_memo_history[q]
                                                    ELSE request_memo[q]

take(q) ==
    IF request_memo_history[q] # NoClient
      THEN /\ request_memo_history' = [request_memo_history EXCEPT ![q] = NoClient]
           /\ UNCHANGED request_memo
      ELSE /\ request_memo' = [request_memo EXCEPT ![q] = NoClient]
           /\ UNCHANGED request_memo_history

\* An answer of the local DNS server.  The network may duplicate it, or lose it.
\* It is lost as well when the UDP server is gone.
on_resolver_udp_msg(q) ==
    /\ lres.task /\ ~discarded
    /\ q \in upstream
    /\ take(q)
    /\ owed' = IF Waiting(q) = NoClient \/ ~server THEN owed
                 ELSE [owed EXCEPT ![<< Waiting(q), q >>] = @ - 1]
    /\ UNCHANGED << discarded, poolVars, server, list, domap, lres, upstream >>

\* The task of the resolver ends: its socket failed, or its trigger was dropped.
on_lresolver_udp_closed ==
    /\ lres.task
    /\ lres' = [lres EXCEPT !.task = FALSE, !.tx = FALSE]
    /\ upstream' = {}
    /\ UNCHANGED << discarded, poolVars, server, list, domap, memoVars, owed >>

\* An answer that repeats no question: questions[0] panics, which ends the task
\* without on_lresolver_udp_closed.
ResolverPanics ==
    /\ lres.task /\ ~discarded
    /\ upstream # {}
    /\ lres' = [lres EXCEPT !.task = FALSE]
    /\ upstream' = {}
    /\ UNCHANGED << discarded, poolVars, server, list, domap, memoVars, owed >>

-----------------------------------------------------------------------------
(***************************************************************************)
(* The keep-alive timer and the end.                                       *)
(***************************************************************************)

\* Mutant: the queries stay in the younger generation as well.
lresolver_keepalive_copies == request_memo_history' = request_memo /\ UNCHANGED request_memo

\* LocalResolver::keepalive: the younger generation becomes the older one.
lresolver_keepalive ==
    /\ request_memo_history' = request_memo
    /\ request_memo' = NoMemo

\* The channel of a crashed tunnel has no receiver: its pings are not counted.
send_pings ==
    /\ ping_count' = [i \in Tun |-> IF tun[i] \in {"up", "shut"} /\ ping_count[i] <= PingLimit
                                      THEN ping_count[i] + 1 ELSE ping_count[i]]
    /\ tun' = [i \in Tun |-> IF tun[i] = "up" /\ ping_count[i] > PingLimit
                               THEN "shut" ELSE tun[i]]

Queued(i) == {k \in DOMAIN reconnect_queue : reconnect_queue[k] = i}

\* The server's sender, which is tested here, is there until stop.
process_reconnect ==
    /\ building' = [i \in Tun |-> building[i] + Cardinality(Queued(i))]
    /\ reconnect_queue' = << >>

keepalive ==
    /\ ~discarded
    /\ lresolver_keepalive
    /\ send_pings
    /\ process_reconnect
    /\ UNCHANGED << discarded, asked, server, list, domap, resVars >>

\* Mutant: the sender and the trigger of the resolver are kept.
stop_keeps_resolver ==
    /\ ~discarded
    /\ discarded' = TRUE
    /\ tun' = [i \in Tun |-> IF tun[i] = "up" THEN "shut" ELSE tun[i]]
    /\ UNCHANGED << reconnect_queue, building, ping_count, asked, server, list, domap,
                    memoVars, resVars >>

stop ==
    /\ ~discarded
    /\ discarded' = TRUE
    /\ lres' = [lres EXCEPT !.tx = FALSE, !.fw = FALSE]
    /\ tun' = [i \in Tun |-> IF tun[i] = "up" THEN "shut" ELSE tun[i]]
    /\ UNCHANGED << reconnect_queue, building, ping_count, asked, server, list, domap,
                    memoVars, upstream, owed >>

-----------------------------------------------------------------------------
TunnelNext(i) == \/ on_tunnel_created(i) \/ on_tunnel_build_error(i)
                 \/ on_tunnel_closed(i) \/ on_pong(i) \/ on_tunnel_msg(i)

ResolverNext == \/ \E q \in Query : on_resolver_udp_msg(q)
                \/ on_lresolver_udp_closed
                \/ ResolverPanics

Next ==
    \/ \E i \in Tun : TunnelNext(i)
    \/ \E q \in Query, c \in Client : on_dns_udp_msg(q, c)
    \/ ResolverNext
    \/ on_dns_udp_closed
    \/ \E l \in Lists : update_domains(l)
    \/ keepalive
    \/ stop

Spec == Init /\ [][Next]_vars

(***************************************************************************)
(* Fairness: the timer fires, connection attempts end, the end of a stream *)
(* and a dropped trigger are noticed.  Nothing is assumed of the clients,  *)
(* the peers, the DNS server and the cloud.                                *)
(***************************************************************************)
BuildEnds(i) == on_tunnel_created(i) \/ on_tunnel_build_error(i)
ShutTunnelEnds(i) == tun[i] = "shut" /\ on_tunnel_closed(i)

Fairness ==
    /\ WF_vars(keepalive)
    /\ \A i \in Tun : WF_vars(BuildEnds(i)) /\ WF_vars(ShutTunnelEnds(i))
    /\ WF_vars(discarded /\ on_dns_udp_closed)
    /\ WF_vars(~lres.tx /\ on_lresolver_udp_closed)

FairSpec == Spec /\ Fairness

-----------------------------------------------------------------------------
(***************************************************************************)
(* Properties.                                                             *)
(***************************************************************************)

\* A client gets no more answers than it asked queries, although a query that
\* is asked again takes the place of the first, answers are duplicated or late,
\* and what waits for an answer moves from one generation to the next.
NoStray == \A c \in Client, q \in Query : owed[<< c, q >>] >= 0

\* The tree answers for the list that the cloud sent last, and for no other: a
\* name is asked through a tunnel if and only if it is a domain of that list,
\* lies below one or above one.
Names == Query \cup UNION {Paths(n) : n \in UNION Lists}

DomapExact == \A n \in Names : has(domap, n) <=> Covered(list, n)

\* Where the Pool has index i.  A crashed tunnel keeps its index until stop.
Connected(i) == tun[i] \in {"up", "shut"} \/ (tun[i] = "crashed" /\ ~discarded)

Owners(i) == {o \in {"attempt", "up", "waiting"} :
                \/ o = "attempt" /\ building[i] > 0
                \/ o = "up" /\ Connected(i)
                \/ o = "waiting" /\ Queued(i) # {} /\ ~discarded}

PoolPlace(i) ==
    IF Owners(i) = {} THEN IF discarded THEN "gone" ELSE "lost"
    ELSE IF Cardinality(Owners(i)) > 1 \/ building[i] > 1 \/ Cardinality(Queued(i)) > 1
      THEN "twice"
    ELSE CHOOSE o \in Owners(i) : TRUE

PoolWhere == [i \in Tun |-> PoolPlace(i)]

P == INSTANCE Pool WITH Index <- Tun, where <- PoolWhere, stopped <- discarded

\* The forwarder implements a Pool of DNS tunnels: no index is lost or connected
\* twice, the panic "there is tunnel at {} already!" is never met, and a lost
\* tunnel is connected again, even when the UDP server or the resolver is gone.
\* A tunnel that met the panic of on_tunnel_msg counts as a connection here: it
\* stays in its place until the forwarder is stopped.
ImplementsPool == P!Spec

\* Attempts end, a lost tunnel is tried again by some keep-alive, and once the
\* forwarder is stopped every tunnel is gone for good.
PoolProgress == P!Progress

\* Once the forwarder is discarded all of its tasks end, those that it had lost
\* sight of included, so that its thread can be joined.
StopQuiesces ==
    discarded ~> [](/\ ~server /\ ~lres.task
                    /\ \A i \in Tun : building[i] = 0 /\ tun[i] \in {"none", "crashed"})

-----------------------------------------------------------------------------
(***************************************************************************)
(* The inductive invariant that the proofs rest on.                        *)
(***************************************************************************)

\* The variables have their types.
TypeOK ==
    /\ discarded \in BOOLEAN
    /\ reconnect_queue \in Seq(Tun)
    /\ building \in [Tun -> Nat]
    /\ tun \in [Tun -> {"none", "up", "shut", "crashed"}]
    /\ ping_count \in [Tun -> 0 .. PingLimit + 1]
    /\ asked \in [Tun -> BOOLEAN]
    /\ server \in BOOLEAN
    /\ list \in Lists
    /\ lres \in [task : BOOLEAN, tx : BOOLEAN, fw : BOOLEAN]
    /\ request_memo \in [Query -> Client \cup {NoClient}]
    /\ request_memo_history \in [Query -> Client \cup {NoClient}]
    /\ upstream \in SUBSET Query
    /\ owed \in [Client \X Query -> Int]

\* An index is being connected, connected or queued, and never two of these; a
\* forwarder that is not discarded has lost none.  A discarded one still queues
\* the tunnels that end.
OneOwner ==
    /\ \A i \in Tun : building[i] <= 1 /\ (building[i] = 1 => tun[i] = "none")
    /\ \A k \in DOMAIN reconnect_queue :
         LET i == reconnect_queue[k] IN tun[i] = "none" /\ building[i] = 0
    /\ \A k, l \in DOMAIN reconnect_queue :
         reconnect_queue[k] = reconnect_queue[l] => k = l
    /\ ~discarded => \A i \in Tun : \/ tun[i] # "none" \/ building[i] = 1
                                     \/ Queued(i) # {}

\* A client that is remembered for a query, in either generation, has one query
\* without an answer for each of them.
Remembered(memo, c, q) == IF memo[q] = c THEN 1 ELSE 0

OwedCovers ==
    \A c \in Client, q \in Query :
      owed[<< c, q >>] >= Remembered(request_memo, c, q) + Remembered(request_memo_history, c, q)

DomapCurrent == domap = new_domap(list)

IInv == TypeOK /\ OneOwner /\ OwedCovers /\ DomapCurrent
=============================================================================
