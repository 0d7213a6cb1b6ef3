# A TLA+ model of lproxy-cv

lproxy-cv runs on a home router. It redirects the traffic of the router's
clients to itself and carries it through a pool of WebSocket tunnels to a server
elsewhere. This directory holds TLA+ modules of its parts, TLC configurations that
check them on small instances, and TLAPS proofs about all of them. Paths
below are relative to `src/` of the repository's crate; line numbers are in
`PROJECT.json` (`map`).

## The system

| Component | State | Operations | Interacts with |
|---|---|---|---|
| `Service` (service/service.rs, main.rs) | state, instruction channel, configuration, domains, triggers, `is_upgrading` | authenticate, start the subservices, monitor, download, restart, stop | the cloud (HTTP), the subservices (control channels, join), the router (iptables, ipset, dnsmasq) |
| `SubService` (service/subservice.rs) | threads and their control channels | start in order, report, stop and join | Service and the threads |
| `AccLog` (service/acclog.rs) | names of addresses, accesses by name | file an access, report | Service |
| `TunMgr` (tunnels/tunmgr.rs) | tunnels by index, `reconnect_queue`, sorted order, `access_log`, `discarded` | tunnel created / closed / build error, keep-alive, choose a tunnel, stop | tunnel builder tasks, request tasks |
| `Tunnel` (tunnels/tunnel.rs) | slot table `Reqq`, `req_count`, `ping_count`, socket | messages of the server, requests, pings | server, request tasks |
| request tasks (tunnels/reqserv.rs) | a `TunStub`, two futures, a channel | copy both ways, report quota, close | client, tunnel |
| `XTunnel` (xport) | one tunnel for all connections, `XReqq`, `req_count`, `need_reconnect` | as Tunnel, with the peer choosing slots and tags | server, local ports |
| `Forwarder`, `DnsTunnel` (dns) | DNS tunnels, reconnect queue, UDP server, tree of domains | answer a query locally or through a tunnel, update domains | dnsmasq, tunnels, ipset, Service |
| `LocalResolver` (dns/lresolver.rs) | two generations of waiting queries, socket | ask the local DNS server, answer, rebuild | Forwarder |
| `DomainMap` (dns/domap.rs) | tree of labels | insert, has | Forwarder |
| `UdpXMgr`, `Cache`, `UStub` (udpx) | stubs by source address, time limits, sockets | proxy datagrams both ways, expire stubs | TunMgr |
| `lws` | partial frames, tail of the handshake | frame and unframe messages, handshake | all tunnels |
| `ReqMgr` (requests) | two listeners, next TunMgr | accept, hand to a TunMgr thread | TunMgr |
| `htp`, `config`, `netlink`, `MyDns`, DNS packets, shell commands | little or none | I/O and encodings | the above |

Every subservice is a thread with a single-threaded executor. A handler runs from
one `await` to the next without interruption, so it is one action of a module.
What interleaves are tasks: connection attempts, tunnels, request tasks, timers,
and control messages; and, in `Access` and `Service`, the threads themselves.

What is hard to test in it, and where the properties aim:

* a request is named on the wire by (slot, tag) only; both ends may close it at
  once, late messages arrive, tags are `u16` and wrap, and `Reqq::free` does not
  test that a slot is in use;
* a `TunStub` outlives its tunnel, and a task of a UDP stub outlives its entry in
  the cache; both are replaced by others with the same index or address;
* an index of a pool is handed between attempts, tunnels and the reconnect
  queue; two owners meet a panic, none loses the index;
* channels are unbounded and only the quota bounds them;
* frames are cut anywhere, also by the end of the handshake;
* an answer of the DNS and the connection that follows it take different ways through
  four threads, and must meet in the right order;
* a panic ends one task and leaves what it owned behind;
* threads are joined on the main thread, so that a task that never ends blocks
  everything;
* retries, delays, upgrades, restarts and the signal interleave in `Service`.

The complete list, with lines, is `hazards` in `PROJECT.json`.

## Modules

| Module | Models | State and actions |
|---|---|---|
| `Reqq` | tunnels/reqq.rs, request.rs | operators on a table `[elements, free]`: `new`, `alloc`, `free`, `clear_all`, `clean_req`; `Accounted` says when a table is in order |
| `TunMgr` | tunmgr.rs, tunnel.rs, tunbuilder.rs, reqserv.rs | the pool through all lives of its tunnels. One action per handler (`on_tunnel_created`, `on_tunnel_build_error`, `on_tunnel_closed`, `keepalive`, `on_pong`, `stop`, `on_request_created`, `on_server_finished`, `on_server_closed`) and one per way in which a future of a request ends |
| `Tunnel` | tunnel.rs, reqserv.rs, theader.rs | one life of one tunnel, message by message, with FIFO channels `north` and `south`, the channel `rx` of each request, the client and the server |
| `XTunnel` | xport/* | the reverse tunnel through all its connections |
| `Service` | service.rs, subservice.rs, main.rs | the life of the process |
| `Forwarder` | dns/forwarder.rs, dnstunnel.rs, dnstunbuilder.rs, udpserv.rs, lresolver.rs | queries of clients, the DNS tunnels (`tun[i]`: none, up, shut or crashed), the resolver and its two generations `request_memo` and `request_memo_history`, new lists of domains, panics of tasks |
| `DomainMap` | dns/domap.rs | `insert_all` and `has` as operators on a tree, which is the set of its paths; `Covered` is what they should mean |
| `UdpX` | udpx/* | the cache (`entries`, `expirations`, `is_in_keepalive`), the task of each stub, and the table of file descriptors of the process with their owners |
| `Lws` | lws/* | one direction of a tunnel byte by byte: client, `TcpFramed`, `TMessage`, `LwsFramed`, handshake, `RMessage`, socket |
| `Access` | forwarder.rs, dnstunnel.rs, reqmgr.rs, udpxmgr.rs, tunmgr.rs, reqserv.rs, service.rs, acclog.rs, iptable_rule.rs, ipset.rs | the composition of the threads: an answer of the DNS, the ipset, the rules of iptables, the connection that follows, the panic of its handler, the logs of the TunMgr threads, the channel of the Service, the report and the configuration that it depends on, and restarts |
| `Pool` | abstract | where each connection of a pool is: in an attempt, up, waiting, gone |
| `Sessions` | abstract | a pipe of its own for each request |
| `MC...` | | instances for TLC, with the symmetry of request tasks |
| `TunMgrProofs`, `TunnelProofs`, `XTunnelProofs`, `ServiceProofs`, `ForwarderProofs`, `UdpXProofs`, `AccessProofs`, `LwsProofs` | | the theorems about each module and their proofs; `ForwarderProofs` includes `DomainMap`, and `TunMgrProofs` and `TunnelProofs` both `Reqq` |

`TunMgr` and `Tunnel` both build on `Reqq`, and split the work: `TunMgr` has many
tunnels and lives and no messages, `Tunnel` one life and all messages. `Lws` is what
`Tunnel` takes for granted: that messages arrive whole and in order. `Access`
takes from `TunMgr`, `Forwarder`, `UdpX` and `Service` the calls by which they pass
an access on, and leaves the rest of each to its own module.

Conventions. A slot keeps the sender and the trigger of its request; both are
represented by the request, or `NoReq` once dropped, so that "the trigger was
dropped" is `trigger # r`. `busy` and round-trip times only order tunnels, so the
order that a keep-alive finds is arbitrary. The server, the clients, the DNS servers
and the cloud are not in the repository: their actions are derived from the messages
that the code sends and accepts, and are marked external in the map. In `XTunnel` the
peer's messages arrive at once but what it knows is late, which covers the same
crossings. In `Service` a configuration is the version of its domains, and `listed`, which
is not in the code, the version of the last list that a reply had; in `Access` it is the set
of the fields that the monitor and the reports can use. A panic
ends the task in which it happens (tokio catches it) and nothing that would have
come after it is done.

Definitions marked "Mutant" are variants of the definition after them with one
plausible bug. They are not used by any specification; replacing the definition
by its mutant must make TLC find a violation of the property that
`PROJECT.json` pairs them with.

### Abstract specifications

`Pool` is what the three pools of connections have in common: every index is at one
place at a time, a lost connection waits for the next keep-alive and is tried
again, nothing comes back after stop, and (`Progress`) attempts end, what waits is
retried and after stop all are gone. `TunMgr`, `Forwarder` and `XTunnel` are each shown
to implement it under a mapping of their queues, attempts and tunnels to places
(`ImplementsPool`, which is checked and proved), and to have its liveness
(`PoolProgress`, which is checked). An index with two
owners, which is what meets the panic "there is tunnel at {} already!", and one with none
map to places that the Pool does not have.

`Sessions` is what a tunnel looks like to its requests: messages come out of the pipe of
their own request, in the order sent, each once; a close by the server loses nothing;
only the end of the connection, or a client that resets its own, loses a tail.
`Tunnel` implements it (`ImplementsSessions`): the pipe of a request is what its
channel `rx` holds followed by what is for it on the wire (`south`).

## Runs

| Run | Instance | Shows |
|---|---|---|
| `tunmgr_live` | 1 tunnel, 2 usable slots, 2 requests, 4 tags that wrap, `PingLimit` 2, fairness | `SlotAccounting` (no double free, `req_count` exact), `SlotOwned` (no leak), `SilentPeerIsDropped`, `ImplementsPool`, `PoolProgress`, `StopQuiesces` |
| `tunmgr_pool` | 2 tunnels, 1 usable slot each, 2 requests, no wrap | `OneOwner`, `UsableIsFound` (the search for a tunnel misses none with room), `OwnFree` (a close frees its own slot) |
| `tunmgr_stale_stub` | 1 tunnel, 2 requests | finding: `SendToPeerSucceeds` is violated |
| `tunnel_streams` | 2 requests in turn in one slot, 2 messages down and 1 up each | `SlotFreeAtServer`, `NothingAfterEnd`, `ImplementsSessions` |
| `tunnel_flow` | 1 request, quota 4, 7 messages, fairness | `QuotaConserved`, `QuotaReturns`, `BothEndsClose` |
| `xtunnel_conn` | 1 slot, 2 tasks, 2 requests per connection, `PingLimit` 1, a count of 3 values that wraps, fairness | `CountKeepsPace` (what makes `req_count` depart from the slots in use), `PeerWillKnow`, `OwnFree`, `SilentPeerIsDropped`, `ImplementsPool`, `PoolProgress` |
| `xtunnel_stop` | 1 slot, 1 task, fairness | finding: `StopQuiesces` is violated |
| `service_life` | 6 subservices, 3 versions, fairness | `OneChain`, `RulesAreServed`, `DomainsCurrent`, `CleanExit`, `KeepsTrying`, `SignalStops` |
| `forwarder_dns` | 2 DNS tunnels, 2 clients with one key, 2 queries under way, lists that move a name, fairness | `NoStray` (no answer to who did not ask), `DomapExact` (the tree answers for the last list only), `ImplementsPool`, `PoolProgress`, `StopQuiesces` |
| `udpx_cache` | 2 addresses, 2 stubs, 3 descriptors, fairness | `CacheSound`, `SocketsOwned`, `StubsEnd` |
| `lws_frames` | 4 bytes of data, bytes of 4 values, buffers of 6, a UDP message of 7, fairness | `FramesIntact`, `AllArrives` |
| `access_log` | 1 client, 1 address, 1 name, 1 TunMgr thread with 2 commands, 3 configurations, both modes, restarts, fairness | `RedirectedOnceResolved`, `NamedByAnswer`, `AccessReported` |

The type invariants are in no run: each is a part of the inductive invariant of its
module, and proved.

Deadlock is not checked: a stopped manager, a closed tunnel, a discarded XTunnel, a
stream that has ended and a process after its signal have nothing left to do.

Bounds, and why they are enough. `TagMod` is 2^16 in the code; 4 makes a slot's
tag wrap after two uses, which is what `SlotAccounting` must survive (and the
theorem covers every even value). `TagBound` is a bound of the model: in
`tunmgr_pool` and `tunmgr_stale_stub` a slot is used up to twice in a life of its
tunnel, so that a stale stub meets the next user of its slot, without a
wrap-around. `PingLimit` is 5 in the code and only counts. A capacity of n gives
n - 1 usable slots (the code skips a tunnel with `req_count + 1 >= capacity`).
With two requests per slot, one can overtake the other in every way; with two
tunnels the search has a first and a second loop. `Quota` 4 reports by twos, and
7 messages exceed the quota after a report. `CountMod` is 2^16 in the code; with 3
values the `req_count` of the reverse tunnel drifts, wraps and underflows within three
lost connections. `MaxDown` and `MaxUp` bound the length of streams.

In `Forwarder`, `AskBound` is the number of queries under way, and two of one key are
what it takes for one to replace the other while the older generation still has it. In
`UdpX` two stubs suffice for the task of an old one to end while its address has a
new one, and a third descriptor is for a stranger who takes a number that was
freed. In `Lws` a base of 4 makes lengths of 4 and more need both bytes of the header, a
frame can fill the buffer of 6 exactly, and the data is enough for three frames with the
response of the handshake cut anywhere among them; `UdpSizes` has one message that does
not fit. In `Access`, `MaxCtl` and `MaxIns` bound the channels: an access and the name
that must come before it are both in the channel of the Service, and a command is behind
the one whose handler panics. One client and one address suffice because the properties
speak of one pair of them at a time. The threads of TunMgr have no state in common, so
that one is enough for the order of its log and the names; the theorems are about any
number of them. With the one address the global rules redirect everything; what they
leave alone is a matter of `Redirected` alone, and no property speaks of it.
The three configurations have everything, no URL for the reports, and no URL for the
monitor.

### Fairness

The timers fire (tokio intervals). A connection attempt ends (10 seconds, 5 for local
ports). A shut down socket is noticed by its reader. Dropped triggers and senders
wake their futures. In `TunMgr` and `Tunnel` a client reads what it is sent or goes away;
nothing is assumed of when the peer answers or of what the network does. In `XTunnel`
a local connection ends at some time. In `Service` every task that was spawned
ends: HTTP requests have time limits. In `Forwarder` and `UdpX` nothing is assumed of
clients, DNS servers, tunnels that stay open or datagrams. In `Lws` a socket that
is ready is polled, and nothing obliges the connection to fail. In `Access` the threads serve
their channels, a panic excepted, and the timers of the keep-alive and of the monitor
fire, the latter if the configuration lets it; the strong
fairness of `report_access_log` only makes up for `MaxIns`: the channel has no bound in the
code, so its sender never waits for room.

### What the violated properties show

* `SendToPeerSucceeds`: a request that is held up by a slow client outlives its
  tunnel; after the reconnection it frees the slot of a new request that has the
  same slot and tag, and the message to the server is sent into a closed channel
  although tunnels/tunnel.rs:461 says "send to peer, should always succeed".
* `StopQuiesces` of `XTunnel`: `on_tunnel_closed` returns before `clear_all` once
  the XTunnel is discarded, so open requests never end and the join of the thread
  hangs (xtunnel.rs:106).

### What the passing properties make explicit

Several properties hold only because they name an exception. Each is something the
code does:

* `BothEndsClose`: the sending future of a request does not notice that its client
  reset the connection unless the server sends something (reqserv.rs:119).
* `SignalStops`: a start of the subservices that is under way when SIGUSR1 comes
  completes after `stop`, and sets the router's rules again (service.rs:688).
* `OneChain`, `KeepsTrying`: `do_download` panics if the first reply of the cloud asks for
  an upgrade, and no retry is posted (service.rs:564); the state `Abandoned` is
  the only one without a retry.
* `ImplementsPool` of `Forwarder`: a DNS tunnel whose task panicked (its send to the UDP
  server failed, dnstunnel.rs:111) stays in its place as if it were connected, takes
  queries and answers none, until stop.
* `NoStray`, `StopQuiesces` of `Forwarder` hold with a resolver that stays dead: after
  one failed `try_rebuild` the reference to the forwarder is gone and it is never built
  again (lresolver.rs:94), and after an answer without a question its task is gone while
  its sender stays (forwarder.rs:300). Queries for names that are not listed are then
  dropped. That a client gets its answer is therefore no property of the model.
* `SocketsOwned`: `cleanup` closes the descriptor of a UDP stub by number, and the socket
  closes it again when its task ends; a socket that got the number in between is closed
  under its owner (ustub.rs:70). The property says that this is the only way.
* `FramesIntact`, `AllArrives`: a message of more than `DEFAULT_CAP` bytes, which only a
  UDP packet can become, ends the stream at its reader.
* `CountKeepsPace`: `req_count` of the reverse tunnel is never reset. Each request that was
  open when its connection was lost stays counted, so that the `u16` drifts upwards and
  wraps in the end. From then on it is below the slots in use, and the decrement of
  `on_request_closed` (xtunnel.rs:447) underflows: another wrap in a release build, which
  is what `Wrap` does, a panic in a debug build. The property says that there is no
  other way into it. The count is used for nothing else. What happens after stop is left
  out of it: a discarded XTunnel takes the slot of a request and does not count it.
* `DomainsCurrent`: a reply of the monitor with a new version and an empty list of domains
  replaces the version (service.rs:397) and tells the Forwarder nothing (390), so that the
  service reports a version that its Forwarder may not have. The property compares the
  Forwarder with the last list that there was.
* `RedirectedOnceResolved`: the rules are set when all subservices are up (service.rs:698);
  who connects with an answer before that is not redirected. In global mode they do not
  look at the ipset, which is not filled (forwarder.rs:385), and leave IPv6 and the
  reserved ranges alone (iptable_rule.rs:63, 66-73): an answer of the remote resolver with
  such an address is never redirected. The property is therefore about the mode of the
  ipset and the time with rules. It is about answers that were parsed and saved and whose
  request to the kernel succeeded; others are passed on to the client as they are. A
  restart empties the ipset, so that an answer that a client keeps from before is not
  redirected until it asks again. Addresses of an old list stay in the ipset.
* `NamedByAnswer`: an address that several names share has the last of them.
* `AccessReported`: a report is removed before it is sent and lost if that fails, and what a
  thread has not sent when it is stopped is lost. There is no report without a token and
  the URLs of the monitor and of the reports: without the former URL the monitor never runs
  (service.rs:334, 368, 797), without the latter the log is emptied and thrown away (467,
  and 454 for a missing token, which cannot be reached because the monitor returns
  before). `serve_sock` panics when the client has reset the connection before it is
  handled (reqserv.rs:44, and the socket options above). That ends the task that reads the
  channel of the TunMgr thread: this connection and all later ones of the thread are
  neither served nor logged, while the keep-alive still sends what was logged before. The
  thread does not read Stop either, so that the next stop or restart waits for it for
  ever (`ThreadStops`).

## Proofs

Every safety property of the runs is a theorem for all constants, and so is each
refinement. Each `...Proofs` module has the same plan: the inductive invariant `IInv`
holds initially, one lemma per kind of step and part of it, `Spec => []IInv`, and the
theorems that read the properties off it. The parts of `IInv` are defined at the end of
the module they are about; those of `Lws`, which TLC cannot evaluate as they are
stated (`Framed` is about all ways to place the ends of messages), in `LwsProofs`.

| Module | Theorems | What it rests on |
|---|---|---|
| `TunMgrProofs` | `TypeCorrect`, `OwnersCorrect` (`OneOwner`), `AccountingCorrect` (`SlotAccounting`), `NoSlotLeaks` (`SlotOwned`), `OwnSlotFreed` (`OwnFree`), `UsableFound` (`UsableIsFound`), `PoolImplemented` (`ImplementsPool`) | the parity of tags, one owner per index |
| `TunnelProofs` | `TypeCorrect`, `EndsAreLast` (`NothingAfterEnd`), `SlotsLetGo` (`SlotFreeAtServer`), `QuotaIsConserved` (`QuotaConserved`), `SessionsImplemented` (`ImplementsSessions`), `FewRequests` | what is on the wire about a request, and the numbers of its data; for all but the first two, that tags suffice |
| `XTunnelProofs` | `TypeCorrect`, `CountCorrect` (`CountKeepsPace`), `PeerLearns` (`PeerWillKnow`), `OwnSlotFreed` (`OwnFree`), `PoolImplemented` (`ImplementsPool`) | one connection at a time, tags that grow in it, slots that are known to the peer |
| `ServiceProofs` | `TypeCorrect`, `OneChainAlways` (`OneChain`), `RulesServed` (`RulesAreServed`), `DomainsAreCurrent` (`DomainsCurrent`), `ExitsClean` (`CleanExit`) | the phases of the life of the process |
| `ForwarderProofs` | `AnswersAreOwed` (`NoStray`), `DomainsDecide` (`DomapExact`), `PoolImplemented` (`ImplementsPool`) | what each waiting client is owed; what a tree of labels means |
| `UdpXProofs` | `CacheCorrect` (`CacheSound`), `SocketsCorrect` (`SocketsOwned`) | who owns each file descriptor |
| `AccessProofs` | `RedirectedFirst` (`RedirectedOnceResolved`), `NamedFirst` (`NamedByAnswer`) | every way that an address takes from an answer to the Service |
| `LwsProofs` | `FramesStayIntact` (`FramesIntact`) | where every byte under way is |

### Assumptions

Each module names its own (`ReqqAssumption`, `TunMgrAssumption`, `TunnelAssumption`,
`XTunnelAssumption`, `ServiceAssumption`, `ForwarderAssumption`, `UdpXAssumption`,
`AccessAssumption`, `LwsAssumption`): bounds are naturals, there is a tunnel, a slot, a
subservice, an address, a value of the count; the reserved addresses are IPv4 addresses; the number of tags is even and positive, as 2^16 is; names are
sequences of labels; a quota is at least 2 (below it no report is ever sent); a buffer
has room for the headers kept in front of its data and is shorter than a `u16` counts,
and the large UDP messages are longer than a buffer; and a value that stands for none
is not one of the others. What is said of tags assumes more:

* `OwnSlotFreed` of `TunMgr`: `TagBound + 2 <= TagMod`, the bound of the model keeps
  the tags of a slot from wrapping around in one life of its tunnel. `OwnFree` is about
  such lives only; a wrapped tag can meet its slot in another's use. In `XTunnel` the
  tags are bounded by `TagBound` in any case.
* `SlotsLetGo`, `QuotaIsConserved` and `SessionsImplemented` of `Tunnel`: `[]TagsSuffice`,
  that is, no slot serves 2^15 requests in one life of its tunnel (each takes two of its
  2^16 tags). Beyond it a slot may use a tag again, and then nothing in the code tells an
  old message from a new one. `FewRequests` shows that the assumption can be met: it
  holds in every tunnel that serves fewer than 2^15 requests in all.

### Arguments

`TunMgr`. `alloc` advances a tag and so does `clean_req`: a free slot has an even
tag and a slot in use an odd one, also across the wrap-around because the number of
tags is even. Stubs and the server's messages only hold odd tags (`StubTags`; the server
echoes them), so a free that passes the test on the tag finds a slot in use: it is
not on the free stack, and `req_count` is positive because the stack, which has no
duplicates, misses a slot and is therefore shorter than the table (`PigeonHole`, from
the cardinality theorems). `SlotOwned` is needed for itself: the end of a request task
must find the tag that its slot has, or the slot was freed before. `OneOwner` follows
from the hand-over of an index by each handler (`Requeue`, `Released`), and gives
`on_tunnel_created` its fresh table; the panic "there is tunnel at {} already!" is
therefore unreachable. `UsableIsFound` takes the least position with room after the start
of the search (`Least`), and the table in order for the free slot. `OwnFree` adds
`TagsOrdered`: stubs of the present life hold tags that are at most their slot's.

The Pool. `OneOwner` of `TunMgr` and `Forwarder` and its counterpart in `XTunnel` make
the mapping of an index to its place a function of the three sets (`WhereLemma`), and
each handler moves the places of a set of indices in one way that the Pool has
(`PlaceMoves`) or none: `PoolStep` is the step simulation, one case per action.

`Tunnel`. `IInv` (types, with `req_count` the number of slots in use; each message and
session names the slot and tag of its request; who holds a slot; nothing is left of a
connection that ended; last words) is inductive for all constants. `TInv` is inductive
beside it under `TagsSuffice`: a slot and a tag name one request (`TagsUnique`), the server
knows nothing of a request before `ReqCreated` (`Announced`) and forgets it with
`ReqServerClosed` (`Forgotten`); a slot that the server takes to be in use has its
close in the channel (`WillBeTold`), before the next creation (`ToldInOrder`); data comes
before ends (`DataFirst`); and the quota of a session is its credit, plus the data on the
wire and in the channel, plus what was written and not reported, plus the reports
under way (`QuotaKept`). `StepKinds` sorts the disjuncts of Next by what they do
to the messages (a request is created, a task speaks, the server replies or receives,
the tunnel delivers, the connection ends), so that each part needs one lemma per kind; the counts of
messages go up and down by one with `Append` and `Tail` (`HitsAppend`, `HitsTail`).

`SessionsImplemented`. The pipe of a request is its channel and, while the channel has
its sender, what is for it on the wire: the j-th of these is the one with j - 1 others
before it (`Rank`), so that the wire is never filtered, and what an `Append` or a `Tail`
does to it is a matter of cardinalities (`DataAppend`, `DataTail`). `PInv` is
inductive beside `IInv` and `TInv` and says that the numbers have no gap: the j-th
message of the channel is number `got + j`, the data on the wire goes on where the channel stops
(`WireNumbered`), and the server goes on where the wire stops (`ServerNumbered`). The pipe
is then a `Line`, known by where it starts and how long it is (`PipeShape`), and a step of
the tunnel is known by what it does to the length, to `got` and to whether the request has
ended: there is one lemma per operation of `Sessions` (`SendStep`, `DeliverStep`,
`CloseStep`, `ResetStep`, `DiscardStep`, `GoDownStep`, `StutterStep`), and one per kind of
step that says which it is. `ReqServerFinished` and `ReqServerClosed` lose nothing because no data of
the request can be behind them (`DataFirst`) and what was before is in the channel.

`XTunnel`. `PeerWillKnow` follows from the types step by step.
`OwnFree` needs that tags grow within a connection, and that none begins while
another is up, since that would start the tags again. `CountKeepsPace` is about the
cardinality of the slots in use, which each handler changes by what it adds to the
count (`CountStep`); it needs `SlotsKnown`: a new request never takes a slot that is in
use, and none is in use without a connection.

`Service`. Until the signal the process is `Starting`, with one link of the chain
of events (an instruction, a request, a delay or a start under way; none after the panic
of `do_download`), or `Running`, with one request of the monitor or its instruction; after
it `Signalled`. Each action leads from phase to phase, and the properties, which speak
of counters, rules and lists of domains, are read off the phases. `Upgrading` ties
`is_upgrading` to the download that is under way.

`Forwarder`. `OwedCovers`: for a client and a query there are at least as many answers
owed as generations of the resolver's memo in which it is remembered, so that `NoStray`
holds whatever is lost, overwritten or exchanged. `DomapExact` has a
static half, that the tree of a list of names answers for every name what the list means
(`HasIsCovered`, which needs no induction because a tree is the set of its paths), and a
dynamic one, that the tree is that of the list given last (`DomapCurrent`).

`UdpX`. `CacheSound` ties address, stub, time limit and trigger together, so that the
removal of a newer stub by the end of an old one also drops its trigger. `SocketsOwned`
needs that a stub is cleaned up only with its trigger, and that until a stray close every
number is owned by who uses it.

`Access`. A client is redirected because the Forwarder works through an answer in order
(`HandlerSaved`), so that in the mode of the ipset the addresses of all answers are in
it (`AnswersSaved`), whether the rules are set before or after. `NamedByAnswer` follows an address on every way that it can take, the
handler, the answer, the command, the log, and shows that its name is in the channel of
the Service before it (`KnownNamed`); `EndedIdle` says that a thread that has ended, or that
does not read its channel any more, holds nothing that a restarted Service would not know.

`Lws`. What is needed is the place of every byte, and messages end anywhere in the
buffers. `Framed(p, ms, a, b)` says that the bytes `p` are the messages `a + 1` to `b` of
`ms`, joined, without recursion: there are numbers `off[i]`, one per end of a message,
that grow by its length. Three lemmas are all that is used of it: a message more at the
end (`FramedAppend`), the first one taken off (`FramedFirst`), and that no messages are
no bytes (`FramedEmpty`). The invariant then is: the bytes in the reader, its tail, the
connection and the message being written, joined, are behind the response of the
handshake the messages that left the channel and were not received (`PipeInv`). Cutting
and moving bytes leaves the joined sequence as it is (`Moved`); the handshake takes
the response off, whose end is nowhere earlier in it (`Parsed`); the reader takes a message
off, because the two bytes that it decoded are the header of the first message
(`NextMessage`, `Decoded`), so that its buffer ends where the message does (`Reads`). The
data that the socket has is treated in the same way, with the bodies of the messages
(`LocalInv`).

The lemmas about the table of `Reqq` (`NewAccounted`, `AllocAccounted`, `FreeAccounted`,
`FinishAccounted`, `ClearTable`) begin `TunMgrProofs` and `TunnelProofs`, each of which
cites them by name.

### Only model-checked

* Liveness, which rests on fairness and ENABLED: `PoolProgress`, `StopQuiesces`,
  `SilentPeerIsDropped`, `QuotaReturns`, `BothEndsClose`, `KeepsTrying`, `SignalStops`,
  `StubsEnd`, `AllArrives`, `AccessReported`.

Everything else that the runs check is proved. No module uses RECURSIVE operators.

## Not modelled

* `MyDns` and the DNS packets: parsing of bytes without state of its own. `MyDns`
  asks one query and fails or answers within the time limit of its caller, so its
  outcomes are those of a connection attempt; `Forwarder` and `Access` take packets as
  parsed or not.
* `netlink`: the encoding of one request to the kernel, whose outcomes are in `Access`.
* `htp`: an HTTP request with a time limit; `Service` and `Access` have its outcomes.
* `config`: data types and their JSON form. `cv.rs` is generated.
* The commands for ip rules and uci, and commands that fail: whether the rules are in
  effect is in `Service`, which addresses they redirect and the contents of the ipset in
  `Access`.

In the modelled parts: round-trip times and replies to pings; the file descriptors of
request tasks (shut down by number after the socket may be gone); the effect of a
new configuration on a running TunMgr; what a subservice leaves behind when its `init`
fails half-way (its first listener keeps the port, so that the retries fail until the
process is restarted); quotas below 2; frames with a length of 1, which nothing
here writes, and with which `remaining_mut` would go below zero; whether the task that
purges the UDP cache is woken when `cleanup` empties its queue (a matter of tokio).

## Plan

Done: all modules of the inventory that keep state of their own, and theorems for every
safety property and refinement that the runs check. What is left are the parts under
"Not modelled", of which the life of the file descriptors of request tasks says most
about the system: it needs the table of descriptors of `UdpX` in `Tunnel`.
