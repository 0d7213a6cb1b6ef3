-------------------------------- MODULE UdpX --------------------------------
(***************************************************************************)
(* The UDP side of the proxy (src/udpx): two servers that take the packets *)
(* of the clients (udpserv.rs), and for every address that answers come    *)
(* from a stub with a socket bound to it (ustub.rs), kept in a cache with  *)
(* a time limit (cache.rs, udpxmgr.rs).                                    *)
(*                                                                         *)
(* A stub is shared between the cache, which holds its sender and its      *)
(* trigger, and its task, which holds the socket.  The cache also knows    *)
(* the number of the socket's file descriptor and closes it when the time  *)
(* limit is reached, before the task has dropped the socket.  So file      *)
(* descriptors are modelled: the process has one table of them, a number   *)
(* that was closed is the next to be used, and all threads open sockets.   *)
(*                                                                         *)
(* One single-threaded executor: a handler is one action; only the other   *)
(* threads' use of file descriptors is concurrent.  Packets change no      *)
(* state here: those of the clients go to a TunMgr thread (module Access), *)
(* those from the tunnels to the socket of a stub.                         *)
(***************************************************************************)
EXTENDS Naturals, FiniteSets

CONSTANTS
    Addr,     \* addresses that packets from the tunnels come from
    Stub,     \* the stubs, used again when they are gone
    NoStub,   \* None
    Fd,       \* numbers of file descriptors
    Free,     \* the number is not in use
    Other     \* it is in use by something else in this process

ASSUME UdpXAssumption ==
    /\ Addr # {}
    /\ Fd \subseteq Nat /\ Fd # {}
    /\ NoStub \notin Stub
    /\ Free \notin Stub /\ Other \notin Stub /\ Free # Other

VARIABLES
    stopped,          \* UdpXMgr::stop was called
    servers,          \* the UDP servers whose tasks are running
    entries,          \* Cache.entries: the stub of each address
    expirations,      \* Cache.expirations: the stubs that have a time limit
    is_in_keepalive,  \* Cache.is_in_keepalive: its task is running
    stub,             \* the stubs
    owner,            \* the table of file descriptors
    others,           \* the numbers that the rest of the process uses
    stray             \* someone has closed a number that was not his any more

cacheVars == << entries, expirations, is_in_keepalive >>
fdVars == << owner, others, stray >>
vars == << stopped, servers, cacheVars, stub, fdVars >>

(***************************************************************************)
(* A stub: its task is running; tx and trigger are there (untripped); the  *)
(* cache has closed its number (cleaned); it was used in the last period   *)
(* (fresh).                                                                *)
(***************************************************************************)
Gone == [task |-> FALSE, addr |-> CHOOSE a \in Addr : TRUE, fd |-> CHOOSE f \in Fd : TRUE,
         tripped |-> FALSE, cleaned |-> FALSE, fresh |-> FALSE]

Init ==
    /\ stopped = FALSE
    /\ servers = {"v4", "v6"}
    /\ entries = [a \in Addr |-> NoStub]
    /\ expirations = {}
    /\ is_in_keepalive = FALSE
    /\ stub = [s \in Stub |-> Gone]
    /\ owner = [f \in Fd |-> Free]
    /\ others = {}
    /\ stray = FALSE

-----------------------------------------------------------------------------
(***************************************************************************)
(* File descriptors.                                                       *)
(***************************************************************************)

\* The system hands out the lowest free number.
Lowest(f) == owner[f] = Free /\ \A g \in Fd : g < f => owner[g] # Free

\* Numbers are closed by those who had opened them: pairs << number, who >>.
Close(pairs) ==
    /\ owner' = [f \in Fd |-> IF \E p \in pairs : p[1] = f THEN Free ELSE owner[f]]
    /\ stray' = (stray \/ \E p \in pairs : owner[p[1]] \notin {Free, p[2]})

OtherOpens(f) ==
    /\ Lowest(f)
    /\ owner' = [owner EXCEPT ![f] = Other]
    /\ others' = others \cup {f}
    /\ UNCHANGED << stopped, servers, cacheVars, stub, stray >>

OtherCloses(f) ==
    /\ f \in others
    /\ others' = others \ {f}
    /\ Close({<< f, Other >>})
    /\ UNCHANGED << stopped, servers, cacheVars, stub >>

-----------------------------------------------------------------------------
(***************************************************************************)
(* The cache.                                                              *)
(***************************************************************************)

\* Mutant: the task that purges the cache is not started.
insert_only(a, s) ==
    /\ entries' = [entries EXCEPT ![a] = s]
    /\ expirations' = expirations \cup {s}
    /\ UNCHANGED is_in_keepalive

insert(a, s) ==
    /\ entries' = [entries EXCEPT ![a] = s]
    /\ expirations' = expirations \cup {s}
    /\ is_in_keepalive' = TRUE

\* A packet from a tunnel whose address has no stub.  UStub::new opens a socket
\* and starts a task.  When it fails the packet is dropped.
BuildStub(a, s, f) ==
    /\ ~stopped
    /\ entries[a] = NoStub
    /\ ~stub[s].task
    /\ Lowest(f)
    /\ owner' = [owner EXCEPT ![f] = s]
    /\ stub' = [stub EXCEPT ![s] = [task |-> TRUE, addr |-> a, fd |-> f, tripped |-> FALSE,
                                    cleaned |-> FALSE, fresh |-> TRUE]]
    /\ insert(a, s)
    /\ UNCHANGED << stopped, servers, others, stray >>

\* One whose address has a stub: Cache::get puts off the time limit.
UseStub(a) ==
    /\ ~stopped
    /\ entries[a] # NoStub
    /\ stub' = [stub EXCEPT ![entries[a]].fresh = TRUE]
    /\ UNCHANGED << stopped, servers, cacheVars, fdVars >>

\* A part of the time limit passes.
TimePasses(s) ==
    /\ stub[s].fresh
    /\ stub' = [stub EXCEPT ![s].fresh = FALSE]
    /\ UNCHANGED << stopped, servers, cacheVars, fdVars >>

\* Mutant: the numbers are closed, and the stubs are left as they are.
Cleanup_closes_only(stubs) ==
    /\ Close({<< stub[s].fd, s >> : s \in stubs})
    /\ UNCHANGED stub

\* UStub::cleanup of some stubs of the cache: their numbers are closed and their
\* senders and triggers are dropped.  Their tasks and sockets are still there.
Cleanup(stubs) ==
    /\ Close({<< stub[s].fd, s >> : s \in stubs})
    /\ stub' = [s \in Stub |-> IF s \in stubs
                                 THEN [stub[s] EXCEPT !.tripped = TRUE, !.cleaned = TRUE,
                                                      !.fresh = FALSE]
                                 ELSE stub[s]]

\* poll_purge: the time limit of a stub is reached.
Purge(s) ==
    /\ is_in_keepalive
    /\ s \in expirations /\ ~stub[s].fresh
    /\ expirations' = expirations \ {s}
    /\ entries' = [entries EXCEPT ![stub[s].addr] = NoStub]
    /\ Cleanup({entries[stub[s].addr]} \ {NoStub})
    /\ UNCHANGED << stopped, servers, is_in_keepalive, others >>

\* The task that purges the cache ends when nothing is left to expire.
KeepaliveEnds ==
    /\ is_in_keepalive /\ ~stopped
    /\ expirations = {}
    /\ is_in_keepalive' = FALSE
    /\ UNCHANGED << stopped, servers, entries, expirations, stub, fdVars >>

-----------------------------------------------------------------------------
\* Cache::remove takes out the stub that the address has now, and drops it.
remove(a) ==
    /\ entries' = [entries EXCEPT ![a] = NoStub]
    /\ expirations' = expirations \ {entries[a]}

\* Mutant: the stub is dropped and keeps its trigger.
Dropped_untripped(s, a) == [t \in Stub |-> IF t = s THEN Gone ELSE stub[t]]

\* The task s ends, and the stub that the cache had for the address is dropped,
\* and with it its sender and its trigger.
Dropped(s, a) ==
    [t \in Stub |-> IF t = s THEN Gone
                    ELSE IF t = entries[a] THEN [stub[t] EXCEPT !.tripped = TRUE, !.fresh = FALSE]
                    ELSE stub[t]]

(***************************************************************************)
(* The task of a stub ends, because its trigger was dropped or because the *)
(* socket failed.  The socket is dropped, which closes its number, for the *)
(* second time if the stub was cleaned up; then on_ustub_closed removes    *)
(* the stub of the address, which may be a newer one.                      *)
(***************************************************************************)
StubEnds(s) ==
    /\ stub[s].task
    /\ Close({<< stub[s].fd, s >>})
    /\ remove(stub[s].addr)
    /\ stub' = Dropped(s, stub[s].addr)
    /\ UNCHANGED << stopped, servers, is_in_keepalive, others >>

\* A server ends: its socket failed, or its trigger was dropped.  It is not
\* built again ("TODO: rebuild udp server").
on_udp_server_closed(v) ==
    /\ v \in servers
    /\ servers' = servers \ {v}
    /\ UNCHANGED << stopped, cacheVars, stub, fdVars >>

\* Cache::cleanup clears the time limits under the task that waits for them.
\* Nothing wakes it up any more, so it is left as it is.
stop ==
    /\ ~stopped
    /\ stopped' = TRUE
    /\ expirations' = {}
    /\ entries' = [a \in Addr |-> NoStub]
    /\ Cleanup({entries[a] : a \in Addr} \ {NoStub})
    /\ UNCHANGED << servers, is_in_keepalive, others >>

-----------------------------------------------------------------------------
Next ==
    \/ \E a \in Addr : UseStub(a) \/ \E s \in Stub, f \in Fd : BuildStub(a, s, f)
    \/ \E s \in Stub : Purge(s) \/ StubEnds(s) \/ TimePasses(s)
    \/ KeepaliveEnds
    \/ \E v \in {"v4", "v6"} : on_udp_server_closed(v)
    \/ stop
    \/ \E f \in Fd : OtherOpens(f) \/ OtherCloses(f)

Spec == Init /\ [][Next]_vars

(***************************************************************************)
(* Fairness: time passes, the task that purges the cache is woken when a   *)
(* time limit is reached, and a dropped trigger is noticed.                *)
(***************************************************************************)
Fairness ==
    /\ \A s \in Stub : /\ WF_vars(TimePasses(s)) /\ WF_vars(Purge(s))
                       /\ WF_vars(stub[s].tripped /\ StubEnds(s))
    /\ \A v \in {"v4", "v6"} : WF_vars(stopped /\ on_udp_server_closed(v))

FairSpec == Spec /\ Fairness

-----------------------------------------------------------------------------
(***************************************************************************)
(* Properties.                                                             *)
(***************************************************************************)

\* The cache is sound, although the end of an old stub removes whatever stub its
\* address has now.  Its stubs are those that have a time limit, so that reset
\* and remove of the DelayQueue, which panic for a key that it does not have, are
\* never called with one; their tasks are running, so that no packet is put in a
\* channel that nobody reads; a task that was not told to end is that of a stub
\* of the cache, so that none is forgotten; and while there are any, the task
\* that purges the cache is running.
CacheSound ==
    /\ expirations = {entries[a] : a \in Addr} \ {NoStub}
    /\ \A a \in Addr, s \in Stub :
         entries[a] = s <=> stub[s].task /\ stub[s].addr = a /\ ~stub[s].tripped
    /\ expirations # {} => is_in_keepalive

\* As long as nobody has closed a number that was not his any more, a running stub
\* owns its socket's number unless the cache has closed it.
OwnSocket == ~stray => \A s \in Stub : stub[s].task => owner[stub[s].fd] = s \/ stub[s].cleaned

\* A stub of the cache has its own socket, and every number that is closed
\* belongs to who closes it, until a stub that was cleaned up ends after its
\* number was given to someone else: that is the only way in which the socket of
\* a newer stub or of another thread is closed under it.  (Init has no stub.)
SocketsOwned ==
    [][/\ OwnSocket'
       /\ stray' /\ ~stray => \E s \in Stub : stub[s].cleaned /\ stub[s].task /\ ~stub'[s].task]_vars

\* The inductive invariant of the proofs (module UdpXProofs): the types; CacheSound
\* and OwnSocket; a stub is cleaned up only together with its trigger; and the
\* rest of the process owns the numbers that it uses.
StubType == [task : BOOLEAN, addr : Addr, fd : Fd, tripped : BOOLEAN, cleaned : BOOLEAN,
             fresh : BOOLEAN]

TypeOK ==
    /\ stopped \in BOOLEAN
    /\ servers \subseteq {"v4", "v6"}
    /\ entries \in [Addr -> Stub \cup {NoStub}]
    /\ expirations \subseteq Stub
    /\ is_in_keepalive \in BOOLEAN
    /\ stub \in [Stub -> StubType]
    /\ owner \in [Fd -> Stub \cup {Free, Other}]
    /\ others \subseteq Fd
    /\ stray \in BOOLEAN

IInv ==
    /\ TypeOK /\ CacheSound /\ OwnSocket
    /\ \A s \in Stub : stub[s].cleaned => stub[s].tripped
    /\ ~stray => \A f \in others : owner[f] = Other

\* No stub stays for ever unless it is used for ever, and after stop all stubs
\* and both servers end.
StubsEnd ==
    /\ \A s \in Stub : []<>(~stub[s].task \/ stub[s].fresh)
    /\ stopped ~> [](servers = {} /\ \A s \in Stub : ~stub[s].task)
=============================================================================
