------------------------------- MODULE Access -------------------------------
(***************************************************************************)
(* How an access goes through the threads of the process, from the answer  *)
(* of a DNS query to the report about it:                                  *)
(*                                                                         *)
(*   DnsTunnel, Forwarder   put the addresses of an answer in the ipset,   *)
(*                          tell the Service their names, and only then    *)
(*                          pass the answer on to the client;              *)
(*   iptables               redirects connections to addresses in the      *)
(*                          ipset or, if work_as_global, to IPv4 addresses *)
(*                          but the reserved ones;                         *)
(*   ReqMgr, UdpXMgr        hand each one to a TunMgr thread;              *)
(*   TunMgr                 logs it and sends the log with a keep-alive;   *)
(*   Service, AccLog        files it under the name of the address, and    *)
(*                          sends a report when it polls the cloud.        *)
(*                                                                         *)
(* Each is a thread of its own.  They share the ipset of the kernel and    *)
(* talk over unbounded channels: one to each TunMgr, one to the Service.   *)
(* The Service stops and joins the threads and starts them again.  It sets *)
(* the rules of iptables when they have all started, not before.           *)
(*                                                                         *)
(* An answer is a name and its addresses.  The third part of an entry of   *)
(* the logs is not in the code: it says whether the client had an answer   *)
(* with the address in it when it connected.                               *)
(***************************************************************************)
EXTENDS Naturals, Sequences, Functions

CONSTANTS
    Client,      \* addresses of clients
    Client4,     \* those that are IPv4 addresses
    Ip,          \* addresses that names resolve to
    Ip4,         \* those that are IPv4 addresses
    Reserved,    \* those that the global rules leave alone: 10.0.0.0/8 and others
    Special,     \* those that are loopback or multicast addresses
    Domain,      \* names
    NoName,      \* None
    Cfg,         \* configurations of the cloud: which of the Fields can be used
    NTunMgr,     \* number of TunMgr threads
    MaxCtl,      \* bound: commands in the channels of the TunMgr threads
    MaxIns       \* bound: entries of the channel of the Service

\* What the monitor and the reports need of a configuration: a token that is not
\* empty and two URLs that HTTPRequest::new accepts.
Fields == {"token", "cfg_monitor_url", "cfg_access_report_url"}

ASSUME AccessAssumption ==
    /\ Client4 \subseteq Client /\ Special \subseteq Ip
    /\ Reserved \subseteq Ip4 /\ Ip4 \subseteq Ip
    /\ Cfg \subseteq SUBSET Fields
    /\ NTunMgr \in Nat \ {0} /\ MaxCtl \in Nat /\ MaxIns \in Nat
    /\ NoName \notin Domain

TunMgr == 1 .. NTunMgr
Thread == TunMgr \cup {0}   \* 0: the Forwarder, ReqMgr and UdpX

VARIABLES
    running,         \* the Service has started the threads and not stopped them
    alive,           \* threads that have not ended yet
    serving,         \* TunMgr threads that read their channel
    work_as_global,  \* of the configuration they were started with
    tuncfg,          \* Service.tuncfg: the last configuration
    rules,           \* the rules of iptables are set
    ipset,           \* the ipset of the kernel
    handler,         \* the answer that the Forwarder is handling, and how far
    answers,         \* the addresses in the answers that each client has
    tmindex,         \* ReqMgr.tmindex
    ctl,             \* the channel of each TunMgr
    access_log,      \* TunMgr.access_log
    ins,             \* the channel of the Service
    domains,         \* AccLog.domains
    acc_domains,     \* AccLog.acc_domains: names with the clients
    report           \* the last report, until it was sent

lifeVars == << running, alive, serving, work_as_global, tuncfg, rules >>
netVars == << ipset, handler, answers >>
tmVars == << tmindex, ctl, access_log >>
logVars == << domains, acc_domains, report >>
vars == << lifeVars, netVars, tmVars, ins, logVars >>

Idle == [at |-> 0]

Init ==
    /\ running = TRUE /\ alive = Thread
    /\ work_as_global \in BOOLEAN /\ tuncfg \in Cfg
    /\ rules = FALSE
    /\ ipset = {}
    /\ handler = Idle
    /\ answers = [c \in Client |-> {}]
    /\ serving = TunMgr /\ tmindex = 1
    /\ ctl = [t \in TunMgr |-> << >>]
    /\ access_log = [t \in TunMgr |-> {}]
    /\ ins = << >>
    /\ domains = [ip \in Ip |-> NoName]
    /\ acc_domains = {} /\ report = {}

\* service_tx.send: lost when the Service does not read the channel any more.
Send(i) == ins' = IF running THEN Append(ins, i) ELSE ins

-----------------------------------------------------------------------------
(***************************************************************************)
(* The Forwarder: DnsTunnel::on_tunnel_msg with an answer.                 *)
(***************************************************************************)

\* Mutants: the client has the answer before the addresses, or their names, are
\* where they are needed.
Order_reply_first == << "reply", "ipset", "record" >>

Order_record_last == << "ipset", "reply", "record" >>

\* What is done for an answer, one after the other: two calls of save_ipset and
\* the send to the client.  Other threads run in between.
Order == << "ipset", "record", "reply" >>

\* An answer comes.  One that cannot be parsed is only passed on.
on_tunnel_msg(c, d, ips, parsed) ==
    /\ running /\ 0 \in alive
    /\ handler = Idle
    /\ handler' = [at |-> IF parsed THEN 1 ELSE Len(Order), client |-> c, name |-> d, ips |-> ips,
                   saved |-> parsed]
    /\ UNCHANGED << lifeVars, ipset, answers, tmVars, ins, logVars >>

Does(step) == handler # Idle /\ Order[handler.at] = step

Done(h) == handler' = IF h.at = Len(Order) THEN Idle ELSE [h EXCEPT !.at = h.at + 1]

\* save_ipset puts the addresses in the ipset.  A request to the kernel that fails
\* is only logged.
save_ipset(ok) ==
    /\ Does("ipset")
    /\ IF work_as_global
         THEN UNCHANGED ipset /\ Done(handler)
         ELSE /\ ipset' = IF ok THEN ipset \cup (handler.ips \ Special) ELSE ipset
              /\ Done([handler EXCEPT !.saved = ok])
    /\ UNCHANGED << lifeVars, answers, tmVars, ins, logVars >>

save_domain_record ==
    /\ Does("record")
    /\ Len(ins) < MaxIns
    /\ Send([type |-> "DNSAdd", name |-> handler.name, ips |-> handler.ips])
    /\ Done(handler)
    /\ UNCHANGED << lifeVars, ipset, answers, tmVars, logVars >>

\* The client gets the answer.  One that was not saved is of no account here.
reply ==
    /\ Does("reply")
    /\ answers' = IF handler.saved
                    THEN [answers EXCEPT ![handler.client] = @ \cup handler.ips]
                    ELSE answers
    /\ Done(handler)
    /\ UNCHANGED << lifeVars, ipset, tmVars, ins, logVars >>

\* new_domap: the IPv4 addresses and ranges in a list of domains of the cloud go to
\* the ipset as well, in every mode; only the first address of a range is looked at,
\* so that special ones may be in it.  They have no names, and a later list does not
\* take them out.
new_domap(ips) ==
    /\ running /\ 0 \in alive
    /\ handler = Idle
    /\ ipset' = ipset \cup ips
    /\ UNCHANGED << lifeVars, handler, answers, tmVars, ins, logVars >>

-----------------------------------------------------------------------------
(***************************************************************************)
(* Connections and packets of clients.                                     *)
(***************************************************************************)

\* config_sys sets the rules when every thread has started; until then nothing is
\* redirected.  Its timer, for the monitor, starts with it.
config_sys ==
    /\ running /\ ~rules
    /\ rules' = TRUE
    /\ UNCHANGED << running, alive, serving, work_as_global, tuncfg, netVars, tmVars, ins, logVars >>

\* The rules for the ipset, in three tables: addresses, ranges, IPv6 addresses.
set_iptables_rules(ip) == ip \in ipset

\* The global rules.  There are none for IPv6 (TODO in the code).
set_iptables_rules_for_global(ip) == ip \in Ip4 \ Reserved

\* A connection to the address comes to this process.
Redirected(ip) ==
    /\ rules
    /\ IF work_as_global THEN set_iptables_rules_for_global(ip) ELSE set_iptables_rules(ip)

\* The bound on the commands under way.
RoomInCtl == FoldFunction(LAMBDA q, n : Len(q) + n, 0, ctl) < MaxCtl

\* A command for a TunMgr thread; lost when the thread does not read them any more.
SendTo(t, cmd) ==
    ctl' = IF t \in serving THEN [ctl EXCEPT ![t] = Append(@, cmd)] ELSE ctl

\* ReqMgr: the connections go to the TunMgr threads in turn.  Any error of accept
\* but "Too many open files" ends its task; then no more connections come, which is
\* a behaviour of this action as well, since nothing obliges clients to connect.
on_accept_tcpstream(c, ip) ==
    /\ 0 \in alive /\ Redirected(ip)
    /\ RoomInCtl
    /\ SendTo(tmindex, [type |-> "TcpTunnel", src |-> c, dst |-> ip, had |-> ip \in answers[c]])
    /\ tmindex' = (tmindex % NTunMgr) + 1
    /\ UNCHANGED << lifeVars, netVars, access_log, ins, logVars >>

\* UdpXMgr: a hash of both addresses picks the thread.
on_udp_msg_forward(c, ip, t) ==
    /\ 0 \in alive /\ Redirected(ip)
    /\ RoomInCtl
    /\ SendTo(t, [type |-> "UdpProxy", src |-> c, dst |-> ip, had |-> ip \in answers[c]])
    /\ UNCHANGED << lifeVars, netVars, tmindex, access_log, ins, logVars >>

-----------------------------------------------------------------------------
(***************************************************************************)
(* A TunMgr thread.                                                        *)
(***************************************************************************)

\* TunMgr::log_access: access_log is a set of pairs of addresses, so that one pair
\* has one entry.
log_access(log, cmd) ==
    LET had == cmd.had \/ << cmd.src, cmd.dst, TRUE >> \in log
    IN  {e \in log : << e[1], e[2] >> # << cmd.src, cmd.dst >>}
          \cup {<< cmd.src, cmd.dst, had >>}

\* serve_sock logs a connection before it looks for a tunnel; udp_proxy_north
\* logs a packet only if the tunnel that its hash picks is there.
Serve(t, logged) ==
    /\ t \in serving /\ ctl[t] # << >>
    /\ Head(ctl[t]).type = "UdpProxy" \/ (Head(ctl[t]).type = "TcpTunnel" /\ logged)
    /\ ctl' = [ctl EXCEPT ![t] = Tail(@)]
    /\ access_log' = IF logged THEN [access_log EXCEPT ![t] = log_access(@, Head(ctl[t]))]
                               ELSE access_log
    /\ UNCHANGED << lifeVars, netVars, tmindex, ins, logVars >>

\* serve_sock panics when the client has reset the connection meanwhile: peer_addr and
\* the socket options are unwrapped before the connection is logged.  The panic ends
\* the task that reads the channel, with the commands in it, and no other task of the
\* thread: its keep-alive goes on.
serve_sock_panics(t) ==
    /\ t \in serving /\ ctl[t] # << >>
    /\ Head(ctl[t]).type = "TcpTunnel"
    /\ serving' = serving \ {t}
    /\ ctl' = [ctl EXCEPT ![t] = << >>]
    /\ UNCHANGED << running, alive, work_as_global, tuncfg, rules, netVars, tmindex, access_log,
                    ins, logVars >>

\* Mutant: the log is emptied and not sent.
report_access_log_drains(t) ==
    /\ t \in alive /\ access_log[t] # {}
    /\ Len(ins) < MaxIns
    /\ UNCHANGED ins
    /\ access_log' = [access_log EXCEPT ![t] = {}]
    /\ UNCHANGED << lifeVars, netVars, tmindex, ctl, logVars >>

\* With every keep-alive.
report_access_log(t) ==
    /\ t \in alive /\ access_log[t] # {}
    /\ Len(ins) < MaxIns
    /\ Send([type |-> "AccessLog", v |-> access_log[t]])
    /\ access_log' = [access_log EXCEPT ![t] = {}]
    /\ UNCHANGED << lifeVars, netVars, tmindex, ctl, logVars >>

-----------------------------------------------------------------------------
(***************************************************************************)
(* The Service and its AccLog.                                             *)
(***************************************************************************)

Reads(type) == running /\ ins # << >> /\ Head(ins).type = type

\* do_dns_add: the last name of an address replaces an older one.
do_dns_add ==
    /\ Reads("DNSAdd")
    /\ ins' = Tail(ins)
    /\ domains' = [ip \in Ip |-> IF ip \in Head(ins).ips THEN Head(ins).name ELSE domains[ip]]
    /\ UNCHANGED << lifeVars, netVars, tmVars, acc_domains, report >>

\* do_access_log: an address without a name is its own name.
NameOf(ip) == IF domains[ip] = NoName THEN ip ELSE domains[ip]

do_access_log ==
    /\ Reads("AccessLog")
    /\ ins' = Tail(ins)
    /\ acc_domains' = acc_domains \cup {<< NameOf(e[2]), e[1] >> : e \in Head(ins).v}
    /\ UNCHANGED << lifeVars, netVars, tmVars, domains, report >>

\* dump_to_pb: every name, with those of its clients that are IPv4.
dump_to_pb ==
    {<< e[1], {c \in Client4 : << e[1], c >> \in acc_domains} >> : e \in acc_domains}

\* do_access_report: the log is emptied in any case.  It is lost when there is no
\* token, the URL cannot be used, or the report fails that is sent.
do_access_report ==
    /\ acc_domains' = {}
    /\ report' = IF {"token", "cfg_access_report_url"} \subseteq tuncfg /\ acc_domains # {}
                   THEN dump_to_pb
                   ELSE report

\* do_cfg_monitor, by the timer that config_sys is followed by: a request to the
\* cloud, and then the report of accesses.  Neither without a token or a URL of the
\* monitor that can be used.
do_cfg_monitor ==
    /\ running /\ rules
    /\ {"token", "cfg_monitor_url"} \subseteq tuncfg
    /\ do_access_report
    /\ UNCHANGED << lifeVars, netVars, tmVars, ins, domains >>

\* The cloud answers the request of the monitor with another configuration.
save_cfg(cfg) ==
    /\ running /\ rules
    /\ {"token", "cfg_monitor_url"} \subseteq tuncfg
    /\ tuncfg' = cfg
    /\ UNCHANGED << running, alive, serving, work_as_global, rules, netVars, tmVars, ins, logVars >>

\* External: the request has succeeded or failed; the result is not looked at.
ReportEnds ==
    /\ report # {}
    /\ report' = {}
    /\ UNCHANGED << lifeVars, netVars, tmVars, ins, domains, acc_domains >>

-----------------------------------------------------------------------------
(***************************************************************************)
(* Stop and start.                                                         *)
(***************************************************************************)

\* Service::stop: the channel of the Service is not read any more and every thread
\* is told to stop.  The Service waits for them.  (A signal during a start is a
\* matter of module Service.)
stop ==
    /\ running /\ rules
    /\ running' = FALSE
    /\ ins' = << >>
    /\ UNCHANGED << alive, serving, work_as_global, tuncfg, rules, netVars, tmVars, logVars >>

\* A thread takes the Stop from its channel, behind the commands that are in it,
\* and ends.  What it has not sent is lost.  A TunMgr thread whose task has panicked
\* never reads the Stop, and the Service waits for it for ever.
ThreadStops(t) ==
    /\ ~running /\ t \in alive
    /\ IF t = 0 THEN handler = Idle ELSE t \in serving /\ ctl[t] = << >>
    /\ alive' = alive \ {t} /\ serving' = serving \ {t}
    /\ access_log' = [u \in TunMgr |-> IF u = t THEN {} ELSE access_log[u]]
    /\ UNCHANGED << running, work_as_global, tuncfg, rules, netVars, tmindex, ctl, ins, logVars >>

\* restore_sys removes the rules and the ipset; a later start asks the cloud for a
\* configuration and makes a new ipset, new channels and new threads.  The Service
\* keeps its AccLog.  The answers that clients have from before are of no account
\* any more.
Restarts(global, cfg) ==
    /\ ~running /\ alive = {}
    /\ running' = TRUE /\ alive' = Thread /\ serving' = TunMgr
    /\ work_as_global' = global /\ tuncfg' = cfg
    /\ rules' = FALSE
    /\ ipset' = {}
    /\ answers' = [c \in Client |-> {}]
    /\ tmindex' = 1
    /\ UNCHANGED << handler, ctl, access_log, ins, logVars >>

-----------------------------------------------------------------------------
Next ==
    \/ \E c \in Client, d \in Domain, ips \in SUBSET Ip \ {{}}, parsed \in BOOLEAN :
         on_tunnel_msg(c, d, ips, parsed)
    \/ \E ok \in BOOLEAN : save_ipset(ok)
    \/ save_domain_record \/ reply
    \/ \E ips \in SUBSET Ip4 : new_domap(ips)
    \/ config_sys
    \/ \E c \in Client, ip \in Ip :
         on_accept_tcpstream(c, ip) \/ \E t \in TunMgr : on_udp_msg_forward(c, ip, t)
    \/ \E t \in TunMgr :
         \/ report_access_log(t) \/ serve_sock_panics(t)
         \/ \E logged \in BOOLEAN : Serve(t, logged)
    \/ do_dns_add \/ do_access_log \/ do_cfg_monitor \/ ReportEnds
    \/ \E cfg \in Cfg : save_cfg(cfg)
    \/ stop
    \/ \E t \in Thread : ThreadStops(t)
    \/ \E global \in BOOLEAN, cfg \in Cfg : Restarts(global, cfg)

Spec == Init /\ [][Next]_vars

(***************************************************************************)
(* Fairness: the threads serve their channels, the keep-alive and the      *)
(* monitor timers fire.  Strong fairness of the keep-alive makes up for    *)
(* MaxIns: the channel of the Service has no bound, and a sender does not  *)
(* wait for room in it.                                                    *)
(***************************************************************************)
Fairness ==
    /\ \A t \in TunMgr : WF_vars(Serve(t, TRUE)) /\ SF_vars(report_access_log(t))
    /\ WF_vars(do_dns_add \/ do_access_log)
    /\ WF_vars(do_cfg_monitor)

FairSpec == Spec /\ Fairness

-----------------------------------------------------------------------------
(***************************************************************************)
(* Properties.                                                             *)
(***************************************************************************)

\* A client that has an answer from this process is redirected when it uses it, once
\* the rules are set and if they go by the ipset (config_sys in service.rs): the
\* addresses are in the ipset before the client can know them (dnstunnel.rs), and stay
\* there until the threads are stopped.  The global rules do not look at answers.
RedirectedOnceResolved ==
    rules /\ ~work_as_global =>
        \A c \in Client, ip \in Ip \ Special : ip \in answers[c] => Redirected(ip)

\* The access of a client that resolved a name is never filed under the bare
\* address: its entry is behind the name of the address in the channel of the
\* Service, although the two come from different threads.
NamedByAnswer ==
    \A i \in DOMAIN ins : ins[i].type = "AccessLog" =>
        \A e \in ins[i].v : e[3] =>
            \/ domains[e[2]] # NoName
            \/ \E j \in 1 .. i - 1 : ins[j].type = "DNSAdd" /\ e[2] \in ins[j].ips

\* The inductive invariant of the proofs (module AccessProofs).
Handling == [at : 1 .. 3, client : Client, name : Domain, ips : SUBSET Ip, saved : BOOLEAN]
Command == [type : {"TcpTunnel", "UdpProxy"}, src : Client, dst : Ip, had : BOOLEAN]
Entry == Client \X Ip \X BOOLEAN
Instruction == [type : {"DNSAdd"}, name : Domain, ips : SUBSET Ip]
                 \cup [type : {"AccessLog"}, v : SUBSET Entry]

TypeOK ==
    /\ running \in BOOLEAN /\ alive \subseteq Thread /\ serving \subseteq TunMgr
    /\ work_as_global \in BOOLEAN /\ rules \in BOOLEAN /\ tuncfg \in Cfg
    /\ ipset \subseteq Ip
    /\ handler = Idle \/ handler \in Handling
    /\ answers \in [Client -> SUBSET Ip]
    /\ tmindex \in TunMgr
    /\ ctl \in [TunMgr -> Seq(Command)]
    /\ access_log \in [TunMgr -> SUBSET Entry]
    /\ ins \in Seq(Instruction)
    /\ domains \in [Ip -> Domain \cup {NoName}]
    /\ acc_domains \subseteq (Domain \cup Ip) \X Client
    /\ report \subseteq (Domain \cup Ip) \X SUBSET Client4

\* A thread that has ended, or does not read its channel, has nothing left to do.
EndedIdle ==
    /\ serving \subseteq alive
    /\ 0 \notin alive => handler = Idle
    /\ \A t \in TunMgr \ serving : ctl[t] = << >>
    /\ \A t \in TunMgr \ alive : access_log[t] = {}

\* What the Forwarder has put in the ipset, for its answer so far and for those that
\* the clients have; the rules come later or earlier.
HandlerSaved ==
    ~work_as_global /\ handler # Idle /\ handler.at > 1 /\ handler.saved =>
        handler.ips \ Special \subseteq ipset
AnswersSaved == ~work_as_global => \A c \in Client : answers[c] \ Special \subseteq ipset

\* The Service has the name of the address, or has it in its channel.
Named(ip) == \/ domains[ip] # NoName
             \/ \E j \in DOMAIN ins : ins[j].type = "DNSAdd" /\ ip \in ins[j].ips

\* Wherever an address of an answer is known, it is named: to the Forwarder that
\* passes the answer on, the clients, the commands under way and the logs.
HandlerNamed == handler # Idle /\ handler.at > 2 /\ handler.saved => \A ip \in handler.ips : Named(ip)
AnswersNamed == \A c \in Client : \A ip \in answers[c] : Named(ip)
CtlNamed == \A t \in TunMgr : \A k \in DOMAIN ctl[t] : ctl[t][k].had => Named(ctl[t][k].dst)
LogNamed == \A t \in TunMgr : \A e \in access_log[t] : e[3] => Named(e[2])

KnownNamed == running => HandlerNamed /\ AnswersNamed /\ CtlNamed /\ LogNamed

IInv == /\ TypeOK /\ EndedIdle
        /\ HandlerSaved /\ AnswersSaved
        /\ KnownNamed /\ NamedByAnswer

\* A report has the access, under the name of its address or the address itself.
Reported(c, ip) == \E e \in report : e[1] \in Domain \cup {ip} /\ c \in e[2]

\* A connection that was handed to a TunMgr thread is in a report in the end (tunmgr.rs
\* to acclog.rs), unless the threads are stopped before, the configuration has no token
\* or URL for it, or the task that serves the connections of the thread has panicked.
\* The panic cannot undo what is in the log of the thread already.
AccessReported ==
    \A t \in TunMgr, c \in Client4, ip \in Ip :
        /\ (\E i \in DOMAIN ctl[t] :
              ctl[t][i].type = "TcpTunnel" /\ ctl[t][i].src = c /\ ctl[t][i].dst = ip)
           ~> (~running \/ tuncfg # Fields \/ t \notin serving \/ Reported(c, ip))
        /\ (\E e \in access_log[t] : e[1] = c /\ e[2] = ip)
           ~> (~running \/ tuncfg # Fields \/ Reported(c, ip))
=============================================================================
