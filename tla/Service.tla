------------------------------- MODULE Service ------------------------------
(***************************************************************************)
(* The life of the process (src/main.rs, src/service/service.rs and        *)
(* subservice.rs): it authenticates against the cloud, starts the          *)
(* subservices one after the other, redirects the router's traffic to      *)
(* itself, polls the cloud for changes and stops on SIGUSR1.               *)
(*                                                                         *)
(* The service runs on the main thread's executor: a handler is one        *)
(* action.  What interleaves are the tasks it spawned and does not cancel: *)
(* HTTP requests, delayed instructions, a start of the subservices under   *)
(* way, the monitor timer, a download, and the task that waits for the     *)
(* signal.  A subservice is a thread of its own; here it is only started   *)
(* or stopped, in the order of start_subservice.                           *)
(*                                                                         *)
(* A configuration is represented by its domains_ver, and a list of        *)
(* domains by the version that it came with: a later reply may name        *)
(* another version without a list.  Abstracted: the rest of configurations *)
(* and replies; the access log, which is in module Access; what TunMgr     *)
(* makes of a new configuration.                                           *)
(***************************************************************************)
EXTENDS Integers, SequencesExt

CONSTANTS
    NSubs,        \* number of subservices to start: the TunMgr threads, ReqMgr,
                  \* Forwarder, UdpX and, if configured, XTunnel
    Version,      \* versions of the list of domains
    NoVersion     \* None

ASSUME ServiceAssumption == NSubs \in Nat \ {0} /\ NoVersion \notin Version

VersionOrNone == Version \cup {NoVersion}

VARIABLES
    state,         \* Service.state
    ins,           \* instructions in the current channel
    listening,     \* instruction_trigger is Some: the channel is being read
    tuncfg,        \* Service.tuncfg: its domains_ver, or None
    domains,       \* Service.domains: their version, or None
    listed,        \* not in the code: the version of the last list of domains
                   \* that a reply had
    auths,         \* authentication requests under way
    delayed,       \* delayed Auth instructions
    starts,        \* starts under way: how many subservices each has started,
                   \* and the domains that it took
    subservices,   \* the complete sets in Service.subservices, each with the
                   \* version of the domains that its Forwarder has
    timer,         \* monitor_trigger is Some: the monitor timer is running
    monitors,      \* number of monitor requests under way
    is_upgrading,  \* Service.is_upgrading
    downloads,     \* downloads under way
    rules,         \* iptables and ip rules are set
    ipset,         \* the ipset tables exist
    dnsmasq,       \* where the router's dnsmasq forwards to
    signalled      \* main has received SIGUSR1

sysVars == << rules, ipset, dnsmasq >>
cfgVars == << tuncfg, domains, listed >>
taskVars == << auths, delayed, starts, monitors, downloads >>
runVars == << state, listening, subservices, timer, sysVars, signalled >>
vars == << ins, cfgVars, taskVars, is_upgrading, runVars >>

Instruction == {"Auth", "StartSubServices", "ServerCfgMonitor", "Restart"}

\* fire_instruction: lost once the channel is not read any more.
Fire(i) == IF listening THEN Append(ins, i) ELSE ins

\* The next instruction; the whole of process_instruction is in the actions.
Reads(i) == listening /\ ins # << >> /\ Head(ins) = i

-----------------------------------------------------------------------------
(***************************************************************************)
(* main has called Service::start on a new Service.                        *)
(***************************************************************************)
Init ==
    /\ state = "starting"
    /\ ins = << "Auth" >>
    /\ listening = TRUE
    /\ tuncfg = NoVersion /\ domains = NoVersion /\ listed = NoVersion
    /\ auths = 0 /\ delayed = 0 /\ starts = << >>
    /\ monitors = 0 /\ downloads = 0
    /\ subservices = << >>
    /\ timer = FALSE
    /\ is_upgrading = FALSE
    /\ rules = FALSE /\ ipset = FALSE /\ dnsmasq = "default"
    /\ signalled = FALSE

\* Mutant: an Auth during an upgrade is not tried again.
do_auth_gives_up ==
    /\ Reads("Auth")
    /\ ins' = Tail(ins)
    /\ auths' = IF is_upgrading THEN auths ELSE auths + 1
    /\ UNCHANGED << cfgVars, delayed, starts, monitors, downloads, is_upgrading,
                    runVars >>

(***************************************************************************)
(* Authentication.                                                         *)
(***************************************************************************)
do_auth ==
    /\ Reads("Auth")
    /\ ins' = Tail(ins)
    /\ IF is_upgrading
         THEN delayed' = delayed + 1 /\ UNCHANGED auths
         ELSE auths' = auths + 1 /\ UNCHANGED delayed
    /\ UNCHANGED << cfgVars, starts, monitors, downloads, is_upgrading, runVars >>

\* No usable reply, or an upgrade that cannot be started: try again later.
AuthFails ==
    /\ auths > 0
    /\ auths' = auths - 1
    /\ delayed' = delayed + 1
    /\ UNCHANGED << ins, cfgVars, starts, monitors, downloads, is_upgrading, runVars >>

\* do_download starts a download of the new version.
do_download ==
    /\ ~is_upgrading
    /\ is_upgrading' = TRUE
    /\ downloads' = downloads + 1

\* Mutant: nothing is posted after the download has been started.
AuthUpgrade_no_retry ==
    /\ auths > 0
    /\ tuncfg # NoVersion
    /\ auths' = auths - 1
    /\ do_download
    /\ UNCHANGED << ins, cfgVars, delayed, starts, monitors, runVars >>

AuthUpgrade ==
    /\ auths > 0
    /\ tuncfg # NoVersion
    /\ auths' = auths - 1
    /\ do_download
    /\ delayed' = delayed + 1
    /\ UNCHANGED << ins, cfgVars, starts, monitors, runVars >>

\* Without a configuration do_download panics after it has set is_upgrading;
\* the panic ends the task, before it has posted the next Auth.
AuthUpgradePanics ==
    /\ auths > 0
    /\ tuncfg = NoVersion /\ ~is_upgrading
    /\ auths' = auths - 1
    /\ is_upgrading' = TRUE
    /\ UNCHANGED << ins, cfgVars, delayed, starts, monitors, downloads, runVars >>

AuthOk(v) ==
    /\ auths > 0
    /\ auths' = auths - 1
    /\ tuncfg' = v
    /\ domains' = v
    /\ listed' = v
    /\ ins' = Fire("StartSubServices")
    /\ UNCHANGED << delayed, starts, monitors, downloads, is_upgrading, runVars >>

\* delay_post_instruction
DelayEnds ==
    /\ delayed > 0
    /\ delayed' = delayed - 1
    /\ ins' = Fire("Auth")
    /\ UNCHANGED << cfgVars, auths, starts, monitors, downloads, is_upgrading, runVars >>

-----------------------------------------------------------------------------
(***************************************************************************)
(* Starting the subservices.  The domains are taken out of the service.    *)
(***************************************************************************)
do_start_subservices ==
    /\ Reads("StartSubServices")
    /\ ins' = Tail(ins)
    /\ starts' = Append(starts, [up |-> 0, domains |-> domains])
    /\ domains' = NoVersion
    /\ ipset' = TRUE
    /\ dnsmasq' = "me"
    /\ UNCHANGED << tuncfg, listed, auths, delayed, monitors, downloads, is_upgrading,
                    state, listening, subservices, timer, rules, signalled >>

\* start_subservice: one more subservice reports that it is up.
SubserviceUp(k) ==
    /\ starts[k].up < NSubs - 1
    /\ starts' = [starts EXCEPT ![k].up = @ + 1]
    /\ UNCHANGED << ins, cfgVars, auths, delayed, monitors, downloads, is_upgrading,
                    runVars >>

\* Mutant: the start is tried again without a new authentication.
SubserviceFails_restarts(k) ==
    /\ starts' = RemoveAt(starts, k)
    /\ ins' = Fire("StartSubServices")
    /\ UNCHANGED << cfgVars, auths, delayed, monitors, downloads, is_upgrading,
                    runVars >>

\* A subservice fails to start: those before it are stopped and joined.
SubserviceFails(k) ==
    /\ starts' = RemoveAt(starts, k)
    /\ delayed' = delayed + 1
    /\ UNCHANGED << ins, cfgVars, auths, monitors, downloads, is_upgrading, runVars >>

\* The router's traffic is redirected to this process.
config_sys == rules' = TRUE

\* The last one is up.  start_monitor_timer replaces the trigger of an older
\* timer, which ends it.
SubservicesUp(k) ==
    /\ starts[k].up = NSubs - 1
    /\ starts' = RemoveAt(starts, k)
    /\ subservices' = Append(subservices, starts[k].domains)
    /\ state' = "running"
    /\ config_sys
    /\ timer' = TRUE
    /\ UNCHANGED << ins, cfgVars, auths, delayed, monitors, downloads, is_upgrading,
                    listening, ipset, dnsmasq, signalled >>

-----------------------------------------------------------------------------
(***************************************************************************)
(* Monitoring.  The timer's period of 5 minutes is longer than the time    *)
(* limit of a request, so that there is one request at a time.             *)
(***************************************************************************)
MonitorTick ==
    /\ timer
    /\ monitors = 0
    /\ \A k \in DOMAIN ins : ins[k] # "ServerCfgMonitor"
    /\ ins' = Fire("ServerCfgMonitor")
    /\ UNCHANGED << cfgVars, taskVars, is_upgrading, runVars >>

\* Without a token or a usable URL there is no request.
do_cfg_monitor ==
    /\ Reads("ServerCfgMonitor")
    /\ ins' = Tail(ins)
    /\ monitors' \in {monitors, monitors + 1}
    /\ UNCHANGED << cfgVars, auths, delayed, starts, downloads, is_upgrading, runVars >>

\* A reply with a configuration.  If its list of domains is not empty (sent) the
\* Forwarder is told; the version is taken in any case.
NewCfg(v, sent) ==
    /\ tuncfg' = v
    /\ listed' = IF sent THEN v ELSE listed
    /\ subservices' = IF sent /\ subservices # << >>
                        THEN [subservices EXCEPT ![1] = v]
                        ELSE subservices

MonitorCfg == \/ \E v \in Version, sent \in BOOLEAN : NewCfg(v, sent)
              \/ UNCHANGED << tuncfg, listed, subservices >>

\* What is left alone by a reply, whatever it asks for.
MonitorEnds ==
    /\ monitors > 0
    /\ monitors' = monitors - 1
    /\ MonitorCfg
    /\ UNCHANGED << domains, auths, delayed, starts, state, listening, timer, sysVars,
                    signalled >>

MonitorQuiet == MonitorEnds /\ UNCHANGED << ins, is_upgrading, downloads >>

MonitorUpgrade == MonitorEnds /\ do_download /\ UNCHANGED ins

MonitorRestart ==
    /\ MonitorEnds
    /\ ins' = Fire("Restart")
    /\ UNCHANGED << is_upgrading, downloads >>

\* A successful download also runs the script that restarts the process.
DownloadEnds ==
    /\ downloads > 0
    /\ downloads' = downloads - 1
    /\ is_upgrading' = FALSE
    /\ UNCHANGED << ins, cfgVars, auths, delayed, starts, monitors, runVars >>

-----------------------------------------------------------------------------
\* Mutant: dnsmasq is left as it is.
restore_sys_rules_only == rules' = FALSE /\ ipset' = FALSE /\ UNCHANGED dnsmasq

(***************************************************************************)
(* Service::stop, up to the instruction channel and the state, which its   *)
(* two callers leave different.                                            *)
(***************************************************************************)

\* The redirection is undone.
restore_sys == rules' = FALSE /\ ipset' = FALSE /\ dnsmasq' = "default"

\* Mutant: the redirection is left as it is.
stop_keeps_rules == timer' = FALSE /\ subservices' = << >> /\ UNCHANGED sysVars

\* Mutant: the monitor timer keeps its trigger.
stop_keeps_timer == subservices' = << >> /\ restore_sys /\ UNCHANGED timer

\* Every subservice is told to stop, then every thread is joined.
cleanup_subservices == subservices' = << >>

stop == timer' = FALSE /\ cleanup_subservices /\ restore_sys

\* stop, then start: a new channel, whose first instruction is Auth.
do_restart ==
    /\ Reads("Restart")
    /\ stop
    /\ state' = "starting"
    /\ ins' = << "Auth" >>
    /\ UNCHANGED << cfgVars, taskVars, is_upgrading, listening, signalled >>

\* SIGUSR1: main stops the service and its task ends.
Signal ==
    /\ ~signalled
    /\ signalled' = TRUE
    /\ stop
    /\ state' = "stopped"
    /\ ins' = << >>
    /\ listening' = FALSE
    /\ UNCHANGED << cfgVars, taskVars, is_upgrading >>

-----------------------------------------------------------------------------
StartNext == \E k \in DOMAIN starts :
               SubserviceUp(k) \/ SubserviceFails(k) \/ SubservicesUp(k)

AuthNext == \/ AuthFails \/ AuthUpgrade \/ AuthUpgradePanics
            \/ \E v \in Version : AuthOk(v)

InsNext == do_auth \/ do_start_subservices \/ do_cfg_monitor \/ do_restart

MonitorNext == MonitorQuiet \/ MonitorUpgrade \/ MonitorRestart

Next == \/ InsNext \/ AuthNext \/ StartNext \/ MonitorNext
        \/ DelayEnds \/ DownloadEnds \/ MonitorTick \/ Signal

Spec == Init /\ [][Next]_vars

(***************************************************************************)
(* Fairness: every task that was spawned ends.  Requests have time limits, *)
(* delays elapse, a subservice reports success or failure, instructions    *)
(* are read.  The timer, the signal and what the replies say are free.     *)
(***************************************************************************)
Fairness == /\ WF_vars(InsNext) /\ WF_vars(AuthNext) /\ WF_vars(StartNext)
            /\ WF_vars(MonitorNext) /\ WF_vars(DelayEnds) /\ WF_vars(DownloadEnds)

FairSpec == Spec /\ Fairness

-----------------------------------------------------------------------------
(***************************************************************************)
(* Properties.                                                             *)
(***************************************************************************)

\* The variables have their types.  In particular there is one download at a
\* time, although both do_auth and do_cfg_monitor start them.
TypeOK ==
    /\ state \in {"stopped", "starting", "running"}
    /\ ins \in Seq(Instruction)
    /\ listening \in BOOLEAN
    /\ {tuncfg, domains, listed} \subseteq VersionOrNone
    /\ auths \in Nat /\ delayed \in Nat
    /\ starts \in Seq([up : 0 .. NSubs - 1, domains : VersionOrNone])
    /\ monitors \in Nat /\ downloads \in 0 .. 1
    /\ subservices \in Seq(VersionOrNone)
    /\ timer \in BOOLEAN /\ is_upgrading \in BOOLEAN
    /\ rules \in BOOLEAN /\ ipset \in BOOLEAN
    /\ dnsmasq \in {"default", "me"}
    /\ signalled \in BOOLEAN

\* What will lead to the subservices being started, counted: instructions,
\* requests, delays and starts under way.
Queued(i) == Cardinality({k \in DOMAIN ins : ins[k] = i})

Chain == Queued("Auth") + auths + delayed + Queued("StartSubServices") + Len(starts)

\* The state that the panic of do_download leaves: no download, and no end of it.
Abandoned == is_upgrading /\ downloads = 0

\* Until the signal, exactly one chain of events leads from "starting" to
\* "running", through all retries, upgrades and restarts, and none is left
\* behind in "running".  A second one would start the subservices twice, on the
\* same ports; a lost one, as after the panic of do_download, leaves the service
\* in "starting" for ever.
OneChain ==
    ~signalled => Chain = (IF state = "starting" /\ ~Abandoned THEN 1 ELSE 0)

\* Until the signal, traffic is redirected exactly while a set of subservices
\* is there to serve it, and there is one set.
RulesAreServed ==
    ~signalled => /\ Len(subservices) = (IF state = "running" THEN 1 ELSE 0)
                  /\ rules <=> state = "running"
                  /\ timer <=> state = "running"
                  /\ state = "running" => ipset /\ dnsmasq = "me"

\* The running Forwarder has the last list of domains that a reply had.  A start
\* takes the domains out of the service, so that every retry has to authenticate
\* again to get them, and a later list must reach the running Forwarder.  The
\* version that the service reports to the cloud may be a newer one, if it came
\* without a list (service.rs:390, 397).
DomainsCurrent ==
    ~signalled /\ state = "running" => subservices[1] = listed

\* No task is left: main's block_on returns and the process exits.
Exited == signalled /\ auths = 0 /\ delayed = 0 /\ starts = << >> /\ monitors = 0
          /\ downloads = 0 /\ ~timer /\ subservices = << >>

\* A process that exits leaves the router as it found it, whatever was under
\* way when the signal came.
CleanExit == Exited => ~rules /\ ~ipset /\ dnsmasq = "default"

\* The service is up again and again, or it asks the cloud again and again.
Trying == state = "running" \/ auths > 0 \/ starts # << >> \/ signalled

\* The service never gives up, whatever fails and however often, but for the
\* panic of do_download: a reply that asks for an upgrade before there was any
\* configuration is not followed by "do_auth retry {} seconds later"
\* (service.rs:287), and is_upgrading stays set.
KeepsTrying == []<>(Trying \/ Abandoned)

\* Service::stop ends the service for good, so that the process that lps.sh sent
\* SIGUSR1 to, and waits for ("test if it has exited", lps.sh:64), exits, unless
\* a start of the subservices that was under way completes after stop.  Stop
\* does not cancel it, although "drop trigger will complete monitor future"
\* (service.rs:143): it stores the subservices, redirects the traffic and starts
\* the monitor timer, and nobody is left to stop them.
SignalStops == (state = "stopped" /\ starts = << >>) ~> Exited

-----------------------------------------------------------------------------
(***************************************************************************)
(* The inductive invariant that the proofs rest on: the phases of the life *)
(* of the service, up to the signal, and what is left of them after it.    *)
(***************************************************************************)

\* A download sets is_upgrading.  Until the signal is_upgrading says that there is
\* one, unless it was abandoned, which happens only before there was any
\* configuration.
Upgrading ==
    /\ ~is_upgrading => downloads = 0
    /\ is_upgrading /\ ~signalled => downloads = 1 \/ tuncfg = NoVersion

\* The one link of the chain that the service is at while it is starting.
AskToStart == ins = << "Auth" >> /\ auths = 0 /\ delayed = 0 /\ starts = << >>
Asking == ins = << >> /\ auths = 1 /\ delayed = 0 /\ starts = << >>
Delayed == ins = << >> /\ auths = 0 /\ delayed = 1 /\ starts = << >>
Answered == /\ ins = << "StartSubServices" >> /\ auths = 0 /\ delayed = 0 /\ starts = << >>
            /\ tuncfg \in Version /\ domains = listed
StartUnderWay == /\ ins = << >> /\ auths = 0 /\ delayed = 0
                 /\ \E n \in 0 .. NSubs - 1 : starts = << [up |-> n, domains |-> listed] >>
                 /\ tuncfg \in Version
                 /\ ipset /\ dnsmasq = "me"
Broken == ins = << >> /\ auths = 0 /\ delayed = 0 /\ starts = << >>

Starting ==
    /\ state = "starting" /\ listening
    /\ monitors = 0 /\ subservices = << >>
    /\ ~timer /\ ~rules
    /\ IF Abandoned THEN Broken
                    ELSE AskToStart \/ Asking \/ Delayed \/ Answered \/ StartUnderWay

\* One monitor request or instruction at a time; a Restart comes before another.
Monitored ==
    \/ monitors = 0 /\ ins \in {<< >>, << "ServerCfgMonitor" >>, << "Restart" >>,
                                   << "Restart", "ServerCfgMonitor" >>}
    \/ monitors = 1 /\ ins = << >>

Running ==
    /\ state = "running" /\ listening
    /\ auths = 0 /\ delayed = 0 /\ starts = << >>
    /\ Monitored
    /\ tuncfg \in Version /\ subservices = << listed >>
    /\ timer /\ rules /\ ipset /\ dnsmasq = "me"

\* After the signal nothing is read and the rules come back only with the timer.
Signalled ==
    /\ signalled /\ ~listening /\ ins = << >>
    /\ Len(starts) <= 1
    /\ ~timer => ~rules /\ ~ipset /\ dnsmasq = "default"

IInv == TypeOK /\ Upgrading /\ (Signalled \/ (~signalled /\ (Starting \/ Running)))
=============================================================================
