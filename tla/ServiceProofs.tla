--------------------------- MODULE ServiceProofs ----------------------------
(***************************************************************************)
(* Proofs about Service, for any number of subservices and any versions of *)
(* the domains.                                                            *)
(*                                                                         *)
(* Until the signal the service is in one of two phases.  Starting has one *)
(* link of the chain, an instruction, a request, a delay or a start under  *)
(* way, or none after the panic of do_download; Running has none.  The     *)
(* proof follows every step from phase to phase; what the properties say   *)
(* can then be read off the phases.                                        *)
(***************************************************************************)
EXTENDS Service, SequenceTheorems, FiniteSetTheorems, TLAPS

\* Sequences of one or two elements.
LEMMA Short ==
    ASSUME NEW a, NEW b
    PROVE  /\ << a >> # << >> /\ Head(<< a >>) = a /\ Tail(<< a >>) = << >>
           /\ Append(<< >>, a) = << a >> /\ Len(<< a >>) = 1 /\ << a >>[1] = a
           /\ << a, b >> # << >> /\ Head(<< a, b >>) = a /\ Tail(<< a, b >>) = << b >>
           /\ Append(<< a >>, b) = << a, b >> /\ Len(<< >>) = 0
           /\ [<< a >> EXCEPT ![1] = b] = << b >>
<1>1. << a >> # << >> /\ Head(<< a >>) = a /\ Len(<< a >>) = 1 /\ << a >>[1] = a
  OBVIOUS
<1>2. Tail(<< a >>) = << >> /\ Len(<< >>) = 0
  OBVIOUS
<1>3. Append(<< >>, a) = << a >>
  OBVIOUS
<1>4. << a, b >> # << >> /\ Head(<< a, b >>) = a
  OBVIOUS
<1>5. Tail(<< a, b >>) = << b >>
  OBVIOUS
<1>6. Append(<< a >>, b) = << a, b >>
  <2> DEFINE s == Append(<< a >>, b)
             t == << a, b >>
  <2>1. << a >> \in Seq({a, b}) /\ b \in {a, b} /\ t \in Seq({a, b})
    OBVIOUS
  <2>2. s \in Seq({a, b}) /\ Len(s) = 2 /\ s[1] = a /\ s[2] = b
    BY <2>1, AppendProperties
  <2>3. Len(t) = 2 /\ t[1] = a /\ t[2] = b
    OBVIOUS
  <2> HIDE DEF s, t
  <2>4. \A i \in 1 .. Len(s) : s[i] = t[i]
    BY <2>2, <2>3
  <2>5. s = t
    BY <2>1, <2>2, <2>3, <2>4, SeqEqual
  <2> QED BY <2>5 DEF s, t
<1>7. [<< a >> EXCEPT ![1] = b] = << b >>
  OBVIOUS
<1> QED BY <1>1, <1>2, <1>3, <1>4, <1>5, <1>6, <1>7

\* The only start under way is taken out.
LEMMA RemoveOnly ==
    ASSUME NEW S, NEW s \in Seq(S), Len(s) <= 1, NEW k \in DOMAIN s
    PROVE  RemoveAt(s, k) = << >> /\ Len(s) = 1 /\ k = 1
<1>1. Len(s) \in Nat /\ DOMAIN s = 1 .. Len(s)
  OBVIOUS
<1>2. Len(s) = 1 /\ k = 1
  BY <1>1
<1>3. SubSeq(s, 1, 0) = << >> /\ SubSeq(s, 2, 1) = << >>
  BY <1>1, <1>2
<1>4. << >> \o << >> = << >>
  OBVIOUS
<1> QED BY <1>2, <1>3, <1>4 DEF RemoveAt

\* main starts the service.
LEMMA InitIInv == Init => IInv
<1> SUFFICES ASSUME Init PROVE IInv
  OBVIOUS
<1>1. TypeOK
  <2>1. /\ ins \in Seq(Instruction) /\ starts \in Seq([up : 0 .. NSubs - 1, domains : VersionOrNone])
        /\ monitors \in Nat /\ subservices \in Seq(VersionOrNone)
    BY DEF Init, Instruction
  <2>2. /\ listening \in BOOLEAN /\ timer \in BOOLEAN /\ is_upgrading \in BOOLEAN
        /\ rules \in BOOLEAN /\ ipset \in BOOLEAN /\ signalled \in BOOLEAN
    BY DEF Init
  <2>3. /\ auths \in Nat /\ delayed \in Nat /\ downloads \in 0 .. 1
        /\ state \in {"stopped", "starting", "running"} /\ dnsmasq \in {"default", "me"}
        /\ {tuncfg, domains, listed} \subseteq VersionOrNone
    BY DEF Init, VersionOrNone
  <2> QED BY <2>1, <2>2, <2>3 DEF TypeOK
<1>2. Upgrading
  BY DEF Init, Upgrading
<1>3. ~signalled /\ Starting
  <2>1. ~Abandoned /\ AskToStart
    BY DEF Init, Abandoned, AskToStart
  <2> QED BY <2>1 DEF Init, Starting
<1> QED BY <1>1, <1>2, <1>3 DEF IInv

-----------------------------------------------------------------------------
(***************************************************************************)
(* What the phases exclude.                                                *)
(***************************************************************************)

\* An instruction that is read says which phase and which link this is.
LEMMA ReadsFacts ==
    ASSUME IInv
    PROVE  /\ Reads("Auth") => ~signalled /\ Starting /\ ~Abandoned /\ AskToStart
           /\ Reads("StartSubServices") => ~signalled /\ Starting /\ ~Abandoned /\ Answered
           /\ Reads("ServerCfgMonitor") => /\ ~signalled /\ Running
                                           /\ monitors = 0 /\ ins = << "ServerCfgMonitor" >>
           /\ Reads("Restart") => ~signalled /\ Running /\ monitors = 0
<1>1. CASE Signalled
  BY <1>1 DEF Signalled, Reads
<1>2. CASE ~signalled /\ Starting
  <2>1. CASE Abandoned
    BY <1>2, <2>1 DEF Starting, Broken, Reads
  <2>2. CASE ~Abandoned
    <3>1. AskToStart \/ ins = << >> \/ Answered
      BY <1>2, <2>2 DEF Starting, Asking, Delayed, StartUnderWay
    <3>2. Head(<< "Auth" >>) = "Auth" /\ Head(<< "StartSubServices" >>) = "StartSubServices"
      BY Short
    <3> QED BY <1>2, <2>2, <3>1, <3>2 DEF AskToStart, Answered, Reads
  <2> QED BY <2>1, <2>2
<1>3. CASE ~signalled /\ Running
  <2>1. /\ Head(<< "ServerCfgMonitor" >>) = "ServerCfgMonitor" /\ Head(<< "Restart" >>) = "Restart"
        /\ Head(<< "Restart", "ServerCfgMonitor" >>) = "Restart"
    BY Short
  <2>2. \/ ins = << >>
        \/ /\ monitors = 0
           /\ ins \in {<< "ServerCfgMonitor" >>, << "Restart" >>, << "Restart", "ServerCfgMonitor" >>}
    BY <1>3 DEF Running, Monitored
  <2> QED BY <1>3, <2>1, <2>2 DEF Reads
<1> QED BY <1>1, <1>2, <1>3 DEF IInv

\* At most one start is under way, in every phase.
LEMMA OneStart ==
    ASSUME IInv, NEW k \in DOMAIN starts
    PROVE  /\ RemoveAt(starts, k) = << >> /\ Len(starts) = 1 /\ k = 1
           /\ ~signalled => Starting /\ ~Abandoned /\ StartUnderWay
<1>1. starts \in Seq([up : 0 .. NSubs - 1, domains : VersionOrNone]) /\ DOMAIN << >> = {}
  BY DEF IInv, TypeOK
<1>2. starts # << >>
  BY <1>1
<1>3. ~signalled => Starting /\ ~Abandoned /\ StartUnderWay
  BY <1>2 DEF IInv, Signalled, Running, Starting, Broken, AskToStart, Asking, Delayed, Answered
<1>4. Len(starts) <= 1
  <2>1. CASE signalled
    BY <2>1 DEF IInv, Signalled
  <2>2. CASE ~signalled
    <3>1. PICK e : starts = << e >>
      BY <1>3, <2>2 DEF StartUnderWay
    <3> QED BY <3>1
  <2> QED BY <2>1, <2>2
<1> QED BY <1>1, <1>3, <1>4, RemoveOnly

\* An authentication, a delay and a monitor request, likewise.
LEMMA OneLink ==
    ASSUME IInv, ~signalled
    PROVE  /\ auths > 0 => Starting /\ ~Abandoned /\ Asking
           /\ delayed > 0 => Starting /\ ~Abandoned /\ Delayed
           /\ monitors > 0 => Running /\ monitors = 1 /\ ins = << >>
           /\ timer => Running
  BY DEF IInv, Signalled, Running, Starting, Broken, AskToStart, Asking, Delayed, Answered,
         StartUnderWay, Monitored

-----------------------------------------------------------------------------
(***************************************************************************)
(* The types and the downloads.                                            *)
(***************************************************************************)

LEMMA FireType ==
    ASSUME TypeOK, NEW i \in Instruction
    PROVE  Fire(i) \in Seq(Instruction)
  BY DEF TypeOK, Fire

LEMMA ReadType ==
    ASSUME TypeOK, NEW i \in Instruction, Reads(i)
    PROVE  Tail(ins) \in Seq(Instruction)
  BY DEF TypeOK, Reads

\* A step of the state that MonitorEnds leaves to its three cases.
LEMMA MonitorType ==
    ASSUME TypeOK, MonitorEnds
    PROVE  /\ monitors' \in Nat /\ tuncfg' \in VersionOrNone /\ listed' \in VersionOrNone
           /\ subservices' \in Seq(VersionOrNone)
           /\ tuncfg = NoVersion \/ tuncfg' # NoVersion
<1>1. monitors' \in Nat
  BY DEF TypeOK, MonitorEnds
<1>2. CASE UNCHANGED << tuncfg, listed, subservices >>
  BY <1>1, <1>2 DEF TypeOK
<1>3. ASSUME NEW v \in Version, NEW sent \in BOOLEAN, NewCfg(v, sent)
      PROVE  /\ tuncfg' \in Version /\ listed' \in VersionOrNone
             /\ subservices' \in Seq(VersionOrNone)
  <2>1. tuncfg' \in Version /\ v \in VersionOrNone /\ listed' \in VersionOrNone
    BY <1>3 DEF NewCfg, VersionOrNone, TypeOK
  <2>2. subservices \in Seq(VersionOrNone)
    BY DEF TypeOK
  <2>3. subservices # << >> => [subservices EXCEPT ![1] = v] \in Seq(VersionOrNone)
    <3>1. Len(subservices) \in Nat /\ (subservices # << >> => 1 \in 1 .. Len(subservices))
      BY <2>2, EmptySeq, LenProperties
    <3> QED BY <2>1, <2>2, <3>1, ExceptSeq
  <2> QED BY <1>3, <2>1, <2>2, <2>3 DEF NewCfg
<1> QED BY <1>1, <1>2, <1>3, ServiceAssumption DEF MonitorEnds, MonitorCfg, VersionOrNone

LEMMA TypeStep ==
    ASSUME IInv, [Next]_vars
    PROVE  TypeOK'
<1> USE DEF runVars, taskVars, cfgVars, sysVars
<1>1. /\ TypeOK /\ ins \in Seq(Instruction) /\ auths \in Nat /\ delayed \in Nat
      /\ downloads \in 0 .. 1 /\ {"Auth", "StartSubServices", "ServerCfgMonitor", "Restart"} = Instruction
      /\ starts \in Seq([up : 0 .. NSubs - 1, domains : VersionOrNone])
      /\ monitors \in Nat /\ subservices \in Seq(VersionOrNone)
      /\ ~is_upgrading => downloads = 0
      /\ NSubs \in Nat /\ 0 \in 0 .. NSubs - 1
      /\ domains \in VersionOrNone
  BY ServiceAssumption DEF IInv, TypeOK, Instruction, Upgrading
<1>2. CASE do_auth
  <2>1. ins' \in Seq(Instruction)
    BY <1>1, <1>2, ReadType DEF do_auth
  <2>2. auths' \in Nat /\ delayed' \in Nat
    BY <1>1, <1>2 DEF do_auth
  <2> QED BY <1>1, <1>2, <2>1, <2>2 DEF do_auth, TypeOK
<1>3. CASE do_start_subservices
  <2>1. ins' \in Seq(Instruction)
    BY <1>1, <1>3, ReadType DEF do_start_subservices
  <2>2. starts' \in Seq([up : 0 .. NSubs - 1, domains : VersionOrNone])
    <3>1. [up |-> 0, domains |-> domains] \in [up : 0 .. NSubs - 1, domains : VersionOrNone]
      BY <1>1
    <3> QED BY <1>1, <1>3, <3>1 DEF do_start_subservices
  <2>3. domains' \in VersionOrNone /\ ipset' \in BOOLEAN /\ dnsmasq' \in {"default", "me"}
    BY <1>3 DEF do_start_subservices, VersionOrNone
  <2> QED BY <1>1, <1>3, <2>1, <2>2, <2>3 DEF do_start_subservices, TypeOK
<1>4. CASE do_cfg_monitor
  <2>1. ins' \in Seq(Instruction)
    BY <1>1, <1>4, ReadType DEF do_cfg_monitor
  <2>2. monitors' \in Nat
    BY <1>1, <1>4 DEF do_cfg_monitor
  <2> QED BY <1>1, <1>4, <2>1, <2>2 DEF do_cfg_monitor, TypeOK
<1>5. CASE do_restart
  <2>1. ins' \in Seq(Instruction) /\ subservices' \in Seq(VersionOrNone)
    BY <1>1, <1>5 DEF do_restart, stop, cleanup_subservices
  <2>2. /\ timer' \in BOOLEAN /\ rules' \in BOOLEAN /\ ipset' \in BOOLEAN
        /\ dnsmasq' \in {"default", "me"} /\ state' \in {"stopped", "starting", "running"}
    BY <1>5 DEF do_restart, stop, restore_sys
  <2> QED BY <1>1, <1>5, <2>1, <2>2 DEF do_restart, TypeOK
<1>6. CASE AuthFails
  BY <1>1, <1>6 DEF AuthFails, TypeOK
<1>7. CASE AuthUpgrade
  <2>1. is_upgrading' \in BOOLEAN /\ downloads' \in 0 .. 1
    BY <1>1, <1>7 DEF AuthUpgrade, do_download
  <2>2. auths' \in Nat /\ delayed' \in Nat
    BY <1>1, <1>7 DEF AuthUpgrade
  <2> QED BY <1>1, <1>7, <2>1, <2>2 DEF AuthUpgrade, TypeOK
<1>8. CASE AuthUpgradePanics
  <2>1. auths' \in Nat /\ is_upgrading' \in BOOLEAN
    BY <1>1, <1>8 DEF AuthUpgradePanics
  <2> QED BY <1>1, <1>8, <2>1 DEF AuthUpgradePanics, TypeOK
<1>9. ASSUME NEW v \in Version, AuthOk(v)
      PROVE  TypeOK'
  <2>1. ins' \in Seq(Instruction)
    BY <1>1, <1>9, FireType DEF AuthOk
  <2>2. auths' \in Nat /\ {tuncfg', domains', listed'} \subseteq VersionOrNone
    BY <1>1, <1>9 DEF AuthOk, VersionOrNone
  <2> QED BY <1>1, <1>9, <2>1, <2>2 DEF AuthOk, TypeOK
<1>10. CASE DelayEnds
  <2>1. ins' \in Seq(Instruction) /\ delayed' \in Nat
    BY <1>1, <1>10, FireType DEF DelayEnds
  <2> QED BY <1>1, <1>10, <2>1 DEF DelayEnds, TypeOK
<1>11. ASSUME NEW k \in DOMAIN starts, SubserviceUp(k)
       PROVE  TypeOK'
  <2> DEFINE R == [up : 0 .. NSubs - 1, domains : VersionOrNone]
             e == [starts[k] EXCEPT !.up = starts[k].up + 1]
  <2>1. starts[k] \in R /\ starts[k].up < NSubs - 1
    <3>1. starts \in Seq(R) /\ k \in 1 .. Len(starts)
      BY <1>1
    <3> QED BY <1>11, <3>1, ElementOfSeq DEF SubserviceUp
  <2>2. e \in R
    <3>1. starts[k].up \in 0 .. NSubs - 1 /\ starts[k].up + 1 \in 0 .. NSubs - 1
      BY <1>1, <2>1
    <3> QED BY <2>1, <3>1
  <2>3. starts' = [starts EXCEPT ![k] = e]
    BY <1>11 DEF SubserviceUp
  <2> HIDE DEF e, R
  <2>4. starts' \in Seq(R)
    BY <1>1, <2>2, <2>3 DEF R
  <2> QED BY <1>1, <1>11, <2>4 DEF SubserviceUp, TypeOK, R
<1>12. ASSUME NEW k \in DOMAIN starts, SubserviceFails(k)
       PROVE  TypeOK'
  <2>1. starts' = << >>
    BY <1>12, OneStart DEF SubserviceFails
  <2>2. starts' \in Seq([up : 0 .. NSubs - 1, domains : VersionOrNone])
    BY <2>1
  <2>3. delayed' \in Nat
    BY <1>1, <1>12 DEF SubserviceFails
  <2> QED BY <1>1, <1>12, <2>2, <2>3 DEF SubserviceFails, TypeOK
<1>13. ASSUME NEW k \in DOMAIN starts, SubservicesUp(k)
       PROVE  TypeOK'
  <2>1. starts' = << >>
    BY <1>13, OneStart DEF SubservicesUp
  <2>2. starts' \in Seq([up : 0 .. NSubs - 1, domains : VersionOrNone])
    BY <2>1
  <2>3. subservices' \in Seq(VersionOrNone)
    <3>1. starts[k] \in [up : 0 .. NSubs - 1, domains : VersionOrNone]
      <4>1. k \in 1 .. Len(starts)
        BY <1>1
      <4> QED BY <1>1, <4>1, ElementOfSeq
    <3>2. starts[k].domains \in VersionOrNone
      BY <3>1
    <3> QED BY <1>1, <1>13, <3>2 DEF SubservicesUp
  <2>4. /\ rules' \in BOOLEAN /\ timer' \in BOOLEAN
        /\ state' \in {"stopped", "starting", "running"}
    BY <1>13 DEF SubservicesUp, config_sys
  <2> QED BY <1>1, <1>13, <2>2, <2>3, <2>4 DEF SubservicesUp, TypeOK
<1>14. CASE MonitorTick
  <2>1. ins' \in Seq(Instruction)
    BY <1>1, <1>14, FireType DEF MonitorTick
  <2> QED BY <1>1, <1>14, <2>1 DEF MonitorTick, TypeOK
<1>15. CASE MonitorNext
  <2>1. MonitorEnds
    BY <1>15 DEF MonitorNext, MonitorQuiet, MonitorUpgrade, MonitorRestart
  <2>2. /\ monitors' \in Nat /\ tuncfg' \in VersionOrNone /\ listed' \in VersionOrNone
        /\ subservices' \in Seq(VersionOrNone)
    BY <1>1, <2>1, MonitorType
  <2>3. ins' \in Seq(Instruction)
    BY <1>1, <1>15, FireType DEF MonitorNext, MonitorQuiet, MonitorUpgrade, MonitorRestart
  <2>4. is_upgrading' \in BOOLEAN /\ downloads' \in 0 .. 1
    <3>1. CASE UNCHANGED << is_upgrading, downloads >>
      BY <1>1, <3>1 DEF TypeOK
    <3>2. CASE do_download
      BY <1>1, <3>2 DEF do_download
    <3> QED BY <1>15, <3>1, <3>2 DEF MonitorNext, MonitorQuiet, MonitorUpgrade, MonitorRestart
  <2> QED BY <1>1, <2>1, <2>2, <2>3, <2>4 DEF MonitorEnds, TypeOK
<1>16. CASE DownloadEnds
  <2>1. downloads' \in 0 .. 1
    <3>1. downloads = 1 /\ downloads' = downloads - 1
      BY <1>1, <1>16 DEF DownloadEnds
    <3> QED BY <3>1
  <2>2. is_upgrading' \in BOOLEAN
    BY <1>16 DEF DownloadEnds
  <2> QED BY <1>1, <1>16, <2>1, <2>2 DEF DownloadEnds, TypeOK
<1>17. CASE Signal
  <2>1. ins' \in Seq(Instruction) /\ subservices' \in Seq(VersionOrNone)
    BY <1>17 DEF Signal, stop, cleanup_subservices
  <2>2. /\ timer' \in BOOLEAN /\ rules' \in BOOLEAN /\ ipset' \in BOOLEAN
        /\ listening' \in BOOLEAN /\ signalled' \in BOOLEAN
        /\ dnsmasq' \in {"default", "me"} /\ state' \in {"stopped", "starting", "running"}
    BY <1>17 DEF Signal, stop, restore_sys
  <2> QED BY <1>1, <1>17, <2>1, <2>2 DEF Signal, TypeOK
<1>18. CASE UNCHANGED vars
  BY <1>1, <1>18 DEF vars, TypeOK
<1> QED BY <1>2, <1>3, <1>4, <1>5, <1>6, <1>7, <1>8, <1>9, <1>10, <1>11, <1>12, <1>13, <1>14,
           <1>15, <1>16, <1>17, <1>18 DEF Next, InsNext, AuthNext, StartNext

\* There is one download at a time, or an upgrade that was abandoned before there
\* was a configuration.
LEMMA UpgradingStep ==
    ASSUME IInv, [Next]_vars
    PROVE  Upgrading'
<1> USE DEF runVars, taskVars, cfgVars, sysVars
<1>1. /\ Upgrading /\ downloads \in 0 .. 1
  BY DEF IInv, TypeOK
<1>2. ASSUME UNCHANGED << is_upgrading, downloads, signalled >>,
             ~signalled /\ is_upgrading /\ downloads = 0 => tuncfg' = tuncfg
      PROVE  Upgrading'
  BY <1>1, <1>2 DEF Upgrading
<1>3. ASSUME do_download
      PROVE  Upgrading'
  BY <1>1, <1>3 DEF do_download, Upgrading
<1>4. CASE AuthUpgradePanics
  BY <1>1, <1>4 DEF AuthUpgradePanics, Upgrading
<1>5. CASE DownloadEnds
  BY <1>1, <1>5 DEF DownloadEnds, Upgrading
<1>6. CASE MonitorNext
  <2>1. monitors > 0 /\ UNCHANGED signalled
    BY <1>6 DEF MonitorNext, MonitorQuiet, MonitorUpgrade, MonitorRestart, MonitorEnds
  <2>2. ~signalled => tuncfg \in Version
    BY <2>1, OneLink DEF Running
  <2>3. CASE UNCHANGED << is_upgrading, downloads >>
    <3>1. ~signalled /\ is_upgrading => downloads = 1
      BY <1>1, <2>2, ServiceAssumption DEF Upgrading
    <3> QED BY <1>2, <2>1, <2>3, <3>1
  <2>4. CASE do_download
    BY <1>3, <2>4
  <2> QED BY <1>6, <2>3, <2>4 DEF MonitorNext, MonitorQuiet, MonitorUpgrade, MonitorRestart
<1>7. ASSUME NEW v \in Version, AuthOk(v)
      PROVE  Upgrading'
  <2>1. auths > 0 /\ UNCHANGED << is_upgrading, downloads, signalled >>
    BY <1>7 DEF AuthOk
  <2>2. ~signalled => ~Abandoned
    BY <2>1, OneLink
  <2> QED BY <1>2, <2>1, <2>2 DEF Abandoned
<1>8. CASE \/ InsNext \/ AuthFails \/ StartNext \/ DelayEnds \/ MonitorTick
           \/ UNCHANGED vars
  <2>1. UNCHANGED << is_upgrading, downloads, tuncfg, signalled >>
    BY <1>8 DEF InsNext, do_auth, do_start_subservices, do_cfg_monitor, do_restart, AuthFails,
                StartNext, SubserviceUp, SubserviceFails, SubservicesUp, DelayEnds, MonitorTick,
                vars
  <2> QED BY <1>2, <2>1
<1>9. CASE AuthUpgrade
  BY <1>3, <1>9 DEF AuthUpgrade
<1>10. CASE Signal
  BY <1>1, <1>10 DEF Signal, Upgrading
<1> QED BY <1>4, <1>5, <1>6, <1>7, <1>8, <1>9, <1>10 DEF Next, AuthNext

-----------------------------------------------------------------------------
(***************************************************************************)
(* The phases.                                                             *)
(***************************************************************************)
Phase == Signalled \/ (~signalled /\ (Starting \/ Running))

\* A starting service stays so, starts, or is stopped.
LEMMA StartingStep ==
    ASSUME IInv, ~signalled, Starting, [Next]_vars
    PROVE  Phase'
<1> USE DEF runVars, taskVars, cfgVars, sysVars
<1>1. /\ listening /\ monitors = 0 /\ ~timer /\ subservices = << >> /\ ~rules
      /\ state = "starting" /\ ~Running
      /\ downloads \in 0 .. 1 /\ Upgrading /\ auths \in Nat /\ delayed \in Nat
      /\ NSubs \in Nat \ {0}
      /\ \A i \in Instruction : ins = << >> => Fire(i) = << i >>
  BY Short, ServiceAssumption DEF Starting, Running, IInv, TypeOK, Fire
<1> DEFINE Rest == UNCHANGED << listening, monitors, timer, subservices, rules, state, signalled >>
           Link == AskToStart \/ Asking \/ Delayed \/ Answered \/ StartUnderWay
           Kept == Rest /\ UNCHANGED << is_upgrading, downloads >>
<1>2. ASSUME Rest, ~Abandoned',
             AskToStart' \/ Asking' \/ Delayed' \/ Answered' \/ StartUnderWay'
      PROVE  Phase'
  BY <1>1, <1>2 DEF Phase, Starting
<1>3. ASSUME Kept, ~Abandoned,
             AskToStart' \/ Asking' \/ Delayed' \/ Answered' \/ StartUnderWay'
      PROVE  Phase'
  BY <1>2, <1>3 DEF Abandoned
<1>4. CASE do_auth
  <2>1. ~Abandoned /\ AskToStart /\ Tail(<< "Auth" >>) = << >>
    BY <1>4, ReadsFacts, Short DEF do_auth
  <2>2. Kept /\ UNCHANGED starts /\ ins' = Tail(ins)
    BY <1>4 DEF do_auth
  <2>3. \/ delayed' = delayed + 1 /\ UNCHANGED auths
        \/ auths' = auths + 1 /\ UNCHANGED delayed
    BY <1>4 DEF do_auth
  <2>4. Asking' \/ Delayed'
    BY <2>1, <2>2, <2>3 DEF AskToStart, Asking, Delayed
  <2> QED BY <1>3, <2>1, <2>2, <2>4
<1>5. CASE do_start_subservices
  <2>1. ~Abandoned /\ Answered /\ Tail(<< "StartSubServices" >>) = << >>
    BY <1>5, ReadsFacts, Short DEF do_start_subservices
  <2>2. Kept /\ ins' = Tail(ins) /\ UNCHANGED << auths, delayed, tuncfg, listed >>
        /\ ipset' = TRUE /\ dnsmasq' = "me"
    BY <1>5 DEF do_start_subservices
  <2>3. starts' = << [up |-> 0, domains |-> listed] >>
    BY <1>5, <2>1, Short DEF do_start_subservices, Answered
  <2>4. 0 \in 0 .. NSubs - 1
    BY <1>1
  <2>5. StartUnderWay'
    BY <2>1, <2>2, <2>3, <2>4 DEF Answered, StartUnderWay
  <2> QED BY <1>3, <2>1, <2>2, <2>5
<1>6. CASE do_cfg_monitor \/ do_restart
  BY <1>1, <1>6, ReadsFacts DEF do_cfg_monitor, do_restart
<1>7. CASE AuthFails
  <2>1. ~Abandoned /\ Asking
    BY <1>7, OneLink DEF AuthFails
  <2>2. Kept /\ auths' = auths - 1 /\ delayed' = delayed + 1 /\ UNCHANGED << ins, starts >>
    BY <1>7 DEF AuthFails
  <2>3. Delayed'
    BY <2>1, <2>2 DEF Asking, Delayed
  <2> QED BY <1>3, <2>1, <2>2, <2>3
<1>8. CASE AuthUpgrade
  <2>1. ~Abandoned /\ Asking
    BY <1>8, OneLink DEF AuthUpgrade
  <2>2. Rest /\ auths' = auths - 1 /\ delayed' = delayed + 1 /\ UNCHANGED << ins, starts >>
    BY <1>8 DEF AuthUpgrade
  <2>3. Delayed'
    BY <2>1, <2>2 DEF Asking, Delayed
  <2>4. downloads' = 1
    BY <1>1, <1>8 DEF AuthUpgrade, do_download, Upgrading
  <2> QED BY <1>2, <2>2, <2>3, <2>4 DEF Abandoned
<1>9. CASE AuthUpgradePanics
  <2>1. ~Abandoned /\ Asking
    BY <1>9, OneLink DEF AuthUpgradePanics
  <2>2. Rest /\ auths' = auths - 1 /\ UNCHANGED << ins, starts, delayed, downloads >>
        /\ is_upgrading' = TRUE
    BY <1>9 DEF AuthUpgradePanics
  <2>3. Broken'
    BY <2>1, <2>2 DEF Asking, Broken
  <2>4. Abandoned'
    BY <1>1, <1>9, <2>2 DEF AuthUpgradePanics, Upgrading, Abandoned
  <2> QED BY <1>1, <2>2, <2>3, <2>4 DEF Phase, Starting
<1>10. ASSUME NEW v \in Version, AuthOk(v)
       PROVE  Phase'
  <2>1. ~Abandoned /\ Asking
    BY <1>10, OneLink DEF AuthOk
  <2>2. Kept /\ auths' = auths - 1 /\ UNCHANGED << starts, delayed >>
        /\ tuncfg' = v /\ domains' = v /\ listed' = v /\ ins' = Fire("StartSubServices")
    BY <1>10 DEF AuthOk
  <2>3. ins' = << "StartSubServices" >>
    BY <1>1, <2>1, <2>2 DEF Asking, Instruction
  <2>4. Answered'
    BY <2>1, <2>2, <2>3 DEF Asking, Answered
  <2> QED BY <1>3, <2>1, <2>2, <2>4
<1>11. CASE DelayEnds
  <2>1. ~Abandoned /\ Delayed
    BY <1>11, OneLink DEF DelayEnds
  <2>2. Kept /\ delayed' = delayed - 1 /\ UNCHANGED << starts, auths >> /\ ins' = Fire("Auth")
    BY <1>11 DEF DelayEnds
  <2>3. ins' = << "Auth" >>
    BY <1>1, <2>1, <2>2 DEF Delayed, Instruction
  <2>4. AskToStart'
    BY <2>1, <2>2, <2>3 DEF Delayed, AskToStart
  <2> QED BY <1>3, <2>1, <2>2, <2>4
<1>12. ASSUME NEW k \in DOMAIN starts
       PROVE  /\ ~Abandoned /\ StartUnderWay /\ RemoveAt(starts, k) = << >> /\ k = 1
              /\ \E n \in 0 .. NSubs - 1 :
                   /\ starts = << [up |-> n, domains |-> listed] >>
                   /\ starts[k] = [up |-> n, domains |-> listed]
  <2>1. ~Abandoned /\ StartUnderWay /\ RemoveAt(starts, k) = << >> /\ k = 1
    BY OneStart
  <2>2. PICK n \in 0 .. NSubs - 1 : starts = << [up |-> n, domains |-> listed] >>
    BY <2>1 DEF StartUnderWay
  <2>3. starts[k] = [up |-> n, domains |-> listed]
    BY <2>1, <2>2
  <2> QED BY <2>1, <2>2, <2>3
<1>13. ASSUME NEW k \in DOMAIN starts, SubserviceUp(k)
       PROVE  Phase'
  <2>1. PICK n \in 0 .. NSubs - 1 : /\ starts = << [up |-> n, domains |-> listed] >>
                                    /\ starts[k] = [up |-> n, domains |-> listed]
    BY <1>12
  <2>2. k = 1 /\ StartUnderWay /\ ~Abandoned
    BY <1>12
  <2>3. /\ Kept /\ UNCHANGED << ins, auths, delayed, tuncfg, listed, ipset, dnsmasq >>
        /\ starts[k].up < NSubs - 1
        /\ starts' = [starts EXCEPT ![k] = [starts[k] EXCEPT !.up = starts[k].up + 1]]
    BY <1>13 DEF SubserviceUp
  <2>4. starts[k].up = n /\ [starts[k] EXCEPT !.up = starts[k].up + 1]
                              = [up |-> n + 1, domains |-> listed]
    BY <2>1
  <2>5. n + 1 \in 0 .. NSubs - 1
    BY <1>1, <2>3, <2>4
  <2>6. starts' = << [up |-> n + 1, domains |-> listed] >>
    BY <2>1, <2>2, <2>3, <2>4, Short
  <2>7. StartUnderWay'
    BY <2>2, <2>3, <2>5, <2>6 DEF StartUnderWay
  <2> QED BY <1>3, <2>2, <2>3, <2>7
<1>14. ASSUME NEW k \in DOMAIN starts, SubserviceFails(k)
       PROVE  Phase'
  <2>1. ~Abandoned /\ StartUnderWay /\ RemoveAt(starts, k) = << >>
    BY <1>12
  <2>2. Kept /\ starts' = << >> /\ delayed' = delayed + 1 /\ UNCHANGED << ins, auths >>
    BY <1>14, <2>1 DEF SubserviceFails
  <2>3. Delayed'
    BY <2>1, <2>2 DEF StartUnderWay, Delayed
  <2> QED BY <1>3, <2>1, <2>2, <2>3
<1>15. ASSUME NEW k \in DOMAIN starts, SubservicesUp(k)
       PROVE  Phase'
  <2>1. StartUnderWay /\ RemoveAt(starts, k) = << >> /\ starts[k].domains = listed
    BY <1>12
  <2>2. /\ UNCHANGED << ins, auths, delayed, tuncfg, listed, listening, monitors, ipset,
                        dnsmasq, signalled >>
        /\ starts' = << >> /\ state' = "running" /\ rules' = TRUE /\ timer' = TRUE
    BY <1>15, <2>1 DEF SubservicesUp, config_sys
  <2>3. subservices' = << listed >>
    BY <1>1, <1>15, <2>1, Short DEF SubservicesUp
  <2>4. Running'
    BY <1>1, <2>1, <2>2, <2>3 DEF Running, Monitored, StartUnderWay
  <2> QED BY <2>2, <2>4 DEF Phase
<1>16. CASE MonitorTick \/ MonitorNext
  BY <1>1, <1>16 DEF MonitorTick, MonitorNext, MonitorQuiet, MonitorUpgrade, MonitorRestart,
                     MonitorEnds
<1>17. CASE DownloadEnds
  <2>1. Rest /\ UNCHANGED << ins, auths, delayed, starts, tuncfg, domains, listed, ipset, dnsmasq >>
        /\ downloads > 0 /\ is_upgrading' = FALSE
    BY <1>17 DEF DownloadEnds
  <2>2. ~Abandoned /\ ~Abandoned'
    BY <1>1, <2>1 DEF Abandoned
  <2>3. Link
    BY <2>2 DEF Starting
  <2>4. AskToStart' \/ Asking' \/ Delayed' \/ Answered' \/ StartUnderWay'
    BY <2>1, <2>3 DEF AskToStart, Asking, Delayed, Answered, StartUnderWay
  <2> QED BY <1>2, <2>1, <2>2, <2>4
<1>18. CASE Signal
  <2>1. Len(starts) <= 1
    <3>1. CASE starts = << >>
      BY <3>1, Short
    <3>2. CASE StartUnderWay
      <4>1. PICK e : starts = << e >>
        BY <3>2 DEF StartUnderWay
      <4> QED BY <4>1
    <3> QED BY <3>1, <3>2 DEF Starting, Broken, AskToStart, Asking, Delayed, Answered
  <2>2. /\ signalled' = TRUE /\ listening' = FALSE /\ ins' = << >> /\ starts' = starts
        /\ rules' = FALSE /\ ipset' = FALSE /\ dnsmasq' = "default"
    BY <1>18 DEF Signal, stop, restore_sys
  <2> QED BY <2>1, <2>2 DEF Phase, Signalled
<1>19. CASE UNCHANGED vars
  BY <1>19 DEF vars, Phase, Starting, Abandoned, Broken, AskToStart, Asking, Delayed, Answered,
               StartUnderWay
<1> QED BY <1>4, <1>5, <1>6, <1>7, <1>8, <1>9, <1>10, <1>11, <1>13, <1>14, <1>15, <1>16, <1>17,
           <1>18, <1>19 DEF Next, InsNext, AuthNext, StartNext

\* A running service stays so, is restarted, or is stopped.
LEMMA RunningStep ==
    ASSUME IInv, ~signalled, Running, [Next]_vars
    PROVE  Phase'
<1> USE DEF runVars, taskVars, cfgVars, sysVars
<1>1. /\ state = "running" /\ listening /\ auths = 0 /\ delayed = 0 /\ starts = << >>
      /\ Monitored /\ tuncfg \in Version /\ subservices = << listed >>
      /\ timer /\ rules /\ ipset /\ dnsmasq = "me"
      /\ Upgrading /\ ~Abandoned
  BY ServiceAssumption DEF Running, IInv, Upgrading, Abandoned
<1> DEFINE Rest == UNCHANGED << state, listening, auths, delayed, starts, timer, rules, ipset,
                                dnsmasq, signalled >>
<1>2. ASSUME Rest, Monitored', tuncfg' \in Version, subservices' = << listed' >>
      PROVE  Phase'
  BY <1>1, <1>2 DEF Phase, Running
<1>3. CASE do_auth \/ do_start_subservices
  <2>1. ~Starting
    BY <1>1 DEF Starting
  <2> QED BY <1>3, <2>1, ReadsFacts DEF do_auth, do_start_subservices
<1>4. CASE do_cfg_monitor
  <2>1. ins = << "ServerCfgMonitor" >> /\ monitors = 0
    BY <1>4, ReadsFacts DEF do_cfg_monitor
  <2>2. ins' = << >> /\ monitors' \in {0, 1}
    BY <1>4, <2>1, Short DEF do_cfg_monitor
  <2>3. Rest /\ UNCHANGED << tuncfg, listed, subservices >>
    BY <1>4 DEF do_cfg_monitor
  <2> QED BY <1>1, <1>2, <2>2, <2>3 DEF Monitored
<1>5. CASE do_restart
  <2>1. monitors = 0
    BY <1>5, ReadsFacts DEF do_restart
  <2>2. /\ timer' = FALSE /\ subservices' = << >> /\ rules' = FALSE /\ state' = "starting"
        /\ ins' = << "Auth" >>
        /\ UNCHANGED << listening, monitors, auths, delayed, starts, is_upgrading, downloads,
                        signalled >>
    BY <1>5 DEF do_restart, stop, cleanup_subservices, restore_sys
  <2>3. ~Abandoned' /\ AskToStart'
    BY <1>1, <2>2 DEF Abandoned, AskToStart
  <2> QED BY <1>1, <2>1, <2>2, <2>3 DEF Phase, Starting
<1>6. CASE AuthNext \/ DelayEnds
  BY <1>1, <1>6 DEF AuthNext, AuthFails, AuthUpgrade, AuthUpgradePanics, AuthOk, DelayEnds
<1>7. CASE StartNext
  <2>1. DOMAIN << >> = {}
    OBVIOUS
  <2> QED BY <1>1, <1>7, <2>1 DEF StartNext
<1>8. CASE MonitorTick
  <2>1. monitors = 0 /\ \A k \in DOMAIN ins : ins[k] # "ServerCfgMonitor"
    BY <1>8 DEF MonitorTick
  <2>2. ins = << >> \/ ins = << "Restart" >>
    <3>1. 1 \in DOMAIN << "ServerCfgMonitor" >> /\ << "ServerCfgMonitor" >>[1] = "ServerCfgMonitor"
      OBVIOUS
    <3>2. 2 \in DOMAIN << "Restart", "ServerCfgMonitor" >>
          /\ << "Restart", "ServerCfgMonitor" >>[2] = "ServerCfgMonitor"
      OBVIOUS
    <3> QED BY <1>1, <2>1, <3>1, <3>2 DEF Monitored
  <2>3. ins' = Append(ins, "ServerCfgMonitor")
    BY <1>1, <1>8 DEF MonitorTick, Fire
  <2>4. ins' \in {<< "ServerCfgMonitor" >>, << "Restart", "ServerCfgMonitor" >>}
    <3>1. CASE ins = << >>
      <4>1. Append(<< >>, "ServerCfgMonitor") = << "ServerCfgMonitor" >>
        BY Short
      <4> QED BY <2>3, <3>1, <4>1
    <3>2. CASE ins = << "Restart" >>
      <4>1. Append(<< "Restart" >>, "ServerCfgMonitor") = << "Restart", "ServerCfgMonitor" >>
        BY Short
      <4> QED BY <2>3, <3>2, <4>1
    <3> QED BY <2>2, <3>1, <3>2
  <2>5. Rest /\ UNCHANGED << monitors, tuncfg, listed, subservices >>
    BY <1>8 DEF MonitorTick
  <2>6. Monitored'
    BY <2>1, <2>4, <2>5 DEF Monitored
  <2> QED BY <1>1, <1>2, <2>5, <2>6
<1>9. CASE MonitorNext
  <2>1. MonitorEnds
    BY <1>9 DEF MonitorNext, MonitorQuiet, MonitorUpgrade, MonitorRestart
  <2>2. monitors = 1 /\ ins = << >>
    BY <2>1, OneLink DEF MonitorEnds
  <2>3. monitors' = 0
    BY <2>1, <2>2 DEF MonitorEnds
  <2>4. tuncfg' \in Version /\ subservices' = << listed' >>
    <3>1. CASE UNCHANGED << tuncfg, listed, subservices >>
      BY <1>1, <3>1
    <3>2. ASSUME NEW v \in Version, NEW sent \in BOOLEAN, NewCfg(v, sent)
          PROVE  tuncfg' \in Version /\ subservices' = << listed' >>
      <4>1. CASE sent
        BY <1>1, <3>2, <4>1, Short DEF NewCfg
      <4>2. CASE ~sent
        BY <1>1, <3>2, <4>2 DEF NewCfg
      <4> QED BY <4>1, <4>2
    <3> QED BY <2>1, <3>1, <3>2 DEF MonitorEnds, MonitorCfg
  <2>5. ins' = << >> \/ ins' = << "Restart" >>
    BY <1>1, <1>9, <2>2, Short DEF MonitorNext, MonitorQuiet, MonitorUpgrade, MonitorRestart, Fire
  <2>6. Rest
    BY <2>1 DEF MonitorEnds
  <2>7. Monitored'
    BY <2>3, <2>5 DEF Monitored
  <2> QED BY <1>2, <2>4, <2>6, <2>7
<1>10. CASE DownloadEnds \/ UNCHANGED vars
  <2>1. Rest /\ UNCHANGED << monitors, ins, tuncfg, listed, subservices >>
    BY <1>10 DEF DownloadEnds, vars
  <2> QED BY <1>1, <1>2, <2>1 DEF Monitored
<1>11. CASE Signal
  <2>1. /\ signalled' = TRUE /\ listening' = FALSE /\ ins' = << >> /\ starts' = starts
        /\ rules' = FALSE /\ ipset' = FALSE /\ dnsmasq' = "default"
    BY <1>11 DEF Signal, stop, restore_sys
  <2> QED BY <1>1, <2>1, Short DEF Phase, Signalled
<1> QED BY <1>3, <1>4, <1>5, <1>6, <1>7, <1>8, <1>9, <1>10, <1>11 DEF Next, InsNext

\* After the signal only a start that was under way can bring the rules back, and
\* the timer with them.
LEMMA SignalledStep ==
    ASSUME IInv, Signalled, [Next]_vars
    PROVE  Signalled'
<1> USE DEF runVars, taskVars, cfgVars, sysVars
<1>1. /\ signalled /\ ~listening /\ ins = << >> /\ Len(starts) <= 1
      /\ ~timer => ~rules /\ ~ipset /\ dnsmasq = "default"
      /\ \A i : Fire(i) = << >>
  BY DEF Signalled, Fire
<1>2. ASSUME UNCHANGED << signalled, listening, starts, timer, rules, ipset, dnsmasq >>,
             ins' = << >>
      PROVE  Signalled'
  BY <1>1, <1>2 DEF Signalled
<1>3. ~InsNext /\ ~Signal
  BY <1>1 DEF InsNext, do_auth, do_start_subservices, do_cfg_monitor, do_restart, Reads, Signal
<1>4. CASE AuthNext \/ DelayEnds \/ MonitorTick \/ DownloadEnds \/ UNCHANGED vars
  BY <1>1, <1>2, <1>4 DEF AuthNext, AuthFails, AuthUpgrade, AuthUpgradePanics, AuthOk, DelayEnds,
                          MonitorTick, DownloadEnds, vars
<1>5. CASE MonitorNext
  BY <1>1, <1>2, <1>5 DEF MonitorNext, MonitorQuiet, MonitorUpgrade, MonitorRestart, MonitorEnds
<1>6. ASSUME NEW k \in DOMAIN starts, SubserviceUp(k)
      PROVE  Signalled'
  <2>1. UNCHANGED << signalled, listening, timer, rules, ipset, dnsmasq, ins >>
    BY <1>6 DEF SubserviceUp
  <2>2. Len(starts') <= 1
    <3>1. starts \in Seq([up : 0 .. NSubs - 1, domains : VersionOrNone])
      BY DEF IInv, TypeOK
    <3>2. \A e : Len([starts EXCEPT ![k] = e]) = Len(starts)
      BY <3>1
    <3>3. starts' = [starts EXCEPT ![k] = [starts[k] EXCEPT !.up = starts[k].up + 1]]
      BY <1>6 DEF SubserviceUp
    <3> QED BY <1>1, <3>2, <3>3
  <2> QED BY <1>1, <2>1, <2>2 DEF Signalled
<1>7. ASSUME NEW k \in DOMAIN starts, SubserviceFails(k)
      PROVE  Signalled'
  <2>1. starts' = << >> /\ UNCHANGED << signalled, listening, timer, rules, ipset, dnsmasq, ins >>
    BY <1>7, OneStart DEF SubserviceFails
  <2> QED BY <1>1, <2>1, Short DEF Signalled
<1>8. ASSUME NEW k \in DOMAIN starts, SubservicesUp(k)
      PROVE  Signalled'
  <2>1. starts' = << >> /\ timer' = TRUE /\ UNCHANGED << signalled, listening, ins >>
    BY <1>8, OneStart DEF SubservicesUp
  <2> QED BY <1>1, <2>1, Short DEF Signalled
<1> QED BY <1>3, <1>4, <1>5, <1>6, <1>7, <1>8 DEF Next, StartNext

-----------------------------------------------------------------------------
(***************************************************************************)
(* The theorems.                                                           *)
(***************************************************************************)

\* In every state the service is in one of its phases.
THEOREM Invariance == Spec => []IInv
<1>1. Init => IInv
  BY InitIInv
<1>2. IInv /\ [Next]_vars => IInv'
  <2> SUFFICES ASSUME IInv, [Next]_vars PROVE IInv'
    OBVIOUS
  <2>1. Phase'
    BY StartingStep, RunningStep, SignalledStep DEF IInv, Phase
  <2> QED BY <2>1, TypeStep, UpgradingStep DEF IInv, Phase
<1> QED BY <1>1, <1>2, PTL DEF Spec

\* The variables have their types; in particular do_auth and do_cfg_monitor never
\* start two downloads.
THEOREM TypeCorrect == Spec => []TypeOK
<1>1. IInv => TypeOK
  BY DEF IInv
<1> QED BY <1>1, Invariance, PTL

\* How often an instruction is in a channel of one or two.
LEMMA QueuedFacts ==
    /\ ins = << >> => \A i : Queued(i) = 0
    /\ \A a, i : ins = << a >> => Queued(i) = IF a = i THEN 1 ELSE 0
    /\ \A a, b, i : ins = << a, b >> /\ a # i /\ b # i => Queued(i) = 0
<1>1. ASSUME ins = << >>, NEW i
      PROVE  Queued(i) = 0
  <2>1. {k \in DOMAIN ins : ins[k] = i} = {}
    BY <1>1
  <2> QED BY <2>1, FS_EmptySet DEF Queued
<1>2. ASSUME NEW a, NEW i, ins = << a >>
      PROVE  Queued(i) = IF a = i THEN 1 ELSE 0
  <2>1. {k \in DOMAIN ins : ins[k] = i} = IF a = i THEN {1} ELSE {}
    BY <1>2
  <2> QED BY <2>1, FS_EmptySet, FS_Singleton DEF Queued
<1>3. ASSUME NEW a, NEW b, NEW i, ins = << a, b >>, a # i, b # i
      PROVE  Queued(i) = 0
  <2>1. {k \in DOMAIN ins : ins[k] = i} = {}
    BY <1>3
  <2> QED BY <2>1, FS_EmptySet DEF Queued
<1> QED BY <1>1, <1>2, <1>3

\* Until the signal one chain of instructions, requests, delays and starts leads
\* to the running service, and none is left when it runs (do_auth, do_restart and
\* every retry hand on exactly one).
THEOREM OneChainAlways == Spec => []OneChain
<1>1. IInv => OneChain
  <2> SUFFICES ASSUME IInv, ~signalled
               PROVE  Chain = IF state = "starting" /\ ~Abandoned THEN 1 ELSE 0
    BY DEF OneChain
  <2>1. Starting \/ Running
    BY DEF IInv, Signalled
  <2>2. CASE Starting /\ Abandoned
    <3>1. Queued("Auth") = 0 /\ Queued("StartSubServices") = 0 /\ Len(starts) = 0
      BY <2>2, QueuedFacts, Short DEF Starting, Broken
    <3> QED BY <2>2, <3>1 DEF Starting, Broken, Chain
  <2>3. CASE Starting /\ ~Abandoned
    <3>1. CASE AskToStart
      <4>1. Queued("Auth") = 1 /\ Queued("StartSubServices") = 0 /\ Len(starts) = 0
        BY <3>1, QueuedFacts, Short DEF AskToStart
      <4> QED BY <2>3, <3>1, <4>1 DEF Starting, AskToStart, Chain
    <3>2. CASE Asking \/ Delayed
      <4>1. Queued("Auth") = 0 /\ Queued("StartSubServices") = 0 /\ Len(starts) = 0
        BY <3>2, QueuedFacts, Short DEF Asking, Delayed
      <4> QED BY <2>3, <3>2, <4>1 DEF Starting, Asking, Delayed, Chain
    <3>3. CASE Answered
      <4>1. Queued("Auth") = 0 /\ Queued("StartSubServices") = 1 /\ Len(starts) = 0
        BY <3>3, QueuedFacts, Short DEF Answered
      <4> QED BY <2>3, <3>3, <4>1 DEF Starting, Answered, Chain
    <3>4. CASE StartUnderWay
      <4>1. Queued("Auth") = 0 /\ Queued("StartSubServices") = 0
        BY <3>4, QueuedFacts DEF StartUnderWay
      <4>2. PICK e : starts = << e >>
        BY <3>4 DEF StartUnderWay
      <4>3. Len(starts) = 1
        BY <4>2
      <4> QED BY <2>3, <3>4, <4>1, <4>3 DEF Starting, StartUnderWay, Chain
    <3> QED BY <2>3, <3>1, <3>2, <3>3, <3>4 DEF Starting
  <2>4. CASE Running
    <3>1. Queued("Auth") = 0 /\ Queued("StartSubServices") = 0
      BY <2>4, QueuedFacts DEF Running, Monitored
    <3>2. Len(starts) = 0
      BY <2>4, Short DEF Running
    <3> QED BY <2>4, <3>1, <3>2 DEF Running, Chain
  <2> QED BY <2>1, <2>2, <2>3, <2>4
<1> QED BY <1>1, Invariance, PTL

\* Until the signal traffic is redirected exactly while one set of subservices is
\* there to serve it (SubservicesUp, do_restart).
THEOREM RulesServed == Spec => []RulesAreServed
<1>1. IInv => RulesAreServed
  <2> SUFFICES ASSUME IInv, ~signalled
               PROVE  /\ Len(subservices) = (IF state = "running" THEN 1 ELSE 0)
                      /\ rules <=> state = "running"
                      /\ timer <=> state = "running"
                      /\ state = "running" => ipset /\ dnsmasq = "me"
    BY DEF RulesAreServed
  <2>1. Starting \/ Running
    BY DEF IInv, Signalled
  <2>2. CASE Starting
    BY <2>2, Short DEF Starting
  <2>3. CASE Running
    <3>1. Len(subservices) = 1
      BY <2>3, Short DEF Running
    <3> QED BY <2>3, <3>1 DEF Running
  <2> QED BY <2>1, <2>2, <2>3
<1> QED BY <1>1, Invariance, PTL

\* The running Forwarder has the last list of domains that a reply of the cloud had
\* (do_start_subservices takes the domains, NewCfg replaces them).
THEOREM DomainsAreCurrent == Spec => []DomainsCurrent
<1>1. IInv => DomainsCurrent
  <2> SUFFICES ASSUME IInv, ~signalled, state = "running"
               PROVE  subservices[1] = listed
    BY DEF DomainsCurrent
  <2>1. Running
    BY DEF IInv, Signalled, Starting
  <2> QED BY <2>1, Short DEF Running
<1> QED BY <1>1, Invariance, PTL

\* A process that exits has undone the redirection (Service::stop), whatever was
\* under way when the signal came.
THEOREM ExitsClean == Spec => []CleanExit
<1>1. IInv => CleanExit
  BY DEF IInv, Signalled, CleanExit, Exited
<1> QED BY <1>1, Invariance, PTL

=============================================================================
