---------------------------- MODULE AccessProofs ----------------------------
(***************************************************************************)
(* Proofs about Access, for any clients, addresses and names, any number   *)
(* of TunMgr threads and any bounds of the channels.                       *)
(*                                                                         *)
(* IInv is inductive.  A client is redirected because the Forwarder works  *)
(* through an answer in order (HandlerSaved, AnswersSaved), whether the    *)
(* rules come before the answer or after it.  That no access is filed      *)
(* under a bare address needs to follow an address on every way that it    *)
(* can take from the answer to the channel of the Service (KnownNamed),    *)
(* across all threads, and to know that a thread that has ended, or whose  *)
(* task has panicked, holds nothing which a restarted Service would not    *)
(* know (EndedIdle).                                                       *)
(***************************************************************************)
EXTENDS Access, TLAPS

\* The steps that are done for an answer.
LEMMA OrderLemma ==
    /\ Len(Order) = 3
    /\ Order[1] = "ipset" /\ Order[2] = "record" /\ Order[3] = "reply"
  BY DEF Order

\* Which step the handler is at, and what it is at after it.
LEMMA StepDone ==
    ASSUME TypeOK, NEW step, Does(step)
    PROVE  /\ handler \in Handling /\ handler # Idle
           /\ step = "ipset" => handler.at = 1
           /\ step = "record" => handler.at = 2
           /\ step = "reply" => handler.at = 3
           /\ \A b \in BOOLEAN : [handler EXCEPT !.saved = b] \in Handling
<1>1. handler \in Handling /\ handler # Idle /\ Order[handler.at] = step
  BY DEF TypeOK, Does
<1>2. handler.at = 1 \/ handler.at = 2 \/ handler.at = 3
  BY <1>1 DEF Handling
<1>3. \A b \in BOOLEAN : [handler EXCEPT !.saved = b] \in Handling
  BY <1>1 DEF Handling
<1> QED BY <1>1, <1>2, <1>3, OrderLemma

LEMMA DoneLemma ==
    ASSUME NEW h \in Handling, Done(h)
    PROVE  /\ h.at = 3 => handler' = Idle
           /\ h.at < 3 => /\ handler' \in Handling /\ handler'.at = h.at + 1
                          /\ handler'.ips = h.ips /\ handler'.saved = h.saved
                          /\ handler'.name = h.name /\ handler'.client = h.client
<1>1. CASE h.at = 3
  BY <1>1, OrderLemma DEF Done
<1>2. CASE h.at # 3
  <2>1. handler' = [h EXCEPT !.at = h.at + 1] /\ h.at \in 1 .. 2
    BY <1>2, OrderLemma DEF Done, Handling
  <2> QED BY <2>1 DEF Handling
<1> QED BY <1>1, <1>2 DEF Handling

\* Every handler is idle or at a step.
LEMMA IdleAt == Idle.at = 0 /\ Idle \notin Handling
  BY DEF Idle, Handling

\* Nobody has an answer, and nothing is under way.
LEMMA InitIInv == Init => IInv
<1> SUFFICES ASSUME Init PROVE IInv
  OBVIOUS
<1>1. TypeOK
  <2>1. 1 \in TunMgr
    BY AccessAssumption DEF TunMgr
  <2>2. /\ running \in BOOLEAN /\ alive \subseteq Thread /\ serving \subseteq TunMgr
        /\ work_as_global \in BOOLEAN /\ rules \in BOOLEAN /\ tuncfg \in Cfg
    BY DEF Init
  <2>3. /\ ctl \in [TunMgr -> Seq(Command)] /\ ins \in Seq(Instruction)
        /\ access_log \in [TunMgr -> SUBSET Entry]
    BY DEF Init
  <2> QED BY <2>1, <2>2, <2>3 DEF Init, TypeOK
<1>2. EndedIdle /\ HandlerSaved
  BY DEF Init, EndedIdle, HandlerSaved, Thread
<1>3. AnswersSaved /\ KnownNamed /\ NamedByAnswer
  BY DEF Init, AnswersSaved, NamedByAnswer, KnownNamed, HandlerNamed, AnswersNamed,
         CtlNamed, LogNamed
<1> QED BY <1>1, <1>2, <1>3 DEF IInv

-----------------------------------------------------------------------------
(***************************************************************************)
(* Names in the channel of the Service.                                    *)
(***************************************************************************)

\* Sending takes no name away, adds those of the message, and puts a log behind
\* the names of all its addresses.
LEMMA Sent ==
    ASSUME TypeOK, NamedByAnswer, NEW m \in Instruction, Send(m), domains' = domains,
           m.type = "AccessLog" => \A e \in m.v : e[3] /\ running => Named(e[2])
    PROVE  /\ ins' \in Seq(Instruction)
           /\ running => /\ \A ip \in Ip : Named(ip) => Named(ip)'
                         /\ m.type = "DNSAdd" => \A ip \in m.ips : Named(ip)'
           /\ NamedByAnswer'
<1>1. ins \in Seq(Instruction) /\ Len(ins) \in Nat /\ DOMAIN ins = 1 .. Len(ins)
  BY DEF TypeOK
<1>2. CASE ~running
  <2>1. ins' = ins
    BY <1>2 DEF Send
  <2> QED BY <1>1, <1>2, <2>1 DEF NamedByAnswer
<1>3. CASE running
  <2>1. ins' = Append(ins, m)
    BY <1>3 DEF Send
  <2>2. /\ ins' \in Seq(Instruction) /\ DOMAIN ins' = 1 .. Len(ins) + 1
        /\ \A i \in 1 .. Len(ins) : ins'[i] = ins[i]
        /\ ins'[Len(ins) + 1] = m
    BY <1>1, <2>1
  <2> HIDE <2>1
  <2>3. \A ip \in Ip : Named(ip) => Named(ip)'
    BY <1>1, <2>2 DEF Named
  <2>4. m.type = "DNSAdd" => \A ip \in m.ips : Named(ip)'
    BY <1>1, <2>2 DEF Named
  <2>5. NamedByAnswer'
    <3> SUFFICES ASSUME NEW i \in DOMAIN ins', ins'[i].type = "AccessLog",
                        NEW e \in ins'[i].v, e[3]
                 PROVE  \/ domains[e[2]] # NoName
                        \/ \E j \in 1 .. i - 1 : ins'[j].type = "DNSAdd" /\ e[2] \in ins'[j].ips
      BY DEF NamedByAnswer
    <3>1. CASE i = Len(ins) + 1
      <4>1. Named(e[2])
        BY <1>3, <2>2, <3>1
      <4> QED BY <1>1, <2>2, <3>1, <4>1 DEF Named
    <3>2. CASE i \in 1 .. Len(ins)
      <4>1. \/ domains[e[2]] # NoName
            \/ \E j \in 1 .. i - 1 : ins[j].type = "DNSAdd" /\ e[2] \in ins[j].ips
        BY <1>1, <2>2, <3>2 DEF NamedByAnswer
      <4>2. \A j \in 1 .. i - 1 : ins'[j] = ins[j]
        BY <1>1, <2>2, <3>2
      <4> QED BY <4>1, <4>2
    <3> QED BY <1>1, <2>2, <3>1, <3>2
  <2> QED BY <2>2, <2>3, <2>4, <2>5
<1> QED BY <1>2, <1>3

\* The Service takes a message: a name that leaves the channel is in its table, and
\* what was behind the message stays behind the rest.
LEMMA Taken ==
    ASSUME TypeOK, NamedByAnswer, ins # << >>, ins' = Tail(ins),
           \A ip \in Ip : domains[ip] # NoName => domains'[ip] # NoName,
           ins[1].type = "DNSAdd" => \A ip \in ins[1].ips : domains'[ip] # NoName
    PROVE  /\ ins' \in Seq(Instruction)
           /\ \A ip \in Ip : Named(ip) => Named(ip)'
           /\ NamedByAnswer'
<1>1. ins \in Seq(Instruction) /\ Len(ins) \in Nat \ {0} /\ DOMAIN ins = 1 .. Len(ins)
  BY DEF TypeOK
<1>2. /\ ins' \in Seq(Instruction) /\ DOMAIN ins' = 1 .. Len(ins) - 1
      /\ \A i \in 1 .. Len(ins) - 1 : ins'[i] = ins[i + 1]
  BY <1>1
<1>3. \A i \in 2 .. Len(ins) : i - 1 \in DOMAIN ins' /\ ins'[i - 1] = ins[i]
  BY <1>1, <1>2
<1>4. \A ip \in Ip : Named(ip) => Named(ip)'
  <2>1. TAKE ip \in Ip
  <2>2. HAVE Named(ip)
  <2>3. CASE domains[ip] # NoName
    BY <2>3 DEF Named
  <2>4. ASSUME NEW j \in DOMAIN ins, ins[j].type = "DNSAdd", ip \in ins[j].ips
        PROVE  Named(ip)'
    <3>1. CASE j = 1
      BY <2>4, <3>1 DEF Named
    <3>2. CASE j # 1
      <4>1. j \in 2 .. Len(ins)
        BY <1>1, <3>2
      <4>2. j - 1 \in DOMAIN ins' /\ ins'[j - 1] = ins[j]
        BY <1>3, <4>1
      <4> QED BY <2>4, <4>2 DEF Named
    <3> QED BY <3>1, <3>2
  <2> QED BY <2>2, <2>3, <2>4 DEF Named
<1>5. NamedByAnswer'
  <2> SUFFICES ASSUME NEW i \in DOMAIN ins', ins'[i].type = "AccessLog",
                      NEW e \in ins'[i].v, e[3]
               PROVE  \/ domains'[e[2]] # NoName
                      \/ \E j \in 1 .. i - 1 : ins'[j].type = "DNSAdd" /\ e[2] \in ins'[j].ips
    BY DEF NamedByAnswer
  <2>1. i \in Nat /\ i + 1 \in DOMAIN ins /\ ins'[i] = ins[i + 1] /\ ins'[i] \in Instruction
    BY <1>1, <1>2
  <2>2. e \in Entry /\ e[2] \in Ip
    BY <2>1 DEF Instruction, Entry
  <2>3. \/ domains[e[2]] # NoName
        \/ \E j \in 1 .. i : ins[j].type = "DNSAdd" /\ e[2] \in ins[j].ips
    BY <2>1 DEF NamedByAnswer
  <2>4. ASSUME NEW j \in 1 .. i, ins[j].type = "DNSAdd", e[2] \in ins[j].ips
        PROVE  \/ domains'[e[2]] # NoName
               \/ \E k \in 1 .. i - 1 : ins'[k].type = "DNSAdd" /\ e[2] \in ins'[k].ips
    <3>1. CASE j = 1
      BY <2>4, <3>1
    <3>2. CASE j # 1
      <4>1. j - 1 \in 1 .. i - 1 /\ j \in 2 .. Len(ins)
        BY <1>1, <2>1, <3>2
      <4>2. ins'[j - 1] = ins[j]
        BY <1>3, <4>1
      <4> QED BY <2>4, <4>1, <4>2
    <3> QED BY <3>1, <3>2
  <2> QED BY <2>2, <2>3, <2>4
<1> QED BY <1>2, <1>4, <1>5

\* The types of what is under way.
LEMMA WayTypes ==
    ASSUME TypeOK, NEW t \in TunMgr
    PROVE  /\ \A k \in DOMAIN ctl[t] : ctl[t][k] \in Command /\ ctl[t][k].dst \in Ip
           /\ \A e \in access_log[t] : e \in Entry /\ e[2] \in Ip
<1>1. ctl[t] \in Seq(Command) /\ access_log[t] \subseteq Entry
  BY DEF TypeOK
<1>2. \A k \in DOMAIN ctl[t] : ctl[t][k] \in Command
  BY <1>1
<1> QED BY <1>1, <1>2 DEF Command, Entry

\* A step that takes no name away, on the ways that it does not touch.
LEMMA WaysNamed ==
    ASSUME TypeOK, KnownNamed, running, \A ip \in Ip : Named(ip) => Named(ip)'
    PROVE  /\ handler' = handler => HandlerNamed'
           /\ answers' = answers => AnswersNamed'
           /\ ctl' = ctl => CtlNamed'
           /\ access_log' = access_log => LogNamed'
<1>1. ASSUME handler' = handler PROVE HandlerNamed'
  <2>1. handler # Idle => handler.ips \subseteq Ip
    BY DEF TypeOK, Handling
  <2>2. \A ip \in handler.ips : handler # Idle => (Named(ip) => Named(ip)')
    BY <2>1
  <2>3. HandlerNamed
    BY DEF KnownNamed
  <2> QED BY <1>1, <2>2, <2>3 DEF HandlerNamed
<1>2. ASSUME answers' = answers PROVE AnswersNamed'
  <2>1. \A c \in Client : \A ip \in answers[c] : Named(ip) => Named(ip)'
    BY DEF TypeOK
  <2> QED BY <1>2, <2>1 DEF KnownNamed, AnswersNamed
<1>3. ASSUME ctl' = ctl PROVE CtlNamed'
  <2>1. \A t \in TunMgr : \A k \in DOMAIN ctl[t] :
          \A ip \in {ctl[t][k].dst} : Named(ip) => Named(ip)'
    BY WayTypes
  <2>2. \A t \in TunMgr : \A k \in DOMAIN ctl[t] :
          ctl[t][k].had => \A ip \in {ctl[t][k].dst} : Named(ip)'
    BY <2>1 DEF KnownNamed, CtlNamed
  <2> QED BY <1>3, <2>2 DEF CtlNamed
<1>4. ASSUME access_log' = access_log PROVE LogNamed'
  <2>1. \A t \in TunMgr : \A e \in access_log[t] : \A ip \in {e[2]} : Named(ip) => Named(ip)'
    BY WayTypes
  <2>2. \A t \in TunMgr : \A e \in access_log[t] : e[3] => \A ip \in {e[2]} : Named(ip)'
    BY <2>1 DEF KnownNamed, LogNamed
  <2> QED BY <1>4, <2>2 DEF LogNamed
<1> QED BY <1>1, <1>2, <1>3, <1>4

-----------------------------------------------------------------------------
(***************************************************************************)
(* The Forwarder.                                                          *)
(***************************************************************************)

\* An answer comes: nothing is done for it yet, or nothing will be.
LEMMA MsgStep ==
    ASSUME IInv, NEW c \in Client, NEW d \in Domain, NEW ips \in SUBSET Ip \ {{}},
           NEW parsed \in BOOLEAN, on_tunnel_msg(c, d, ips, parsed)
    PROVE  IInv'
<1> DEFINE h == [at |-> IF parsed THEN 1 ELSE Len(Order), client |-> c, name |-> d,
                 ips |-> ips, saved |-> parsed]
<1>1. /\ 0 \in alive /\ handler' = h
      /\ UNCHANGED << running, alive, serving, work_as_global, tuncfg, rules, ipset, answers,
                      tmindex, ctl, access_log, ins, domains, acc_domains, report >>
  BY DEF on_tunnel_msg, lifeVars, tmVars, logVars
<1>2. h \in Handling /\ ~(h.at > 1 /\ h.saved)
  BY OrderLemma DEF Handling
<1> HIDE DEF h
<1>3. TypeOK' /\ EndedIdle'
  BY <1>1, <1>2 DEF IInv, TypeOK, EndedIdle
<1>4. HandlerSaved' /\ AnswersSaved'
  BY <1>1, <1>2 DEF IInv, HandlerSaved, AnswersSaved
<1>5. NamedByAnswer'
  BY <1>1 DEF IInv, NamedByAnswer
<1>6. KnownNamed'
  <2>1. ~(h.at > 2 /\ h.saved)
    BY <1>2 DEF Handling
  <2>2. \A ip : Named(ip)' <=> Named(ip)
    BY <1>1 DEF Named
  <2> QED BY <1>1, <2>1, <2>2 DEF IInv, KnownNamed, HandlerNamed, AnswersNamed, CtlNamed, LogNamed
<1> QED BY <1>3, <1>4, <1>5, <1>6 DEF IInv

\* The addresses are in the ipset when the first step is done and they are saved.
LEMMA IpsetStep ==
    ASSUME IInv, NEW ok \in BOOLEAN, save_ipset(ok)
    PROVE  IInv'
<1>1. /\ handler \in Handling /\ handler # Idle /\ handler.at = 1
      /\ [handler EXCEPT !.saved = ok] \in Handling
  BY StepDone DEF IInv, save_ipset
<1>2. UNCHANGED << running, alive, serving, work_as_global, tuncfg, rules, answers, tmindex,
                   ctl, access_log, ins, domains, acc_domains, report >>
  BY DEF save_ipset, lifeVars, tmVars, logVars
<1>3. /\ ipset \subseteq ipset' /\ ipset' \subseteq Ip
      /\ handler' \in Handling /\ handler'.at = 2 /\ handler'.ips = handler.ips
      /\ ~work_as_global /\ handler'.saved => handler'.ips \ Special \subseteq ipset'
  <2>1. CASE work_as_global
    BY <1>1, <2>1, DoneLemma DEF save_ipset, IInv, TypeOK
  <2>2. CASE ~work_as_global
    <3> DEFINE h == [handler EXCEPT !.saved = ok]
    <3>1. Done(h) /\ ipset' = IF ok THEN ipset \cup (handler.ips \ Special) ELSE ipset
      BY <2>2 DEF save_ipset
    <3>2. h.at = 1 /\ h.ips = handler.ips /\ h.saved = ok /\ h.ips \subseteq Ip
      BY <1>1 DEF Handling
    <3>3. h \in Handling
      BY <1>1
    <3> HIDE DEF h
    <3>4. handler' \in Handling /\ handler'.at = 2 /\ handler'.ips = h.ips /\ handler'.saved = ok
      BY <3>1, <3>2, <3>3, DoneLemma
    <3> QED BY <3>1, <3>2, <3>4 DEF IInv, TypeOK
  <2> QED BY <2>1, <2>2
<1>4. TypeOK' /\ EndedIdle'
  <2>1. 0 \in alive
    BY <1>1 DEF IInv, EndedIdle
  <2> QED BY <1>2, <1>3, <2>1 DEF IInv, TypeOK, EndedIdle
<1>5. HandlerSaved' /\ AnswersSaved'
  BY <1>2, <1>3 DEF IInv, HandlerSaved, AnswersSaved
<1>6. NamedByAnswer'
  BY <1>2 DEF IInv, NamedByAnswer
<1>7. KnownNamed'
  <2>1. \A ip : Named(ip)' <=> Named(ip)
    BY <1>2 DEF Named
  <2> QED BY <1>2, <1>3, <2>1 DEF IInv, KnownNamed, HandlerNamed, AnswersNamed, CtlNamed, LogNamed
<1> QED BY <1>4, <1>5, <1>6, <1>7 DEF IInv

\* The Service has the names in its channel when the second step is done.
LEMMA RecordStep ==
    ASSUME IInv, save_domain_record
    PROVE  IInv'
<1> DEFINE m == [type |-> "DNSAdd", name |-> handler.name, ips |-> handler.ips]
<1>1. handler \in Handling /\ handler # Idle /\ handler.at = 2
  BY StepDone DEF IInv, save_domain_record
<1>2. /\ UNCHANGED << running, alive, serving, work_as_global, tuncfg, rules, ipset, answers,
                      tmindex, ctl, access_log, domains, acc_domains, report >>
      /\ Send(m) /\ Done(handler)
  BY DEF save_domain_record, lifeVars, tmVars, logVars
<1>3. /\ m \in Instruction /\ m.type = "DNSAdd" /\ m.ips = handler.ips
  BY <1>1 DEF Handling, Instruction
<1> HIDE DEF m
<1>4. /\ handler' \in Handling /\ handler'.at = 3
      /\ handler'.ips = handler.ips /\ handler'.saved = handler.saved
  BY <1>1, <1>2, DoneLemma
<1>5. /\ ins' \in Seq(Instruction)
      /\ running => /\ \A ip \in Ip : Named(ip) => Named(ip)'
                    /\ \A ip \in handler.ips : Named(ip)'
      /\ NamedByAnswer'
  BY <1>2, <1>3, Sent DEF IInv
<1>6. TypeOK' /\ EndedIdle'
  <2>1. 0 \in alive
    BY <1>1 DEF IInv, EndedIdle
  <2> QED BY <1>2, <1>4, <1>5, <2>1 DEF IInv, TypeOK, EndedIdle
<1>7. HandlerSaved' /\ AnswersSaved'
  BY <1>1, <1>2, <1>4 DEF IInv, HandlerSaved, AnswersSaved
<1>8. KnownNamed'
  <2> SUFFICES ASSUME running' PROVE KnownNamed'
    BY DEF KnownNamed
  <2>1. /\ running /\ TypeOK /\ KnownNamed
        /\ \A ip \in Ip : Named(ip) => Named(ip)'
        /\ UNCHANGED << answers, ctl, access_log >>
    BY <1>2, <1>5 DEF IInv
  <2>2. AnswersNamed' /\ CtlNamed' /\ LogNamed'
    BY <2>1, WaysNamed
  <2>3. HandlerNamed'
    BY <1>2, <1>4, <1>5 DEF HandlerNamed
  <2> QED BY <2>2, <2>3 DEF KnownNamed
<1> QED BY <1>5, <1>6, <1>7, <1>8 DEF IInv

\* Only then the client has the answer.
LEMMA ReplyStep ==
    ASSUME IInv, reply
    PROVE  IInv'
<1>1. handler \in Handling /\ handler # Idle /\ handler.at = 3
  BY StepDone DEF IInv, reply
<1>2. /\ UNCHANGED << running, alive, serving, work_as_global, tuncfg, rules, ipset, tmindex,
                      ctl, access_log, ins, domains, acc_domains, report >>
      /\ Done(handler)
      /\ answers' = IF handler.saved
                      THEN [answers EXCEPT ![handler.client] = @ \cup handler.ips]
                      ELSE answers
  BY DEF reply, lifeVars, tmVars, logVars
<1>3. handler' = Idle
  BY <1>1, <1>2, DoneLemma
<1>4. /\ answers' \in [Client -> SUBSET Ip]
      /\ \A c \in Client : \A ip \in answers'[c] :
           ip \in answers[c] \/ (handler.saved /\ ip \in handler.ips)
  <2>1. answers \in [Client -> SUBSET Ip] /\ handler.client \in Client /\ handler.ips \subseteq Ip
    BY <1>1 DEF IInv, TypeOK, Handling
  <2> QED BY <1>2, <2>1
<1>5. TypeOK' /\ EndedIdle'
  BY <1>2, <1>3, <1>4 DEF IInv, TypeOK, EndedIdle
<1>6. HandlerSaved' /\ AnswersSaved'
  <2>1. HandlerSaved'
    BY <1>3 DEF HandlerSaved
  <2>2. ~work_as_global /\ handler.saved => handler.ips \ Special \subseteq ipset
    BY <1>1 DEF IInv, HandlerSaved
  <2> QED BY <1>2, <1>4, <2>1, <2>2 DEF IInv, AnswersSaved
<1>7. NamedByAnswer'
  BY <1>2 DEF IInv, NamedByAnswer
<1>8. KnownNamed'
  <2> SUFFICES ASSUME running' PROVE KnownNamed'
    BY DEF KnownNamed
  <2>1. \A ip : Named(ip)' <=> Named(ip)
    BY <1>2 DEF Named
  <2>2. \A ip \in handler.ips : handler.saved => Named(ip)
    BY <1>1, <1>2 DEF IInv, KnownNamed, HandlerNamed
  <2>3. \A c \in Client : \A ip \in answers'[c] : Named(ip)'
    BY <1>2, <1>4, <2>1, <2>2 DEF IInv, KnownNamed, AnswersNamed
  <2> QED BY <1>2, <1>3, <2>1, <2>3
          DEF IInv, KnownNamed, HandlerNamed, AnswersNamed, CtlNamed, LogNamed
<1> QED BY <1>5, <1>6, <1>7, <1>8 DEF IInv

\* The list of domains of the cloud only adds to the ipset.
LEMMA DomapStep ==
    ASSUME IInv, NEW ips \in SUBSET Ip4, new_domap(ips)
    PROVE  IInv'
<1>1. /\ UNCHANGED << running, alive, serving, work_as_global, tuncfg, rules, handler,
                      answers, tmindex, ctl, access_log, ins, domains, acc_domains, report >>
      /\ ipset' = ipset \cup ips
  BY DEF new_domap, lifeVars, tmVars, logVars
<1>2. TypeOK' /\ EndedIdle'
  BY <1>1, AccessAssumption DEF IInv, TypeOK, EndedIdle
<1>3. HandlerSaved' /\ AnswersSaved'
  BY <1>1 DEF IInv, HandlerSaved, AnswersSaved
<1>4. NamedByAnswer'
  BY <1>1 DEF IInv, NamedByAnswer
<1>5. KnownNamed'
  BY <1>1 DEF IInv, KnownNamed, HandlerNamed, AnswersNamed, CtlNamed, LogNamed, Named
<1> QED BY <1>2, <1>3, <1>4, <1>5 DEF IInv

-----------------------------------------------------------------------------
(***************************************************************************)
(* Clients and TunMgr threads.                                             *)
(***************************************************************************)

\* A connection or a packet of a client that has an answer, or has none.
LEMMA AccessStep ==
    ASSUME IInv, NEW c \in Client, NEW ip \in Ip, NEW t \in TunMgr, NEW cmd \in Command,
           cmd.dst = ip, cmd.had = (ip \in answers[c]), SendTo(t, cmd),
           tmindex' \in TunMgr,
           UNCHANGED << lifeVars, netVars, access_log, ins, logVars >>
    PROVE  IInv'
<1>1. UNCHANGED << running, alive, serving, work_as_global, tuncfg, rules, ipset, handler,
                   answers, access_log, ins, domains, acc_domains, report >>
  BY DEF lifeVars, netVars, logVars
<1>2. TypeOK /\ ctl \in [TunMgr -> Seq(Command)]
  BY DEF IInv, TypeOK
<1>3. /\ ctl' \in [TunMgr -> Seq(Command)]
      /\ \A u \in TunMgr \ serving : ctl'[u] = ctl[u]
      /\ \A u \in TunMgr : \A k \in DOMAIN ctl'[u] :
           \/ ctl'[u][k] = cmd
           \/ k \in DOMAIN ctl[u] /\ ctl'[u][k] = ctl[u][k]
  <2>1. CASE t \in serving
    <3>1. ctl' = [ctl EXCEPT ![t] = Append(ctl[t], cmd)]
      BY <2>1 DEF SendTo
    <3>2. ctl[t] \in Seq(Command)
      BY <1>2
    <3> DEFINE q == Append(ctl[t], cmd)
    <3>3. /\ q \in Seq(Command) /\ DOMAIN q = 1 .. Len(ctl[t]) + 1
          /\ Len(ctl[t]) \in Nat /\ DOMAIN ctl[t] = 1 .. Len(ctl[t])
          /\ \A k \in DOMAIN ctl[t] : q[k] = ctl[t][k]
          /\ q[Len(ctl[t]) + 1] = cmd
      BY <3>2
    <3> HIDE DEF q
    <3>4. \A k \in DOMAIN q : q[k] = cmd \/ (k \in DOMAIN ctl[t] /\ q[k] = ctl[t][k])
      BY <3>3
    <3>5. ctl' = [ctl EXCEPT ![t] = q]
      BY <3>1 DEF q
    <3> QED BY <1>2, <2>1, <3>3, <3>4, <3>5
  <2>2. CASE t \notin serving
    <3>1. ctl' = ctl
      BY <2>2 DEF SendTo
    <3> QED BY <1>2, <3>1
  <2> QED BY <2>1, <2>2
<1>4. TypeOK' /\ EndedIdle'
  BY <1>1, <1>3 DEF IInv, TypeOK, EndedIdle
<1>5. HandlerSaved' /\ AnswersSaved' /\ NamedByAnswer'
  BY <1>1 DEF IInv, HandlerSaved, AnswersSaved, NamedByAnswer
<1>6. KnownNamed'
  <2> SUFFICES ASSUME running PROVE (HandlerNamed /\ AnswersNamed /\ CtlNamed /\ LogNamed)'
    BY <1>1 DEF KnownNamed
  <2>1. \A x : Named(x)' <=> Named(x)
    BY <1>1 DEF Named
  <2>2. KnownNamed /\ running
    BY DEF IInv
  <2>3. HandlerNamed' /\ AnswersNamed' /\ LogNamed'
    BY <1>1, <1>2, <2>1, <2>2, WaysNamed
  <2>4. cmd.had => Named(cmd.dst)
    BY <2>2 DEF KnownNamed, AnswersNamed
  <2>5. CtlNamed'
    BY <1>3, <2>1, <2>2, <2>4 DEF KnownNamed, CtlNamed
  <2> QED BY <2>3, <2>5
<1> QED BY <1>4, <1>5, <1>6 DEF IInv

LEMMA ConnectStep ==
    ASSUME IInv, NEW c \in Client, NEW ip \in Ip,
           on_accept_tcpstream(c, ip) \/ \E t \in TunMgr : on_udp_msg_forward(c, ip, t)
    PROVE  IInv'
<1>1. tmindex \in TunMgr /\ (ip \in answers[c]) \in BOOLEAN
  BY DEF IInv, TypeOK
<1>2. CASE on_accept_tcpstream(c, ip)
  <2> DEFINE cmd == [type |-> "TcpTunnel", src |-> c, dst |-> ip, had |-> ip \in answers[c]]
  <2>1. cmd \in Command /\ cmd.dst = ip /\ cmd.had = (ip \in answers[c])
    BY <1>1 DEF Command
  <2>2. (tmindex % NTunMgr) + 1 \in TunMgr
    BY <1>1, AccessAssumption DEF TunMgr
  <2>3. /\ SendTo(tmindex, cmd) /\ tmindex' = (tmindex % NTunMgr) + 1
        /\ UNCHANGED << lifeVars, netVars, access_log, ins, logVars >>
    BY <1>2 DEF on_accept_tcpstream
  <2> HIDE DEF cmd
  <2> QED BY <1>1, <2>1, <2>2, <2>3, AccessStep
<1>3. ASSUME NEW t \in TunMgr, on_udp_msg_forward(c, ip, t)
      PROVE  IInv'
  <2> DEFINE cmd == [type |-> "UdpProxy", src |-> c, dst |-> ip, had |-> ip \in answers[c]]
  <2>1. cmd \in Command /\ cmd.dst = ip /\ cmd.had = (ip \in answers[c])
    BY <1>1 DEF Command
  <2>2. /\ SendTo(t, cmd) /\ tmindex' = tmindex
        /\ UNCHANGED << lifeVars, netVars, access_log, ins, logVars >>
    BY <1>3 DEF on_udp_msg_forward
  <2> HIDE DEF cmd
  <2> QED BY <1>1, <2>1, <2>2, AccessStep
<1> QED BY <1>2, <1>3

\* A TunMgr thread logs an access; the entry of a pair is that of an answer if
\* one of its accesses was.
LEMMA ServeStep ==
    ASSUME IInv, NEW t \in TunMgr, NEW logged \in BOOLEAN, Serve(t, logged)
    PROVE  IInv'
<1> DEFINE cmd == Head(ctl[t])
<1>1. /\ t \in serving /\ ctl[t] # << >>
      /\ ctl' = [ctl EXCEPT ![t] = Tail(ctl[t])]
      /\ access_log' = IF logged THEN [access_log EXCEPT ![t] = log_access(access_log[t], cmd)]
                                 ELSE access_log
      /\ UNCHANGED << running, alive, serving, work_as_global, tuncfg, rules, ipset, handler,
                      answers, tmindex, ins, domains, acc_domains, report >>
  BY DEF Serve, lifeVars, netVars, logVars
<1>2. /\ TypeOK /\ ctl \in [TunMgr -> Seq(Command)] /\ access_log \in [TunMgr -> SUBSET Entry]
      /\ ctl[t] \in Seq(Command)
  BY DEF IInv, TypeOK
<1>3. /\ 1 \in DOMAIN ctl[t] /\ cmd = ctl[t][1] /\ cmd \in Command
      /\ Tail(ctl[t]) \in Seq(Command)
      /\ \A k \in DOMAIN Tail(ctl[t]) :
           k + 1 \in DOMAIN ctl[t] /\ Tail(ctl[t])[k] = ctl[t][k + 1]
  BY <1>1, <1>2
<1> HIDE DEF cmd
<1>4. /\ log_access(access_log[t], cmd) \in SUBSET Entry
      /\ \A e \in log_access(access_log[t], cmd) :
           \/ e \in access_log[t]
           \/ e[3] => \/ cmd.had /\ e[2] = cmd.dst
                      \/ \E x \in access_log[t] : x[3] /\ x[2] = e[2]
  <2> DEFINE had == cmd.had \/ << cmd.src, cmd.dst, TRUE >> \in access_log[t]
             n == << cmd.src, cmd.dst, had >>
  <2>1. \A e \in log_access(access_log[t], cmd) : e \in access_log[t] \/ e = n
    BY DEF log_access
  <2>2. n \in Entry /\ n[2] = cmd.dst /\ (n[3] <=> had)
    BY <1>3 DEF Entry, Command
  <2>3. access_log[t] \subseteq Entry
    BY <1>2
  <2>4. had => cmd.had \/ \E x \in access_log[t] : x[3] /\ x[2] = cmd.dst
    <3>1. ASSUME << cmd.src, cmd.dst, TRUE >> \in access_log[t]
          PROVE  \E x \in access_log[t] : x[3] /\ x[2] = cmd.dst
      <4> WITNESS << cmd.src, cmd.dst, TRUE >> \in access_log[t]
      <4> QED OBVIOUS
    <3> QED BY <3>1
  <2> HIDE DEF n, had
  <2> QED BY <2>1, <2>2, <2>3, <2>4
<1>5. access_log' \in [TunMgr -> SUBSET Entry] /\ ctl' \in [TunMgr -> Seq(Command)]
  <2>1. CASE logged
    BY <1>1, <1>2, <1>3, <1>4, <2>1
  <2>2. CASE ~logged
    BY <1>1, <1>2, <1>3, <2>2
  <2> QED BY <2>1, <2>2
<1>6. \A u \in TunMgr \ serving : ctl'[u] = ctl[u] /\ access_log'[u] = access_log[u]
  BY <1>1, <1>2
<1>7. TypeOK' /\ EndedIdle'
  BY <1>1, <1>5, <1>6 DEF IInv, TypeOK, EndedIdle
<1>8. HandlerSaved' /\ AnswersSaved' /\ NamedByAnswer'
  BY <1>1 DEF IInv, HandlerSaved, AnswersSaved, NamedByAnswer
<1>9. KnownNamed'
  <2> SUFFICES ASSUME running PROVE (HandlerNamed /\ AnswersNamed /\ CtlNamed /\ LogNamed)'
    BY <1>1 DEF KnownNamed
  <2>1. \A x : Named(x)' <=> Named(x)
    BY <1>1 DEF Named
  <2>2. KnownNamed /\ running
    BY DEF IInv
  <2>3. HandlerNamed' /\ AnswersNamed'
    BY <1>1, <1>2, <2>1, <2>2, WaysNamed
  <2>4. CtlNamed /\ LogNamed
    BY <2>2 DEF KnownNamed
  <2>5. cmd.had => Named(cmd.dst)
    BY <1>3, <2>4 DEF CtlNamed
  <2>6. CtlNamed'
    <3> SUFFICES ASSUME NEW u \in TunMgr, NEW k \in DOMAIN ctl'[u], ctl'[u][k].had
                 PROVE  \A x \in {ctl'[u][k].dst} : Named(x)
      BY <2>1 DEF CtlNamed
    <3>1. CASE u = t
      <4>1. ctl'[u] = Tail(ctl[t])
        BY <1>1, <1>2, <3>1
      <4>2. k + 1 \in DOMAIN ctl[t] /\ ctl'[u][k] = ctl[t][k + 1]
        BY <1>3, <4>1
      <4> QED BY <2>4, <4>2 DEF CtlNamed
    <3>2. CASE u # t
      <4>1. ctl'[u] = ctl[u]
        BY <1>1, <1>2, <3>2
      <4> QED BY <2>4, <4>1 DEF CtlNamed
    <3> QED BY <3>1, <3>2
  <2>7. LogNamed'
    <3> SUFFICES ASSUME NEW u \in TunMgr, NEW e \in access_log'[u], e[3]
                 PROVE  Named(e[2])
      BY <2>1 DEF LogNamed
    <3>1. CASE e \in access_log[u]
      BY <2>4, <3>1 DEF LogNamed
    <3>2. CASE e \notin access_log[u]
      <4>1. u = t /\ e \in log_access(access_log[t], cmd)
        BY <1>1, <1>2, <3>2
      <4>2. \/ cmd.had /\ e[2] = cmd.dst
            \/ \E x \in access_log[t] : x[3] /\ x[2] = e[2]
        BY <1>4, <3>2, <4>1
      <4>3. \A x \in access_log[t] : x[3] => Named(x[2])
        BY <2>4 DEF LogNamed
      <4> QED BY <2>5, <4>2, <4>3
    <3> QED BY <3>1, <3>2
  <2> QED BY <2>3, <2>6, <2>7
<1> QED BY <1>7, <1>8, <1>9 DEF IInv

\* The commands in a channel that nobody reads any more are lost.
LEMMA PanicStep ==
    ASSUME IInv, NEW t \in TunMgr, serve_sock_panics(t)
    PROVE  IInv'
<1>1. /\ serving' = serving \ {t} /\ ctl' = [ctl EXCEPT ![t] = << >>]
      /\ UNCHANGED << running, alive, work_as_global, tuncfg, rules, ipset, handler, answers,
                      tmindex, access_log, ins, domains, acc_domains, report >>
  BY DEF serve_sock_panics, netVars, logVars
<1>2. TypeOK /\ ctl \in [TunMgr -> Seq(Command)]
  BY DEF IInv, TypeOK
<1>3. \A u \in TunMgr : ctl'[u] = << >> \/ (u # t /\ ctl'[u] = ctl[u])
  BY <1>1, <1>2
<1>4. TypeOK'
  <2>1. ctl' \in [TunMgr -> Seq(Command)]
    <3>1. << >> \in Seq(Command)
      OBVIOUS
    <3> QED BY <1>1, <1>2, <3>1
  <2> QED BY <1>1, <2>1 DEF IInv, TypeOK
<1>5. EndedIdle'
  <2>1. \A u \in TunMgr \ serving' : ctl'[u] = << >>
    BY <1>1, <1>3 DEF IInv, EndedIdle
  <2> QED BY <1>1, <2>1 DEF IInv, EndedIdle
<1>6. HandlerSaved' /\ AnswersSaved' /\ NamedByAnswer'
  BY <1>1 DEF IInv, HandlerSaved, AnswersSaved, NamedByAnswer
<1>7. KnownNamed'
  <2> SUFFICES ASSUME running PROVE (HandlerNamed /\ AnswersNamed /\ CtlNamed /\ LogNamed)'
    BY <1>1 DEF KnownNamed
  <2>1. \A x : Named(x)' <=> Named(x)
    BY <1>1 DEF Named
  <2>2. KnownNamed /\ running
    BY DEF IInv
  <2>3. HandlerNamed' /\ AnswersNamed' /\ LogNamed'
    BY <1>1, <1>2, <2>1, <2>2, WaysNamed
  <2>4. CtlNamed'
    <3> SUFFICES ASSUME NEW u \in TunMgr, NEW k \in DOMAIN ctl'[u], ctl'[u][k].had
                 PROVE  \A x \in {ctl'[u][k].dst} : Named(x)
      BY <2>1 DEF CtlNamed
    <3>1. ctl'[u] = ctl[u]
      BY <1>3
    <3> QED BY <2>2, <3>1 DEF KnownNamed, CtlNamed
  <2> QED BY <2>3, <2>4
<1> QED BY <1>4, <1>5, <1>6, <1>7 DEF IInv

\* A log is sent with all its entries.
LEMMA ReportStep ==
    ASSUME IInv, NEW t \in TunMgr, report_access_log(t)
    PROVE  IInv'
<1> DEFINE m == [type |-> "AccessLog", v |-> access_log[t]]
<1>1. /\ t \in alive /\ Send(m)
      /\ access_log' = [access_log EXCEPT ![t] = {}]
      /\ UNCHANGED << running, alive, serving, work_as_global, tuncfg, rules, ipset, handler,
                      answers, tmindex, ctl, domains, acc_domains, report >>
  BY DEF report_access_log, lifeVars, netVars, logVars
<1>2. TypeOK /\ NamedByAnswer /\ access_log \in [TunMgr -> SUBSET Entry]
  BY DEF IInv, TypeOK
<1>3. m \in Instruction /\ m.type # "DNSAdd"
      /\ \A e \in m.v : e[3] /\ running => Named(e[2])
  BY <1>2 DEF Instruction, IInv, KnownNamed, LogNamed
<1> HIDE DEF m
<1>4. /\ ins' \in Seq(Instruction) /\ NamedByAnswer'
      /\ running => \A ip \in Ip : Named(ip) => Named(ip)'
  BY <1>1, <1>2, <1>3, Sent
<1>5. \A u \in TunMgr : access_log'[u] \subseteq access_log[u] /\ access_log'[u] \subseteq Entry
  BY <1>1, <1>2
<1>6. TypeOK' /\ EndedIdle'
  BY <1>1, <1>2, <1>4, <1>5 DEF IInv, TypeOK, EndedIdle
<1>7. HandlerSaved' /\ AnswersSaved'
  BY <1>1 DEF IInv, HandlerSaved, AnswersSaved
<1>8. KnownNamed'
  <2> SUFFICES ASSUME running PROVE (HandlerNamed /\ AnswersNamed /\ CtlNamed /\ LogNamed)'
    BY <1>1 DEF KnownNamed
  <2>1. KnownNamed /\ \A ip \in Ip : Named(ip) => Named(ip)'
    BY <1>4 DEF IInv
  <2>2. HandlerNamed' /\ AnswersNamed' /\ CtlNamed'
    BY <1>1, <1>2, <2>1, WaysNamed
  <2>3. LogNamed'
    <3> SUFFICES ASSUME NEW u \in TunMgr, NEW e \in access_log'[u], e[3]
                 PROVE  \A x \in {e[2]} : Named(x)'
      BY DEF LogNamed
    <3>1. e \in access_log[u] /\ e[2] \in Ip
      BY <1>5 DEF Entry
    <3>2. Named(e[2])
      BY <2>1, <3>1 DEF KnownNamed, LogNamed
    <3>3. \A x \in {e[2]} : Named(x) /\ x \in Ip
      BY <3>1, <3>2
    <3> QED BY <2>1, <3>3
  <2> QED BY <2>2, <2>3
<1> QED BY <1>4, <1>6, <1>7, <1>8 DEF IInv

-----------------------------------------------------------------------------
(***************************************************************************)
(* The Service, and the life of the threads.                               *)
(***************************************************************************)

\* The Service takes a message: a name, or a log.
LEMMA TakeStep ==
    ASSUME IInv, do_dns_add \/ do_access_log
    PROVE  IInv'
<1>1. /\ running /\ ins # << >> /\ ins' = Tail(ins)
      /\ UNCHANGED << running, alive, serving, work_as_global, tuncfg, rules, ipset, handler,
                      answers, tmindex, ctl, access_log, report >>
  BY DEF do_dns_add, do_access_log, Reads, lifeVars, netVars, tmVars
<1>2. TypeOK /\ NamedByAnswer
  BY DEF IInv
<1>3. Head(ins) = ins[1] /\ ins[1] \in Instruction
  BY <1>1, <1>2 DEF TypeOK
<1>4. /\ domains' \in [Ip -> Domain \cup {NoName}]
      /\ acc_domains' \subseteq (Domain \cup Ip) \X Client
      /\ \A ip \in Ip : domains[ip] # NoName => domains'[ip] # NoName
      /\ ins[1].type = "DNSAdd" => \A ip \in ins[1].ips : domains'[ip] # NoName
  <2>1. CASE do_dns_add
    <3>1. /\ ins[1].type = "DNSAdd" /\ acc_domains' = acc_domains
          /\ domains' = [ip \in Ip |-> IF ip \in ins[1].ips THEN ins[1].name ELSE domains[ip]]
      BY <1>3, <2>1 DEF do_dns_add, Reads
    <3>2. ins[1].name \in Domain /\ ins[1].ips \subseteq Ip
      BY <1>3, <3>1 DEF Instruction
    <3>3. ins[1].name # NoName
      BY <3>2, AccessAssumption
    <3> QED BY <1>2, <3>1, <3>2, <3>3 DEF TypeOK
  <2>2. CASE do_access_log
    <3>1. /\ ins[1].type = "AccessLog" /\ domains' = domains
          /\ acc_domains' = acc_domains \cup {<< NameOf(e[2]), e[1] >> : e \in ins[1].v}
      BY <1>3, <2>2 DEF do_access_log, Reads
    <3>2. ins[1].v \subseteq Entry
      BY <1>3, <3>1 DEF Instruction
    <3>3. \A e \in Entry : NameOf(e[2]) \in Domain \cup Ip /\ e[1] \in Client
      BY <1>2 DEF TypeOK, Entry, NameOf
    <3>4. {<< NameOf(e[2]), e[1] >> : e \in ins[1].v} \subseteq (Domain \cup Ip) \X Client
      BY <3>2, <3>3
    <3> QED BY <1>2, <3>1, <3>4 DEF TypeOK
  <2> QED BY <2>1, <2>2
<1>5. /\ ins' \in Seq(Instruction) /\ NamedByAnswer'
      /\ \A ip \in Ip : Named(ip) => Named(ip)'
  BY <1>1, <1>2, <1>4, Taken
<1>6. TypeOK' /\ EndedIdle'
  BY <1>1, <1>2, <1>4, <1>5 DEF IInv, TypeOK, EndedIdle
<1>7. HandlerSaved' /\ AnswersSaved'
  BY <1>1 DEF IInv, HandlerSaved, AnswersSaved
<1>8. KnownNamed'
  <2>1. (HandlerNamed /\ AnswersNamed /\ CtlNamed /\ LogNamed)'
    BY <1>1, <1>2, <1>5, WaysNamed DEF IInv
  <2> QED BY <2>1 DEF KnownNamed
<1> QED BY <1>5, <1>6, <1>7, <1>8 DEF IInv

\* Reports only touch acc_domains.
LEMMA AccLogStep ==
    ASSUME IInv, do_cfg_monitor \/ ReportEnds
    PROVE  IInv'
<1>1. UNCHANGED << running, alive, serving, work_as_global, tuncfg, rules, ipset, handler,
                   answers, tmindex, ctl, access_log, ins, domains >>
  BY DEF do_cfg_monitor, ReportEnds, lifeVars, netVars, tmVars
<1>2. /\ acc_domains' \subseteq (Domain \cup Ip) \X Client
      /\ report' \subseteq (Domain \cup Ip) \X SUBSET Client4
  <2>1. acc_domains \subseteq (Domain \cup Ip) \X Client
    BY DEF IInv, TypeOK
  <2>2. \A e \in acc_domains :
          << e[1], {c \in Client4 : << e[1], c >> \in acc_domains} >>
            \in (Domain \cup Ip) \X SUBSET Client4
    <3>1. TAKE e \in acc_domains
    <3>2. e[1] \in Domain \cup Ip
      BY <2>1
    <3>3. {c \in Client4 : << e[1], c >> \in acc_domains} \in SUBSET Client4
      OBVIOUS
    <3> QED BY <3>2, <3>3
  <2>3. dump_to_pb \subseteq (Domain \cup Ip) \X SUBSET Client4
    BY <2>2 DEF dump_to_pb
  <2>4. report' = {} \/ report' = dump_to_pb \/ report' = report
    BY DEF do_cfg_monitor, do_access_report, ReportEnds
  <2>5. acc_domains' = {} \/ acc_domains' = acc_domains
    BY DEF do_cfg_monitor, do_access_report, ReportEnds
  <2>6. report \subseteq (Domain \cup Ip) \X SUBSET Client4
    BY DEF IInv, TypeOK
  <2> QED BY <2>1, <2>3, <2>4, <2>5, <2>6
<1>3. TypeOK' /\ EndedIdle'
  BY <1>1, <1>2 DEF IInv, TypeOK, EndedIdle
<1>4. HandlerSaved' /\ AnswersSaved' /\ NamedByAnswer'
  BY <1>1 DEF IInv, HandlerSaved, AnswersSaved, NamedByAnswer
<1>5. KnownNamed'
  BY <1>1 DEF IInv, KnownNamed, HandlerNamed, AnswersNamed, CtlNamed, LogNamed, Named
<1> QED BY <1>3, <1>4, <1>5 DEF IInv

\* Neither the rules nor a new configuration change what the threads have.
LEMMA ConfigStep ==
    ASSUME IInv, config_sys \/ \E cfg \in Cfg : save_cfg(cfg)
    PROVE  IInv'
<1>1. UNCHANGED << running, alive, serving, work_as_global, ipset, handler, answers, tmindex,
                   ctl, access_log, ins, domains, acc_domains, report >>
  BY DEF config_sys, save_cfg, netVars, tmVars, logVars
<1>2. rules' \in BOOLEAN /\ tuncfg' \in Cfg
  BY DEF config_sys, save_cfg, IInv, TypeOK
<1>3. TypeOK' /\ EndedIdle'
  BY <1>1, <1>2 DEF IInv, TypeOK, EndedIdle
<1>4. HandlerSaved' /\ AnswersSaved' /\ NamedByAnswer'
  BY <1>1 DEF IInv, HandlerSaved, AnswersSaved, NamedByAnswer
<1>5. KnownNamed'
  BY <1>1 DEF IInv, KnownNamed, HandlerNamed, AnswersNamed, CtlNamed, LogNamed, Named
<1> QED BY <1>3, <1>4, <1>5 DEF IInv

\* The Service does not read its channel any more.
LEMMA StopStep ==
    ASSUME IInv, stop
    PROVE  IInv'
<1>1. /\ running' = FALSE /\ ins' = << >>
      /\ UNCHANGED << alive, serving, work_as_global, tuncfg, rules, ipset, handler, answers,
                      tmindex, ctl, access_log, domains, acc_domains, report >>
  BY DEF stop, netVars, tmVars, logVars
<1>2. TypeOK'
  <2>1. ins' \in Seq(Instruction)
    BY <1>1
  <2> QED BY <1>1, <2>1 DEF IInv, TypeOK
<1>3. HandlerSaved' /\ AnswersSaved' /\ NamedByAnswer'
  BY <1>1 DEF IInv, HandlerSaved, AnswersSaved, NamedByAnswer
<1>4. EndedIdle'
  BY <1>1 DEF IInv, EndedIdle
<1> QED BY <1>1, <1>2, <1>3, <1>4 DEF IInv, KnownNamed

\* A thread ends with nothing left to do, and its log is lost.
LEMMA EndStep ==
    ASSUME IInv, NEW t \in Thread, ThreadStops(t)
    PROVE  IInv'
<1>1. /\ ~running /\ alive' = alive \ {t} /\ serving' = serving \ {t}
      /\ t # 0 => ctl[t] = << >>
      /\ t = 0 => handler = Idle
      /\ access_log' = [u \in TunMgr |-> IF u = t THEN {} ELSE access_log[u]]
      /\ UNCHANGED << running, work_as_global, tuncfg, rules, ipset, handler, answers,
                      tmindex, ctl, ins, domains, acc_domains, report >>
  BY DEF ThreadStops, netVars, logVars
<1>2. TypeOK'
  BY <1>1 DEF IInv, TypeOK
<1>3. EndedIdle'
  <2>1. 0 \notin alive' => handler' = Idle
    BY <1>1 DEF IInv, EndedIdle
  <2>2. 0 \notin TunMgr
    BY DEF TunMgr
  <2>3. \A u \in TunMgr \ serving' : ctl'[u] = << >>
    <3>1. TAKE u \in TunMgr \ serving'
    <3>2. CASE u = t
      BY <1>1, <2>2, <3>2
    <3>3. CASE u # t
      BY <1>1, <3>3 DEF IInv, EndedIdle
    <3> QED BY <3>2, <3>3
  <2>4. \A u \in TunMgr \ alive' : access_log'[u] = {}
    BY <1>1 DEF IInv, EndedIdle
  <2>5. serving' \subseteq alive'
    BY <1>1 DEF IInv, EndedIdle
  <2> QED BY <2>1, <2>3, <2>4, <2>5 DEF EndedIdle
<1>4. HandlerSaved' /\ AnswersSaved' /\ NamedByAnswer'
  BY <1>1 DEF IInv, HandlerSaved, AnswersSaved, NamedByAnswer
<1> QED BY <1>1, <1>2, <1>3, <1>4 DEF IInv, KnownNamed

\* A restarted Service finds every thread idle and every client without answers.
LEMMA RestartStep ==
    ASSUME IInv, NEW global \in BOOLEAN, NEW cfg \in Cfg, Restarts(global, cfg)
    PROVE  IInv'
<1>1. /\ alive = {} /\ running' = TRUE /\ alive' = Thread /\ serving' = TunMgr
      /\ work_as_global' = global /\ tuncfg' = cfg /\ rules' = FALSE
      /\ ipset' = {} /\ answers' = [c \in Client |-> {}] /\ tmindex' = 1
      /\ UNCHANGED << handler, ctl, access_log, ins, domains, acc_domains, report >>
  BY DEF Restarts, logVars
<1>2. handler = Idle /\ \A t \in TunMgr : ctl[t] = << >> /\ access_log[t] = {}
  BY <1>1 DEF IInv, EndedIdle
<1>3. TypeOK'
  <2>1. 1 \in TunMgr
    BY AccessAssumption DEF TunMgr
  <2> QED BY <1>1, <2>1 DEF IInv, TypeOK
<1>4. EndedIdle' /\ HandlerSaved' /\ AnswersSaved'
  BY <1>1, <1>2 DEF EndedIdle, HandlerSaved, AnswersSaved, Thread
<1>5. NamedByAnswer'
  BY <1>1 DEF IInv, NamedByAnswer
<1>6. KnownNamed'
  BY <1>1, <1>2 DEF KnownNamed, HandlerNamed, AnswersNamed, CtlNamed, LogNamed
<1> QED BY <1>3, <1>4, <1>5, <1>6 DEF IInv

\* Every step preserves the invariant.
LEMMA NextIInv ==
    ASSUME IInv, [Next]_vars
    PROVE  IInv'
<1>1. CASE UNCHANGED vars
  <2>1. UNCHANGED << running, alive, serving, work_as_global, tuncfg, rules, ipset, handler,
                     answers, tmindex, ctl, access_log, ins, domains, acc_domains, report >>
    BY <1>1 DEF vars, lifeVars, netVars, tmVars, logVars
  <2>2. TypeOK' /\ EndedIdle'
    BY <2>1 DEF IInv, TypeOK, EndedIdle
  <2>3. HandlerSaved' /\ AnswersSaved' /\ NamedByAnswer'
    BY <2>1 DEF IInv, HandlerSaved, AnswersSaved, NamedByAnswer
  <2>4. KnownNamed'
    BY <2>1 DEF IInv, KnownNamed, HandlerNamed, AnswersNamed, CtlNamed, LogNamed, Named
  <2> QED BY <2>2, <2>3, <2>4 DEF IInv
<1> QED BY <1>1, MsgStep, IpsetStep, RecordStep, ReplyStep, DomapStep, ConnectStep, ServeStep,
          PanicStep, ReportStep, TakeStep, AccLogStep, ConfigStep, StopStep, EndStep,
          RestartStep
       DEF Next

\* The invariant is inductive, so it holds of every behaviour.
THEOREM Invariance == Spec => []IInv
<1>1. IInv /\ [Next]_vars => IInv'
  BY NextIInv
<1> QED BY <1>1, InitIInv, PTL DEF Spec

\* A client that has an answer is redirected when it uses it, by the rules for the
\* ipset and from the moment that they are set (dnstunnel.rs, save_ipset before the
\* answer is sent on; service.rs, config_sys).
THEOREM RedirectedFirst == Spec => []RedirectedOnceResolved
<1>1. IInv => RedirectedOnceResolved
  BY DEF IInv, AnswersSaved, RedirectedOnceResolved, Redirected, set_iptables_rules
<1> QED BY <1>1, Invariance, PTL

\* No access of a client that resolved a name is filed under the bare address,
\* although name and access come to the Service from different threads.
THEOREM NamedFirst == Spec => []NamedByAnswer
<1>1. IInv => NamedByAnswer
  BY DEF IInv
<1> QED BY <1>1, Invariance, PTL
=============================================================================
