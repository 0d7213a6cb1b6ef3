---------------------------- MODULE TunMgrProofs ----------------------------
(***************************************************************************)
(* Proofs about TunMgr, for any number of tunnels, slots and requests, any *)
(* even number of tags and any ping limit.                                 *)
(*                                                                         *)
(* IInv is inductive.  OneOwner needs nothing else.  SlotAccounting rests  *)
(* on the parity of the tags: a stub holds an odd tag (StubTags), a slot   *)
(* on the free stack has an even one (Accounted), so a free that finds its *)
(* tag finds a slot in use.  SlotOwned then says whose it is.              *)
(***************************************************************************)
EXTENDS TunMgr, FiniteSetTheorems, TLAPS

-----------------------------------------------------------------------------
(***************************************************************************)
(* The table (Reqq): it stays accounted for (Accounted) under every alloc  *)
(* and free, for every capacity and every even modulus of the tags, the    *)
(* wrap-around included.  These lemmas are in TunnelProofs too.            *)
(***************************************************************************)

\* tag + 1 flips the parity of a tag, at the wrap-around too because the number
\* of tags is even (bump, reqq.rs:39 and :79).
LEMMA BumpLemma ==
    ASSUME NEW t \in Tag
    PROVE  /\ bump(t) \in Tag
           /\ bump(t) % 2 # t % 2
           /\ t % 2 \in {0, 1}
<1>1. TagMod \in Nat \ {0} /\ TagMod % 2 = 0 /\ t \in Nat /\ t < TagMod
  BY ReqqAssumption DEF Tag
<1>2. bump(t) = IF t + 1 = TagMod THEN 0 ELSE t + 1
  BY <1>1 DEF bump
<1>3. CASE t + 1 = TagMod
  BY <1>1, <1>2, <1>3 DEF Tag
<1>4. CASE t + 1 # TagMod
  BY <1>1, <1>2, <1>4 DEF Tag
<1> QED BY <1>3, <1>4

\* A sequence of distinct slots that misses one is shorter than the table.
LEMMA PigeonHole ==
    ASSUME NEW f \in Seq(Slot), NEW s \in Slot,
           \A k, l \in DOMAIN f : f[k] = f[l] => k = l,
           \A k \in DOMAIN f : f[k] # s
    PROVE  Len(f) < ReqCap
<1>1. ReqCap \in Nat /\ Len(f) \in Nat /\ DOMAIN f = 1 .. Len(f)
  BY ReqqAssumption
<1> DEFINE g == [k \in 1 .. Len(f) + 1 |-> IF k = Len(f) + 1 THEN s ELSE f[k]]
<1>2. g \in [1 .. Len(f) + 1 -> Slot]
  BY <1>1
<1>3. /\ IsFiniteSet(1 .. Len(f) + 1) /\ Cardinality(1 .. Len(f) + 1) = Len(f) + 1
      /\ IsFiniteSet(Slot) /\ Cardinality(Slot) = ReqCap
  BY <1>1, FS_Interval, ReqqAssumption DEF Slot
<1>4. SUFFICES ASSUME ReqCap < Len(f) + 1 PROVE FALSE
  BY <1>1
<1>5. PICK x, y \in 1 .. Len(f) + 1 : x # y /\ g[x] = g[y]
  <2> HIDE DEF g
  <2> QED BY <1>1, <1>2, <1>3, <1>4, FS_PigeonHole
<1> QED BY <1>1, <1>5

\* A fresh table is accounted for, with no slot in use (Reqq::new).
LEMMA NewAccounted == new \in Table /\ Accounted(new, 0)
<1>1. ReqCap \in Nat \ {0} /\ TagMod \in Nat \ {0} /\ 0 \in Tag
  BY ReqqAssumption DEF Tag
<1>2. new.free \in Seq(Slot) /\ Len(new.free) = ReqCap
      /\ DOMAIN new.free = 1 .. ReqCap
  BY <1>1 DEF new, Slot
<1>3. new \in Table
  BY <1>1, <1>2 DEF new, Table, Element
<1>4. ASSUME NEW s \in Slot
      PROVE  \E k \in DOMAIN new.free : new.free[k] = s
  <2>1. ReqCap - s \in 1 .. ReqCap /\ new.free[ReqCap - s] = s
    BY <1>1 DEF new, Slot
  <2> QED BY <2>1, <1>2
<1> QED BY <1>1, <1>2, <1>3, <1>4 DEF Accounted, new

\* alloc takes a slot off the free stack, gives it an odd tag and the request,
\* and leaves the table accounted for with one more slot in use (reqq.rs:27).
LEMMA AllocAccounted ==
    ASSUME NEW q \in Table, NEW n, Accounted(q, n), NEW r \in Req,
           Len(q.free) > 0
    PROVE  /\ alloc_idx(q) \in Slot
           /\ alloc_tag(q) \in Tag /\ alloc_tag(q) % 2 = 1
           /\ q.elements[alloc_idx(q)].trigger = NoReq
           /\ alloc(q, r) \in Table
           /\ Accounted(alloc(q, r), n + 1)
<1> DEFINE a == alloc_idx(q)
           p == alloc(q, r)
<1>1. /\ q.free \in Seq(Slot) /\ Len(q.free) \in Nat \ {0}
      /\ DOMAIN q.free = 1 .. Len(q.free)
      /\ q.elements \in [Slot -> Element] /\ ReqCap \in Nat
  BY ReqqAssumption DEF Table
<1>2. a \in Slot /\ a = q.free[Len(q.free)] /\ Len(q.free) \in DOMAIN q.free
  BY <1>1 DEF alloc_idx
<1>3. q.elements[a].tag \in Tag /\ q.elements[a].tag % 2 = 0
      /\ q.elements[a].trigger = NoReq
  BY <1>1, <1>2 DEF Accounted, Element
<1>4. alloc_tag(q) \in Tag /\ alloc_tag(q) % 2 = 1
  <2>1. alloc_tag(q) = bump(q.elements[a].tag)
    BY DEF alloc_tag
  <2>2. alloc_tag(q) \in Tag /\ alloc_tag(q) % 2 # 0 /\ alloc_tag(q) % 2 \in {0, 1}
    BY <1>3, <2>1, BumpLemma
  <2> QED BY <2>2
<1>5. /\ p.free = SubSeq(q.free, 1, Len(q.free) - 1)
      /\ p.free \in Seq(Slot) /\ Len(p.free) = Len(q.free) - 1
      /\ DOMAIN p.free = 1 .. Len(q.free) - 1
      /\ \A k \in DOMAIN p.free : p.free[k] = q.free[k]
  BY <1>1 DEF alloc
<1>6. p.elements = [q.elements EXCEPT ![a] =
                      [tag |-> alloc_tag(q), request_tx |-> r, trigger |-> r]]
  BY DEF alloc
<1>7. p \in Table
  BY <1>1, <1>2, <1>4, <1>5, <1>6 DEF alloc, Table, Element
<1> HIDE DEF p, a
<1>8. \A k, l \in DOMAIN p.free : p.free[k] = p.free[l] => k = l
  <2>1. \A k, l \in DOMAIN q.free : q.free[k] = q.free[l] => k = l
    BY DEF Accounted
  <2>2. DOMAIN p.free \subseteq DOMAIN q.free
    BY <1>1, <1>5
  <2> QED BY <1>5, <2>1, <2>2
<1>9. ASSUME NEW s \in Slot
      PROVE  (\E k \in DOMAIN p.free : p.free[k] = s)
               <=> p.elements[s].tag % 2 = 0
  <2>1. CASE s = a
    <3>1. \A k \in DOMAIN p.free : p.free[k] # a
      <4>1. \A k \in DOMAIN q.free : q.free[k] = q.free[Len(q.free)] => k = Len(q.free)
        BY <1>2 DEF Accounted
      <4>2. \A k \in DOMAIN p.free : k \in DOMAIN q.free /\ k # Len(q.free)
        BY <1>1, <1>5
      <4> QED BY <1>2, <1>5, <4>1, <4>2
    <3>2. p.elements[s].tag % 2 = 1
      BY <1>1, <1>4, <1>6, <2>1
    <3> QED BY <2>1, <3>1, <3>2
  <2>2. CASE s # a
    <3>1. p.elements[s] = q.elements[s]
      BY <1>1, <1>6, <2>2
    <3>2. (\E k \in DOMAIN p.free : p.free[k] = s)
            <=> (\E k \in DOMAIN q.free : q.free[k] = s)
      BY <1>1, <1>2, <1>5, <2>2
    <3> QED BY <3>1, <3>2 DEF Accounted
  <2> QED BY <2>1, <2>2
<1>10. ASSUME NEW s \in Slot
       PROVE  /\ p.elements[s].trigger = NoReq <=> p.elements[s].tag % 2 = 0
              /\ p.elements[s].request_tx # NoReq
                   => p.elements[s].request_tx = p.elements[s].trigger
  BY <1>1, <1>2, <1>4, <1>6, ReqqAssumption DEF Accounted
<1>11. n + 1 = ReqCap - Len(p.free)
  <2>1. n = ReqCap - Len(q.free)
    BY DEF Accounted
  <2>2. Len(p.free) = Len(q.free) - 1 /\ Len(q.free) \in Int /\ ReqCap \in Int
    BY <1>1, <1>5
  <2>3. \A l, c \in Int : (c - l) + 1 = c - (l - 1)
    OBVIOUS
  <2>4. (ReqCap - Len(q.free)) + 1 = ReqCap - (Len(q.free) - 1)
    BY <2>2, <2>3
  <2> QED BY <2>1, <2>2, <2>4
<1>12. Accounted(p, n + 1)
  BY <1>8, <1>9, <1>10, <1>11 DEF Accounted
<1> QED BY <1>2, <1>3, <1>4, <1>7, <1>12 DEF p, a

\* free with the odd tag that a request was given returns the slot to the free
\* stack exactly once; there was a slot in use, so req_count does not underflow
\* (reqq.rs:46, tunnel.rs:148 and :324).
LEMMA FreeAccounted ==
    ASSUME NEW q \in Table, NEW n, Accounted(q, n), NEW s \in Slot,
           NEW t \in Tag, t % 2 = 1, free_ok(q, s, t)
    PROVE  /\ free(q, s, t) \in Table
           /\ Accounted(free(q, s, t), n - 1)
           /\ n - 1 \in 0 .. ReqCap
           /\ q.elements[s].trigger # NoReq
           /\ free(q, s, t).elements = [q.elements EXCEPT ![s] = clean_req(q.elements[s])]
<1> DEFINE p == free(q, s, t)
           e == q.elements[s]
<1>1. /\ q.free \in Seq(Slot) /\ Len(q.free) \in Nat
      /\ DOMAIN q.free = 1 .. Len(q.free)
      /\ q.elements \in [Slot -> Element] /\ ReqCap \in Nat
  BY ReqqAssumption DEF Table
<1>2. e.tag = t /\ e.tag \in Tag
  BY <1>1 DEF free_ok, Element
<1>3. /\ \A k \in DOMAIN q.free : q.free[k] # s
      /\ e.trigger # NoReq
  BY <1>2 DEF Accounted
<1>4. Len(q.free) < ReqCap
  BY <1>1, <1>3, PigeonHole DEF Accounted
<1>5. bump(e.tag) \in Tag /\ bump(e.tag) % 2 = 0
  <2>1. bump(e.tag) \in Tag /\ bump(e.tag) % 2 # 1 /\ bump(e.tag) % 2 \in {0, 1}
    BY <1>2, BumpLemma
  <2> QED BY <2>1
<1>6. /\ p.elements = [q.elements EXCEPT ![s] = clean_req(e)]
      /\ p.free = Append(q.free, s)
      /\ p = [elements |-> p.elements, free |-> p.free]
  BY DEF free
<1>7. /\ p.free \in Seq(Slot) /\ Len(p.free) = Len(q.free) + 1
      /\ DOMAIN p.free = 1 .. Len(q.free) + 1
      /\ \A k \in DOMAIN q.free : p.free[k] = q.free[k]
      /\ p.free[Len(q.free) + 1] = s
  BY <1>1, <1>6
<1> HIDE DEF p
<1>8. p.elements[s] = [tag |-> bump(e.tag), request_tx |-> NoReq, trigger |-> NoReq]
      /\ \A x \in Slot : x # s => p.elements[x] = q.elements[x]
  BY <1>1, <1>6 DEF clean_req
<1>9. p.elements \in [Slot -> Element]
  BY <1>1, <1>5, <1>6 DEF clean_req, Element
<1>10. p \in Table
  BY <1>6, <1>7, <1>9 DEF Table
<1>11. \A k, l \in DOMAIN p.free : p.free[k] = p.free[l] => k = l
  <2>1. \A k, l \in DOMAIN q.free : q.free[k] = q.free[l] => k = l
    BY DEF Accounted
  <2>2. \A k \in DOMAIN p.free : k \in DOMAIN q.free \/ k = Len(q.free) + 1
    BY <1>1, <1>7
  <2> QED BY <1>3, <1>7, <2>1, <2>2
<1>12. ASSUME NEW x \in Slot
       PROVE  (\E k \in DOMAIN p.free : p.free[k] = x)
                <=> p.elements[x].tag % 2 = 0
  <2>1. CASE x = s
    BY <1>1, <1>5, <1>7, <1>8, <2>1
  <2>2. CASE x # s
    <3>1. (\E k \in DOMAIN p.free : p.free[k] = x)
            <=> (\E k \in DOMAIN q.free : q.free[k] = x)
      <4>1. \A k : k \in DOMAIN p.free
                      <=> (k \in DOMAIN q.free \/ k = Len(q.free) + 1)
        BY <1>1, <1>7
      <4> QED BY <1>7, <2>2, <4>1
    <3> QED BY <1>8, <2>2, <3>1 DEF Accounted
  <2> QED BY <2>1, <2>2
<1>13. ASSUME NEW x \in Slot
       PROVE  /\ p.elements[x].trigger = NoReq <=> p.elements[x].tag % 2 = 0
              /\ p.elements[x].request_tx # NoReq
                   => p.elements[x].request_tx = p.elements[x].trigger
  BY <1>5, <1>8 DEF Accounted
<1>14. n - 1 = ReqCap - Len(p.free) /\ n - 1 \in 0 .. ReqCap
  <2>1. n = ReqCap - Len(q.free)
    BY DEF Accounted
  <2>2. Len(q.free) \in Nat /\ ReqCap \in Nat
    BY <1>1
  <2>3. Len(p.free) = Len(q.free) + 1
    BY <1>7
  <2>4. \A m, c \in Nat : m < c => /\ (c - m) - 1 = c - (m + 1)
                                  /\ (c - m) - 1 \in 0 .. c
    OBVIOUS
  <2> QED BY <1>4, <2>1, <2>2, <2>3, <2>4
<1>15. Accounted(p, n - 1)
  BY <1>11, <1>12, <1>13, <1>14 DEF Accounted
<1> QED BY <1>3, <1>6, <1>10, <1>14, <1>15 DEF p

\* Dropping the sender of a slot's channel touches neither the tags nor the
\* free stack (free_request_tx, tunnel.rs:261).
LEMMA FinishAccounted ==
    ASSUME NEW q \in Table, NEW n, Accounted(q, n), NEW s \in Slot
    PROVE  /\ [q EXCEPT !.elements[s].request_tx = NoReq] \in Table
           /\ Accounted([q EXCEPT !.elements[s].request_tx = NoReq], n)
           /\ [q EXCEPT !.elements[s].request_tx = NoReq].elements
                = [q.elements EXCEPT ![s] = [q.elements[s] EXCEPT !.request_tx = NoReq]]
<1> DEFINE p == [q EXCEPT !.elements[s].request_tx = NoReq]
<1>1. /\ q.elements \in [Slot -> Element]
      /\ p.free = q.free
      /\ p.elements = [q.elements EXCEPT ![s] = [q.elements[s] EXCEPT !.request_tx = NoReq]]
      /\ p \in Table
  BY DEF Table, Element
<1>2. \A x \in Slot : /\ p.elements[x].tag = q.elements[x].tag
                      /\ p.elements[x].trigger = q.elements[x].trigger
                      /\ \/ p.elements[x].request_tx = q.elements[x].request_tx
                         \/ p.elements[x].request_tx = NoReq
  BY <1>1 DEF Element
<1> HIDE DEF p
<1>3. Accounted(p, n)
  BY <1>1, <1>2 DEF Accounted
<1> QED BY <1>1, <1>3 DEF p

\* The table of a closed tunnel is still a table (clear_all, reqq.rs:66).
LEMMA ClearTable ==
    ASSUME NEW q \in Table
    PROVE  clear_all(q) \in Table
<1>1. \A s \in Slot : q.elements[s].tag \in Tag
  BY DEF Table, Element
<1>2. \A s \in Slot : clean_req(q.elements[s]) \in Element
  BY <1>1, BumpLemma DEF clean_req, Element
<1> QED BY <1>2 DEF clear_all, Table

-----------------------------------------------------------------------------
(***************************************************************************)
(* The steps of TunMgr.                                                    *)
(***************************************************************************)

\* TunMgr::new and init establish the invariant: every index is being connected
\* and no request is open.
LEMMA InitIInv == Init => IInv
<1> SUFFICES ASSUME Init PROVE IInv
  OBVIOUS
<1>1. TunCount \in Nat \ {0} /\ 0 \in Tun /\ PingLimit \in Nat /\ ReqCap \in Nat \ {0}
      /\ TagMod \in Nat \ {0} /\ 0 \in Tag /\ 0 \in Slot
  BY TunMgrAssumption, ReqqAssumption DEF Tun, Tag, Slot
<1>2. TypeOK
  <2>1. Idle \in Task
    BY <1>1 DEF Idle, Task
  <2>2. sorted_tun_indies \in Orders
    BY DEF Init, Orders
  <2> QED BY <1>1, <2>1, <2>2, NewAccounted DEF Init, TypeOK
<1>3. OneOwner
  BY DEF Init, OneOwner
<1>4. SlotAccounting /\ SlotOwned
  BY DEF Init, SlotAccounting, SlotOwned
<1>5. StubTags
  BY DEF Init, StubTags, Open, Idle
<1> QED BY <1>2, <1>3, <1>4, <1>5 DEF IInv

\* Appending the index of a tunnel that has just lost its owner to the queue.
LEMMA Requeue ==
    ASSUME TypeOK, OneOwner, NEW i \in Tun, ~discarded,
           \A k \in DOMAIN reconnect_queue : reconnect_queue[k] # i,
           reconnect_queue' = Append(reconnect_queue, i)
    PROVE  /\ reconnect_queue' \in Seq(Tun)
           /\ \A k \in DOMAIN reconnect_queue' : reconnect_queue'[k] \in Tun
           /\ \A k, l \in DOMAIN reconnect_queue' :
                reconnect_queue'[k] = reconnect_queue'[l] => k = l
           /\ \A j \in Tun : (\E k \in DOMAIN reconnect_queue' : reconnect_queue'[k] = j)
                <=> (j = i \/ \E k \in DOMAIN reconnect_queue : reconnect_queue[k] = j)
<1> DEFINE q == reconnect_queue
           p == reconnect_queue'
<1>1. q \in Seq(Tun) /\ Len(q) \in Nat /\ DOMAIN q = 1 .. Len(q)
  BY DEF TypeOK
<1>2. /\ p \in Seq(Tun) /\ DOMAIN p = 1 .. Len(q) + 1
      /\ \A k \in DOMAIN q : p[k] = q[k]
      /\ p[Len(q) + 1] = i
  BY <1>1
<1>3. \A k : k \in DOMAIN p <=> (k \in DOMAIN q \/ k = Len(q) + 1)
  BY <1>1, <1>2
<1>4. \A k, l \in DOMAIN q : q[k] = q[l] => k = l
  BY DEF OneOwner
<1> HIDE DEF p, q
<1>5. \A k, l \in DOMAIN p : p[k] = p[l] => k = l
  BY <1>2, <1>3, <1>4 DEF q
<1>6. \A j \in Tun : (\E k \in DOMAIN p : p[k] = j)
                       <=> (j = i \/ \E k \in DOMAIN q : q[k] = j)
  BY <1>2, <1>3
<1> QED BY <1>2, <1>5, <1>6 DEF p, q

\* The owner of an index lets go of it: the index is queued, or forgotten when
\* the manager is discarded (on_tunnel_build_error and on_tunnel_closed).
LEMMA Released ==
    ASSUME TypeOK, OneOwner, NEW i \in Tun, live[i] \/ building[i] = 1,
           live' = [live EXCEPT ![i] = FALSE],
           building' = [building EXCEPT ![i] = 0],
           discarded' = discarded,
           reconnect_queue' = IF discarded THEN reconnect_queue
                                           ELSE Append(reconnect_queue, i)
    PROVE  reconnect_queue' \in Seq(Tun) /\ OneOwner'
<1>1. /\ live \in [Tun -> BOOLEAN] /\ building \in [Tun -> Nat]
      /\ reconnect_queue \in Seq(Tun)
      /\ \A k \in DOMAIN reconnect_queue : reconnect_queue[k] # i
  BY DEF TypeOK, OneOwner
<1>2. CASE discarded
  BY <1>1, <1>2 DEF OneOwner
<1>3. CASE ~discarded
  <2>1. reconnect_queue' = Append(reconnect_queue, i)
    BY <1>3
  <2>2. \A j \in Tun : building'[j] <= 1 /\ ~(live'[j] /\ building'[j] = 1)
    BY <1>1 DEF OneOwner
  <2>3. \A j \in Tun : (\E k \in DOMAIN reconnect_queue' : reconnect_queue'[k] = j)
            <=> (j = i \/ \E k \in DOMAIN reconnect_queue : reconnect_queue[k] = j)
    BY <1>1, <1>3, <2>1, Requeue
  <2>4. \A k \in DOMAIN reconnect_queue' :
          LET j == reconnect_queue'[k] IN ~live'[j] /\ building'[j] = 0
    <3>1. \A j \in Tun : (\E k \in DOMAIN reconnect_queue' : reconnect_queue'[k] = j)
            => ~live'[j] /\ building'[j] = 0
      BY <1>1, <2>3 DEF OneOwner
    <3>2. \A k \in DOMAIN reconnect_queue' : reconnect_queue'[k] \in Tun
      BY <1>1, <1>3, <2>1, Requeue
    <3> QED BY <3>1, <3>2
  <2>5. \A j \in Tun : \/ live'[j] \/ building'[j] = 1
                       \/ \E k \in DOMAIN reconnect_queue' : reconnect_queue'[k] = j
    BY <1>1, <1>3, <2>3 DEF OneOwner
  <2>6. /\ reconnect_queue' \in Seq(Tun)
        /\ \A k, l \in DOMAIN reconnect_queue' :
             reconnect_queue'[k] = reconnect_queue'[l] => k = l
    BY <1>1, <1>3, <2>1, Requeue
  <2> QED BY <2>2, <2>4, <2>5, <2>6 DEF OneOwner
<1> QED BY <1>2, <1>3

\* on_tunnel_created: the attempt hands its index over to the tunnel, which
\* starts with a fresh table; a discarded manager only loses the attempt.
LEMMA CreatedStep ==
    ASSUME IInv, NEW i \in Tun, on_tunnel_created(i)
    PROVE  IInv'
<1> USE DEF IInv
<1>1. /\ building \in [Tun -> Nat] /\ building[i] = 1 /\ ~live[i]
      /\ building' = [building EXCEPT ![i] = 0]
  <2>1. building \in [Tun -> Nat] /\ building[i] > 0 /\ building[i] <= 1
    BY DEF on_tunnel_created, TypeOK, OneOwner
  <2>2. building[i] = 1
    BY <2>1
  <2>3. ~live[i]
    BY <2>2 DEF OneOwner
  <2>4. building' = [building EXCEPT ![i] = building[i] - 1]
    BY DEF on_tunnel_created
  <2> QED BY <2>1, <2>2, <2>3, <2>4
<1>2. CASE discarded
  <2>1. UNCHANGED << live, up, ping_count, slotVars, mgrVars, req >>
    BY <1>2 DEF on_tunnel_created
  <2>2. TypeOK'
    BY <1>1, <2>1 DEF TypeOK, mgrVars, slotVars
  <2>3. OneOwner'
    BY <1>1, <1>2, <2>1 DEF OneOwner, mgrVars, TypeOK
  <2>4. SlotAccounting' /\ SlotOwned' /\ StubTags'
    BY <2>1 DEF SlotAccounting, SlotOwned, StubTags, Open, slotVars
  <2> QED BY <2>2, <2>3, <2>4
<1>3. CASE ~discarded
  <2>1. /\ live' = [live EXCEPT ![i] = TRUE]
        /\ up' = [up EXCEPT ![i] = TRUE]
        /\ ping_count' = [ping_count EXCEPT ![i] = 0]
        /\ reqq' = [reqq EXCEPT ![i] = new]
        /\ req_count' = [req_count EXCEPT ![i] = 0]
        /\ UNCHANGED << mgrVars, req >>
    BY <1>3 DEF on_tunnel_created
  <2>2. TypeOK'
    BY <1>1, <2>1, NewAccounted, TunMgrAssumption, ReqqAssumption DEF TypeOK, mgrVars
  <2>3. OneOwner'
    BY <1>1, <1>3, <2>1 DEF OneOwner, mgrVars, TypeOK
  <2>4. SlotAccounting'
    BY <2>1, NewAccounted DEF SlotAccounting, TypeOK
  <2>5. SlotOwned'
    BY <2>1, SMTT(30) DEF SlotOwned, Open, TypeOK, new
  <2>6. StubTags'
    BY <2>1 DEF StubTags, Open
  <2> QED BY <2>2, <2>3, <2>4, <2>5, <2>6
<1> QED BY <1>2, <1>3

\* on_tunnel_build_error: the attempt hands its index over to the queue.
LEMMA BuildErrorStep ==
    ASSUME IInv, NEW i \in Tun, on_tunnel_build_error(i)
    PROVE  IInv'
<1> USE DEF IInv
<1>1. /\ building \in [Tun -> Nat] /\ building[i] = 1 /\ ~live[i]
      /\ building' = [building EXCEPT ![i] = 0]
  <2>1. building \in [Tun -> Nat] /\ building[i] > 0 /\ building[i] <= 1
    BY DEF on_tunnel_build_error, TypeOK, OneOwner
  <2>2. building[i] = 1
    BY <2>1
  <2>3. ~live[i]
    BY <2>2 DEF OneOwner
  <2>4. building' = [building EXCEPT ![i] = building[i] - 1]
    BY DEF on_tunnel_build_error
  <2> QED BY <2>1, <2>2, <2>3, <2>4
<1>2. UNCHANGED << discarded, sorted_tun_indies, current_tun_idx, live, up,
                   ping_count, reqq, req_count, req >>
  BY DEF on_tunnel_build_error, slotVars
<1>3. reconnect_queue' \in Seq(Tun) /\ OneOwner'
  <2>1. live' = [live EXCEPT ![i] = FALSE]
    BY <1>1, <1>2 DEF TypeOK
  <2>2. reconnect_queue' = IF discarded THEN reconnect_queue
                                        ELSE Append(reconnect_queue, i)
    BY DEF on_tunnel_build_error
  <2> QED BY <1>1, <1>2, <2>1, <2>2, Released
<1>4. TypeOK'
  BY <1>1, <1>2, <1>3 DEF TypeOK
<1>5. SlotAccounting' /\ SlotOwned' /\ StubTags'
  BY <1>2 DEF SlotAccounting, SlotOwned, StubTags, Open
<1> QED BY <1>3, <1>4, <1>5

\* on_tunnel_closed: the tunnel hands its index over to the queue; its table is
\* cleared, and no other tunnel's requests are touched.
LEMMA ClosedStep ==
    ASSUME IInv, NEW i \in Tun, on_tunnel_closed(i)
    PROVE  IInv'
<1> USE DEF IInv
<1>1. /\ live[i] /\ live' = [live EXCEPT ![i] = FALSE]
      /\ up' = [up EXCEPT ![i] = FALSE]
      /\ reqq' = [reqq EXCEPT ![i] = clear_all(reqq[i])]
      /\ req' = [r \in Req |-> IF Open(r) /\ req[r].tun_idx = i
                                 THEN [req[r] EXCEPT !.tunnel_tx = FALSE]
                                 ELSE req[r]]
      /\ reconnect_queue' = IF discarded THEN reconnect_queue
                                         ELSE Append(reconnect_queue, i)
      /\ UNCHANGED << discarded, sorted_tun_indies, current_tun_idx, building,
                      ping_count, req_count >>
  BY DEF on_tunnel_closed
<1>2. reconnect_queue' \in Seq(Tun) /\ OneOwner'
  <2>1. building[i] = 0
    BY <1>1 DEF OneOwner, TypeOK
  <2>2. building' = [building EXCEPT ![i] = 0]
    BY <1>1, <2>1 DEF TypeOK
  <2> QED BY <1>1, <2>2, Released
<1>3. TypeOK'
  <2>1. clear_all(reqq[i]) \in Table
    BY ClearTable DEF TypeOK
  <2>2. req' \in [Req -> Task]
    BY <1>1 DEF TypeOK, Task
  <2> QED BY <1>1, <1>2, <2>1, <2>2 DEF TypeOK
<1>4. SlotAccounting'
  BY <1>1 DEF SlotAccounting, TypeOK
<1>5. \A r \in Req : /\ req'[r].sending = req[r].sending
                     /\ req'[r].receiving = req[r].receiving
                     /\ req'[r].req_tag = req[r].req_tag
  BY <1>1 DEF TypeOK, Task
<1>6. SlotOwned'
  <2> SUFFICES ASSUME NEW j \in Tun, NEW s \in Slot, live'[j],
                      reqq'[j].elements[s].trigger # NoReq
               PROVE  LET e == reqq'[j].elements[s]
                          t == req'[e.trigger]
                      IN  /\ t.sending \/ t.receiving
                          /\ t.tun_idx = j /\ t.req_idx = s
                          /\ t.req_tag = e.tag /\ t.tunnel_tx
    BY SMTT(30) DEF SlotOwned, Open
  <2>1. j # i /\ live[j] /\ reqq'[j] = reqq[j]
    BY <1>1 DEF TypeOK
  <2> DEFINE e == reqq[j].elements[s]
  <2>2. e.trigger \in Req
    BY <2>1 DEF TypeOK, Table, Element
  <2>3. /\ Open(e.trigger)
        /\ req[e.trigger].tun_idx = j /\ req[e.trigger].req_idx = s
        /\ req[e.trigger].req_tag = e.tag /\ req[e.trigger].tunnel_tx
    BY <2>1 DEF SlotOwned
  <2>4. req'[e.trigger] = req[e.trigger]
    BY <1>1, <2>1, <2>2, <2>3
  <2> QED BY <2>1, <2>3, <2>4 DEF Open
<1>7. StubTags'
  BY <1>5 DEF StubTags, Open
<1> QED BY <1>2, <1>3, <1>4, <1>6, <1>7

\* keepalive: the queue hands its indices over to attempts, one each because no
\* index is queued twice, and ping_count stays below its bound.
LEMMA KeepaliveStep ==
    ASSUME IInv, keepalive
    PROVE  IInv'
<1> USE DEF IInv
<1>1. /\ ~discarded /\ sorted_tun_indies' \in Orders
      /\ UNCHANGED << discarded, current_tun_idx, live, reqq, req_count, req >>
      /\ reconnect_queue' = << >>
      /\ building' = [i \in Tun |-> building[i] + Cardinality(Queued(i))]
  BY DEF keepalive, sort_tunnels_by_busy, process_reconnect, slotVars
<1>2. ASSUME NEW i \in Tun
      PROVE  Cardinality(Queued(i)) = IF \E k \in DOMAIN reconnect_queue :
                                            reconnect_queue[k] = i
                                        THEN 1 ELSE 0
  <2>1. CASE \E k \in DOMAIN reconnect_queue : reconnect_queue[k] = i
    <3>1. PICK k \in DOMAIN reconnect_queue : reconnect_queue[k] = i
      BY <2>1
    <3>2. Queued(i) = {k}
      BY <3>1 DEF Queued, OneOwner
    <3> QED BY <2>1, <3>2, FS_Singleton
  <2>2. CASE ~ \E k \in DOMAIN reconnect_queue : reconnect_queue[k] = i
    <3>1. Queued(i) = {}
      BY <2>2 DEF Queued
    <3> QED BY <2>2, <3>1, FS_EmptySet
  <2> QED BY <2>1, <2>2
<1>3. ASSUME NEW i \in Tun
      PROVE  building'[i] \in Nat /\ building'[i] <= 1
             /\ (live[i] => building'[i] = 0) /\ (~live[i] => building'[i] = 1)
  <2>1. building[i] \in Nat /\ building[i] <= 1 /\ (live[i] => building[i] = 0)
    <3>1. building[i] \in Nat
      BY DEF TypeOK
    <3>2. building[i] <= 1 /\ ~(live[i] /\ building[i] = 1)
      BY DEF OneOwner
    <3>3. building[i] = 0 \/ building[i] = 1
      BY <3>1, <3>2
    <3> QED BY <3>1, <3>2, <3>3
  <2>2. CASE \E k \in DOMAIN reconnect_queue : reconnect_queue[k] = i
    <3>1. ~live[i] /\ building[i] = 0
      BY <2>2 DEF OneOwner
    <3>2. building'[i] = building[i] + 1
      BY <1>1, <1>2, <2>2
    <3> QED BY <3>1, <3>2
  <2>3. CASE ~ \E k \in DOMAIN reconnect_queue : reconnect_queue[k] = i
    <3>1. live[i] \/ building[i] = 1
      BY <1>1, <2>3 DEF OneOwner
    <3>2. building'[i] = building[i] + 0
      BY <1>1, <1>2, <2>3
    <3> QED BY <2>1, <3>1, <3>2
  <2> QED BY <2>2, <2>3
<1>4. TypeOK'
  <2>1. ping_count' \in [Tun -> 0 .. PingLimit + 1]
    <3>1. ping_count' = [i \in Tun |-> IF live[i] /\ ping_count[i] <= PingLimit
                                         THEN ping_count[i] + 1 ELSE ping_count[i]]
      BY DEF keepalive, send_pings, send_ping
    <3> QED BY <3>1, TunMgrAssumption DEF TypeOK
  <2>2. up' \in [Tun -> BOOLEAN]
    <3>1. up' = [i \in Tun |-> up[i] /\ (live[i] => send_ping(i))]
      BY DEF keepalive, send_pings
    <3> QED BY <3>1
  <2>3. building' \in [Tun -> Nat]
    BY <1>1, <1>3
  <2> QED BY <1>1, <2>1, <2>2, <2>3 DEF TypeOK
<1>5. OneOwner'
  BY <1>1, <1>3 DEF OneOwner
<1>6. SlotAccounting' /\ SlotOwned' /\ StubTags'
  BY <1>1 DEF SlotAccounting, SlotOwned, StubTags, Open
<1> QED BY <1>4, <1>5, <1>6

\* on_pong only resets ping_count.
LEMMA PongStep ==
    ASSUME IInv, NEW i \in Tun, on_pong(i)
    PROVE  IInv'
<1> USE DEF IInv
<1>1. /\ ping_count' = [ping_count EXCEPT ![i] = 0]
      /\ UNCHANGED << discarded, reconnect_queue, sorted_tun_indies, current_tun_idx,
                      building, live, up, reqq, req_count, req >>
  BY DEF on_pong, mgrVars, slotVars
<1>2. TypeOK'
  BY <1>1, TunMgrAssumption DEF TypeOK
<1>3. OneOwner' /\ StubTags'
  BY <1>1 DEF OneOwner, StubTags, Open
<1>4. SlotAccounting'
  BY <1>1 DEF SlotAccounting
<1>5. SlotOwned'
  BY <1>1, SMTT(30) DEF SlotOwned, Open
<1> QED BY <1>2, <1>3, <1>4, <1>5

\* stop only shuts sockets down and discards the manager.
LEMMA StopStep ==
    ASSUME IInv, stop
    PROVE  IInv'
<1> USE DEF IInv
<1>1. /\ discarded' = TRUE /\ up' = [i \in Tun |-> FALSE]
      /\ UNCHANGED << reconnect_queue, sorted_tun_indies, current_tun_idx,
                      building, live, ping_count, reqq, req_count, req >>
  BY DEF stop, slotVars
<1>2. TypeOK'
  BY <1>1 DEF TypeOK
<1>3. OneOwner' /\ StubTags'
  BY <1>1 DEF OneOwner, StubTags, Open
<1>4. SlotAccounting'
  BY <1>1 DEF SlotAccounting
<1>5. SlotOwned'
  BY <1>1, SMTT(30) DEF SlotOwned, Open
<1> QED BY <1>2, <1>3, <1>4, <1>5

\* on_request_created: the tunnel found by alloc_tunnel_for_req gives the request
\* a slot that nobody uses and the stub that names it.
LEMMA RequestCreatedStep ==
    ASSUME IInv, NEW r \in Req, on_request_created(r)
    PROVE  IInv'
<1> USE DEF IInv
<1>1. PICK n \in alloc_tunnel_for_req :
        LET i == sorted_tun_indies[n]
            q == reqq[i]
        IN  /\ Len(q.free) > 0
            /\ current_tun_idx' = (n + 1) % TunCount
            /\ reqq' = [reqq EXCEPT ![i] = alloc(q, r)]
            /\ req_count' = [req_count EXCEPT ![i] = @ + 1]
            /\ req' = [req EXCEPT ![r] =
                         [tun_idx |-> i, req_idx |-> alloc_idx(q),
                          req_tag |-> alloc_tag(q), tunnel_tx |-> TRUE,
                          sending |-> TRUE, receiving |-> TRUE]]
  BY DEF on_request_created
<1> DEFINE i == sorted_tun_indies[n]
           q == reqq[i]
           t == [tun_idx |-> i, req_idx |-> alloc_idx(q),
                 req_tag |-> alloc_tag(q), tunnel_tx |-> TRUE,
                 sending |-> TRUE, receiving |-> TRUE]
<1>2. /\ UNCHANGED << discarded, reconnect_queue, sorted_tun_indies, building,
                      live, up, ping_count >>
      /\ ~Open(r)
  BY DEF on_request_created, tunVars
<1>3. n \in Tun /\ i \in Tun /\ live[i] /\ req_count[i] + 1 < ReqCap
  <2>1. n \in current_tun_idx .. TunCount - 1 \/ n \in 0 .. current_tun_idx - 1
    BY DEF alloc_tunnel_for_req, FirstUsable
  <2>2. current_tun_idx \in Tun /\ sorted_tun_indies \in [Tun -> Tun]
    BY DEF TypeOK, Orders
  <2>3. n \in Tun
    BY <2>1, <2>2, TunMgrAssumption DEF Tun
  <2>4. Usable(i)
    BY DEF alloc_tunnel_for_req, FirstUsable
  <2> QED BY <2>2, <2>3, <2>4 DEF Usable
<1>4. /\ q \in Table /\ Accounted(q, req_count[i]) /\ Len(q.free) > 0
      /\ req_count[i] \in 0 .. ReqCap
  BY <1>1, <1>3 DEF SlotAccounting, TypeOK
<1>5. /\ alloc_idx(q) \in Slot /\ alloc_tag(q) \in Tag /\ alloc_tag(q) % 2 = 1
      /\ q.elements[alloc_idx(q)].trigger = NoReq
      /\ alloc(q, r) \in Table /\ Accounted(alloc(q, r), req_count[i] + 1)
  BY <1>4, AllocAccounted
<1>6. /\ reqq' = [reqq EXCEPT ![i] = alloc(q, r)]
      /\ req_count' = [req_count EXCEPT ![i] = req_count[i] + 1]
      /\ req' = [req EXCEPT ![r] = t]
  BY <1>1
<1>7. TypeOK'
  <2>1. current_tun_idx' \in Tun
    <3>1. current_tun_idx' = (n + 1) % TunCount
      BY <1>1
    <3> QED BY <1>3, <3>1, TunMgrAssumption DEF Tun
  <2>2. t \in Task
    BY <1>3, <1>5 DEF Task
  <2>3. req_count[i] + 1 \in 0 .. ReqCap
    BY <1>3, <1>4, ReqqAssumption
  <2> HIDE DEF t, i, q
  <2> QED BY <1>2, <1>3, <1>5, <1>6, <2>1, <2>2, <2>3 DEF TypeOK
<1>8. OneOwner'
  BY <1>2 DEF OneOwner
<1>9. SlotAccounting'
  <2> HIDE DEF t, i, q
  <2> QED BY <1>2, <1>3, <1>5, <1>6 DEF SlotAccounting, TypeOK
<1>10. SlotOwned'
  <2> SUFFICES ASSUME NEW j \in Tun, NEW s \in Slot, live'[j],
                      reqq'[j].elements[s].trigger # NoReq
               PROVE  LET e == reqq'[j].elements[s]
                          u == req'[e.trigger]
                      IN  /\ u.sending \/ u.receiving
                          /\ u.tun_idx = j /\ u.req_idx = s
                          /\ u.req_tag = e.tag /\ u.tunnel_tx
    BY SMTT(30) DEF SlotOwned, Open
  <2>1. CASE j = i /\ s = alloc_idx(q)
    <3>1. reqq'[j].elements[s] = [tag |-> alloc_tag(q), request_tx |-> r, trigger |-> r]
      BY <1>3, <1>4, <1>5, <1>6, <2>1 DEF TypeOK, Table, alloc
    <3>2. req'[r] = t
      BY <1>6 DEF TypeOK
    <3> QED BY <2>1, <3>1, <3>2
  <2>2. CASE ~(j = i /\ s = alloc_idx(q))
    <3> DEFINE e == reqq[j].elements[s]
    <3>1. reqq'[j].elements[s] = e
      BY <1>3, <1>4, <1>5, <1>6, <2>2 DEF TypeOK, Table, alloc
    <3>2. live[j] /\ e.trigger # NoReq
      BY <1>2, <3>1
    <3>3. /\ Open(e.trigger)
          /\ req[e.trigger].tun_idx = j /\ req[e.trigger].req_idx = s
          /\ req[e.trigger].req_tag = e.tag /\ req[e.trigger].tunnel_tx
      BY <3>2 DEF SlotOwned
    <3>4. e.trigger \in Req /\ e.trigger # r
      BY <1>2, <3>2, <3>3 DEF TypeOK, Table, Element
    <3>5. req'[e.trigger] = req[e.trigger]
      BY <1>6, <3>4 DEF TypeOK
    <3> QED BY <3>1, <3>3, <3>5 DEF Open
  <2> QED BY <2>1, <2>2
<1>11. StubTags'
  <2> SUFFICES ASSUME NEW x \in Req, req'[x].sending \/ req'[x].receiving
               PROVE  req'[x].req_tag % 2 = 1
    BY DEF StubTags, Open
  <2>1. CASE x = r
    BY <1>5, <1>6, <2>1 DEF TypeOK
  <2>2. CASE x # r
    <3>1. req'[x] = req[x]
      BY <1>6, <2>2 DEF TypeOK
    <3> QED BY <3>1 DEF StubTags, Open
  <2> QED BY <2>1, <2>2
<1> QED BY <1>7, <1>8, <1>9, <1>10, <1>11

\* A free that finds its odd tag in a live tunnel, whoever asks for it.
LEMMA FreeSlot ==
    ASSUME TypeOK, SlotAccounting, NEW i \in Tun, NEW s \in Slot, NEW t \in Tag,
           t % 2 = 1, live[i], free_ok(reqq[i], s, t), live' = live,
           reqq' = [reqq EXCEPT ![i] = free(reqq[i], s, t)],
           req_count' = [req_count EXCEPT ![i] = @ - 1]
    PROVE  /\ reqq' \in [Tun -> Table]
           /\ req_count' \in [Tun -> 0 .. ReqCap]
           /\ SlotAccounting'
<1> DEFINE q == free(reqq[i], s, t)
<1>1. /\ reqq \in [Tun -> Table] /\ req_count \in [Tun -> 0 .. ReqCap]
      /\ reqq[i] \in Table /\ Accounted(reqq[i], req_count[i])
      /\ reqq[i].elements \in [Slot -> Element]
  BY DEF TypeOK, SlotAccounting, Table
<1>2. /\ q \in Table /\ Accounted(q, req_count[i] - 1)
      /\ req_count[i] - 1 \in 0 .. ReqCap
  BY <1>1, FreeAccounted
<1> HIDE DEF q
<1>3. reqq' = [reqq EXCEPT ![i] = q] /\ req_count' = [req_count EXCEPT ![i] = req_count[i] - 1]
  BY DEF q
<1>4. reqq' \in [Tun -> Table] /\ req_count' \in [Tun -> 0 .. ReqCap]
  BY <1>1, <1>2, <1>3
<1>5. SlotAccounting'
  BY <1>1, <1>2, <1>3 DEF SlotAccounting
<1> QED BY <1>4, <1>5

\* It drops the trigger of that slot and touches no other.
LEMMA FreeSlotFrame ==
    ASSUME TypeOK, NEW i \in Tun, NEW s \in Slot, NEW t \in Tag,
           free_ok(reqq[i], s, t),
           reqq' = [reqq EXCEPT ![i] = free(reqq[i], s, t)]
    PROVE  /\ reqq'[i].elements[s].trigger = NoReq
           /\ \A j \in Tun, x \in Slot : ~(j = i /\ x = s)
                => reqq'[j].elements[x] = reqq[j].elements[x]
<1>1. reqq \in [Tun -> Table] /\ reqq[i].elements \in [Slot -> Element]
  BY DEF TypeOK, Table
<1>2. reqq'[i].elements = [reqq[i].elements EXCEPT ![s] = clean_req(reqq[i].elements[s])]
  BY <1>1 DEF free
<1>3. \A j \in Tun : j # i => reqq'[j] = reqq[j]
  BY <1>1
<1>4. reqq'[i].elements[s].trigger = NoReq
  BY <1>1, <1>2 DEF clean_req
<1> QED BY <1>1, <1>2, <1>3, <1>4

\* ReqServerClosed (tunnel.rs:139) frees the slot of an odd tag, which nobody
\* owns any more afterwards.
LEMMA ServerClosedStep ==
    ASSUME IInv, NEW i \in Tun, NEW s \in Slot, NEW t \in Echoed,
           on_server_closed(i, s, t)
    PROVE  IInv'
<1> USE DEF IInv
<1>1. /\ live[i] /\ free_ok(reqq[i], s, t)
      /\ reqq' = [reqq EXCEPT ![i] = free(reqq[i], s, t)]
      /\ req_count' = [req_count EXCEPT ![i] = @ - 1]
      /\ UNCHANGED << discarded, reconnect_queue, sorted_tun_indies, current_tun_idx,
                      building, live, up, ping_count, req >>
      /\ t \in Tag /\ t % 2 = 1
  BY DEF on_server_closed, mgrVars, tunVars, Echoed
<1>2. /\ reqq' \in [Tun -> Table]
      /\ req_count' \in [Tun -> 0 .. ReqCap]
      /\ SlotAccounting'
  BY <1>1, FreeSlot
<1>3. TypeOK'
  BY <1>1, <1>2 DEF TypeOK
<1>4. OneOwner' /\ StubTags'
  BY <1>1 DEF OneOwner, StubTags, Open
<1>5. SlotOwned'
  <2>1. /\ reqq'[i].elements[s].trigger = NoReq
        /\ \A j \in Tun, x \in Slot : ~(j = i /\ x = s)
             => reqq'[j].elements[x] = reqq[j].elements[x]
    BY <1>1, FreeSlotFrame
  <2> QED BY <1>1, <2>1, SMTT(30) DEF SlotOwned, Open
<1> QED BY <1>2, <1>3, <1>4, <1>5

\* ReqServerFinished (tunnel.rs:132) drops a sender and keeps the slot.
LEMMA ServerFinishedStep ==
    ASSUME IInv, NEW i \in Tun, NEW s \in Slot, NEW t \in Echoed,
           on_server_finished(i, s, t)
    PROVE  IInv'
<1> USE DEF IInv
<1> DEFINE q == [reqq[i] EXCEPT !.elements[s].request_tx = NoReq]
<1>1. /\ live[i]
      /\ reqq' = [reqq EXCEPT ![i] = q]
      /\ UNCHANGED << discarded, reconnect_queue, sorted_tun_indies, current_tun_idx,
                      building, live, up, ping_count, req_count, req >>
  BY DEF on_server_finished, mgrVars, tunVars
<1>2. /\ reqq \in [Tun -> Table] /\ reqq[i] \in Table
      /\ Accounted(reqq[i], req_count[i])
      /\ reqq[i].elements \in [Slot -> Element]
  BY <1>1 DEF TypeOK, SlotAccounting, Table
<1>3. /\ q \in Table /\ Accounted(q, req_count[i])
      /\ q.elements = [reqq[i].elements EXCEPT ![s] =
                         [reqq[i].elements[s] EXCEPT !.request_tx = NoReq]]
  BY <1>2, FinishAccounted
<1> HIDE DEF q
<1>4. \A j \in Tun, x \in Slot :
        /\ reqq'[j].elements[x].trigger = reqq[j].elements[x].trigger
        /\ reqq'[j].elements[x].tag = reqq[j].elements[x].tag
  BY <1>1, <1>2, <1>3 DEF Element
<1>5. TypeOK'
  BY <1>1, <1>2, <1>3 DEF TypeOK
<1>6. OneOwner' /\ StubTags'
  BY <1>1 DEF OneOwner, StubTags, Open
<1>7. SlotAccounting'
  BY <1>1, <1>2, <1>3 DEF SlotAccounting
<1>8. SlotOwned'
  BY <1>1, <1>4, SMTT(30) DEF SlotOwned, Open
<1> QED BY <1>5, <1>6, <1>7, <1>8

\* A future of a request task ends; with the second one on_request_closed frees
\* the slot that the stub names, if its tag still is the stub's.
LEMMA EndHalfStep ==
    ASSUME IInv, NEW r \in Req, Open(r), NEW task \in Task,
           task.tun_idx = req[r].tun_idx, task.req_idx = req[r].req_idx,
           task.req_tag = req[r].req_tag, task.tunnel_tx = req[r].tunnel_tx,
           EndHalf(r, task)
    PROVE  IInv'
<1> USE DEF IInv
<1>1. UNCHANGED << discarded, reconnect_queue, sorted_tun_indies, current_tun_idx,
                   building, live, up, ping_count >>
  BY DEF EndHalf, mgrVars, tunVars
<1>2. req \in [Req -> Task] /\ req[r] \in Task /\ req[r].req_tag % 2 = 1
  BY DEF TypeOK, StubTags
<1>3. OneOwner'
  BY <1>1 DEF OneOwner
<1>4. CASE task.sending \/ task.receiving
  <2>1. req' = [req EXCEPT ![r] = task] /\ UNCHANGED << reqq, req_count >>
    BY <1>4 DEF EndHalf, slotVars
  <2>2. TypeOK' /\ SlotAccounting'
    BY <1>1, <2>1 DEF TypeOK, SlotAccounting
  <2>3. \A x \in Req : /\ (req'[x].sending \/ req'[x].receiving) <=> Open(x)
                       /\ req'[x].tun_idx = req[x].tun_idx
                       /\ req'[x].req_idx = req[x].req_idx
                       /\ req'[x].req_tag = req[x].req_tag
                       /\ req'[x].tunnel_tx = req[x].tunnel_tx
    BY <1>2, <1>4, <2>1 DEF Open
  <2>4. StubTags'
    BY <2>3 DEF StubTags, Open
  <2>5. SlotOwned'
    <3>1. \A j \in Tun, s \in Slot : reqq[j].elements[s].trigger \in Req \cup {NoReq}
      BY DEF TypeOK, Table, Element
    <3> QED BY <1>1, <2>1, <2>3, <3>1, SMTT(30) DEF SlotOwned, Open
  <2> QED BY <1>3, <2>2, <2>4, <2>5
<1>5. CASE ~(task.sending \/ task.receiving)
  <2> DEFINE i == req[r].tun_idx
             s == req[r].req_idx
             t == req[r].req_tag
  <2>1. req' = [req EXCEPT ![r] = Idle] /\ on_request_closed(r)
    BY <1>5 DEF EndHalf
  <2>2. i \in Tun /\ s \in Slot /\ t \in Tag /\ t % 2 = 1
    BY <1>2 DEF Task
  <2>3. Idle \in Task
    BY TunMgrAssumption, ReqqAssumption DEF Idle, Task, Tun, Slot, Tag
  <2>4. /\ reqq' \in [Tun -> Table] /\ req_count' \in [Tun -> 0 .. ReqCap]
        /\ SlotAccounting'
    <3>1. CASE Frees(r)
      <4>1. /\ live[i] /\ free_ok(reqq[i], s, t)
            /\ reqq' = [reqq EXCEPT ![i] = free(reqq[i], s, t)]
            /\ req_count' = [req_count EXCEPT ![i] = @ - 1]
        BY <2>1, <3>1 DEF on_request_closed, Frees
      <4> HIDE DEF i, s, t
      <4> QED BY <1>1, <2>2, <4>1, FreeSlot
    <3>2. CASE ~Frees(r)
      <4>1. UNCHANGED << reqq, req_count >>
        BY <2>1, <3>2 DEF on_request_closed, slotVars
      <4> QED BY <1>1, <4>1 DEF TypeOK, SlotAccounting
    <3> QED BY <3>1, <3>2
  <2>5. TypeOK'
    BY <1>1, <2>1, <2>3, <2>4 DEF TypeOK
  <2>6. \A x \in Req : x # r => req'[x] = req[x]
    BY <1>2, <2>1
  <2>7. StubTags'
    <3>1. ~(req'[r].sending \/ req'[r].receiving)
      BY <1>2, <2>1 DEF Idle
    <3> QED BY <2>6, <3>1 DEF StubTags, Open
  <2>8. SlotOwned'
    <3> SUFFICES ASSUME NEW j \in Tun, NEW x \in Slot, live'[j],
                        reqq'[j].elements[x].trigger # NoReq
                 PROVE  LET e == reqq'[j].elements[x]
                            u == req'[e.trigger]
                        IN  /\ u.sending \/ u.receiving
                            /\ u.tun_idx = j /\ u.req_idx = x
                            /\ u.req_tag = e.tag /\ u.tunnel_tx
      BY SMTT(30) DEF SlotOwned, Open
    <3> DEFINE e == reqq[j].elements[x]
    <3>1. /\ reqq'[j].elements[x] = e
          /\ Frees(r) => ~(j = i /\ x = s)
      <4>1. CASE Frees(r)
        <5>1. /\ live[i] /\ free_ok(reqq[i], s, t)
              /\ reqq' = [reqq EXCEPT ![i] = free(reqq[i], s, t)]
              /\ req_count' = [req_count EXCEPT ![i] = @ - 1]
          BY <2>1, <4>1 DEF on_request_closed, Frees
        <5>2. /\ reqq'[i].elements[s].trigger = NoReq
              /\ \A k \in Tun, y \in Slot : ~(k = i /\ y = s)
                   => reqq'[k].elements[y] = reqq[k].elements[y]
          <6> HIDE DEF i, s, t
          <6> QED BY <1>1, <2>2, <5>1, FreeSlotFrame
        <5> HIDE DEF i, s, t
        <5> QED BY <5>2
      <4>2. CASE ~Frees(r)
        BY <2>1, <4>2 DEF on_request_closed, slotVars
      <4> QED BY <4>1, <4>2
    <3>2. live[j] /\ e.trigger # NoReq
      BY <1>1, <3>1
    <3>3. /\ Open(e.trigger)
          /\ req[e.trigger].tun_idx = j /\ req[e.trigger].req_idx = x
          /\ req[e.trigger].req_tag = e.tag /\ req[e.trigger].tunnel_tx
      BY <3>2 DEF SlotOwned
    <3>4. e.trigger # r
      <4> SUFFICES ASSUME e.trigger = r PROVE FALSE
        OBVIOUS
      <4>1. j = i /\ x = s /\ e.tag = t /\ live[i]
        BY <3>2, <3>3
      <4>2. Frees(r)
        BY <2>2, <4>1 DEF Frees, free_ok
      <4> QED BY <3>1, <4>1, <4>2
    <3>5. e.trigger \in Req
      BY <3>2 DEF TypeOK, Table, Element
    <3> QED BY <2>6, <3>1, <3>3, <3>4, <3>5 DEF Open
  <2> QED BY <1>3, <2>4, <2>5, <2>7, <2>8
<1> QED BY <1>4, <1>5

\* Every step preserves the invariant.
LEMMA NextIInv ==
    ASSUME IInv, [Next]_vars
    PROVE  IInv'
<1>1. ASSUME NEW i \in Tun, TunnelNext(i) PROVE IInv'
  BY <1>1, CreatedStep, BuildErrorStep, ClosedStep, PongStep, ServerFinishedStep,
     ServerClosedStep DEF TunnelNext
<1>2. ASSUME NEW r \in Req, RequestNext(r) PROVE IInv'
  <2>1. CASE on_request_created(r)
    BY <2>1, RequestCreatedStep
  <2>2. req[r] \in Task
    BY DEF IInv, TypeOK
  <2>3. CASE SendDrained(r) \/ SendFails(r)
    <3> DEFINE task == [req[r] EXCEPT !.sending = FALSE]
    <3>1. /\ task \in Task /\ task.tun_idx = req[r].tun_idx
          /\ task.req_idx = req[r].req_idx /\ task.req_tag = req[r].req_tag
          /\ task.tunnel_tx = req[r].tunnel_tx
      BY <2>2 DEF Task
    <3>2. Open(r) /\ EndHalf(r, task)
      BY <2>3 DEF SendDrained, SendFails, SendEnds, Open
    <3> HIDE DEF task
    <3> QED BY <3>1, <3>2, EndHalfStep
  <2>4. CASE ReceiveTripped(r) \/ ReceiveFinished(r)
    <3> DEFINE task == [req[r] EXCEPT !.receiving = FALSE]
    <3>1. /\ task \in Task /\ task.tun_idx = req[r].tun_idx
          /\ task.req_idx = req[r].req_idx /\ task.req_tag = req[r].req_tag
          /\ task.tunnel_tx = req[r].tunnel_tx
      BY <2>2 DEF Task
    <3>2. Open(r) /\ EndHalf(r, task)
      BY <2>4 DEF ReceiveTripped, ReceiveFinished, ReceiveEnds, Open
    <3> HIDE DEF task
    <3> QED BY <3>1, <3>2, EndHalfStep
  <2> QED BY <1>2, <2>1, <2>3, <2>4 DEF RequestNext
<1>3. CASE UNCHANGED vars
  <2>1. UNCHANGED << discarded, reconnect_queue, sorted_tun_indies, current_tun_idx,
                     building, live, up, ping_count, reqq, req_count, req >>
    BY <1>3 DEF vars, mgrVars, tunVars, slotVars
  <2>2. TypeOK' /\ OneOwner'
    BY <2>1 DEF IInv, TypeOK, OneOwner
  <2>3. SlotAccounting' /\ StubTags'
    BY <2>1 DEF IInv, SlotAccounting, StubTags, Open
  <2>4. SlotOwned'
    BY <2>1 DEF IInv, SlotOwned, Open
  <2> QED BY <2>2, <2>3, <2>4 DEF IInv
<1> QED BY <1>1, <1>2, <1>3, KeepaliveStep, StopStep DEF Next

\* The invariant is inductive, so it holds of every behaviour.
THEOREM Invariance == Spec => []IInv
<1>1. Init => IInv
  BY InitIInv
<1>2. IInv /\ [Next]_vars => IInv'
  BY NextIInv
<1> QED BY <1>1, <1>2, PTL DEF Spec

\* The variables of the manager always have their types; the unchecked
\* decrements of req_count (tunnel.rs:148 and :324) never underflow.
THEOREM TypeCorrect == Spec => []TypeOK
<1>1. IInv => TypeOK
  BY DEF IInv
<1> QED BY <1>1, Invariance, PTL

\* The panic of on_tunnel_created (tunmgr.rs:111) is never met and no index is
\* lost to reconnection.
THEOREM OwnersCorrect == Spec => []OneOwner
<1>1. IInv => OneOwner
  BY DEF IInv
<1> QED BY <1>1, Invariance, PTL

\* No slot is freed twice and req_count is exact, for every capacity and
\* across the wrap-around of the tags (reqq.rs:46).
THEOREM AccountingCorrect == Spec => []SlotAccounting
<1>1. IInv => SlotAccounting
  BY DEF IInv
<1> QED BY <1>1, Invariance, PTL

\* No slot leaks: whoever occupies one still runs and will free it.
THEOREM NoSlotLeaks == Spec => []SlotOwned
<1>1. IInv => SlotOwned
  BY DEF IInv
<1> QED BY <1>1, Invariance, PTL

-----------------------------------------------------------------------------
(***************************************************************************)
(* The manager implements a Pool.  Under the invariant the place of an     *)
(* index follows from building, live and discarded alone, so that every    *)
(* step can be read off its effect on these.                               *)
(***************************************************************************)

\* An index is in reconnect_queue at most once.
LEMMA QueuedOnce ==
    ASSUME TypeOK, OneOwner, NEW i \in Tun
    PROVE  /\ Cardinality(Queued(i)) \in {0, 1}
           /\ Cardinality(Queued(i)) = 0 <=> Queued(i) = {}
<1>1. CASE Queued(i) = {}
  BY <1>1, FS_EmptySet
<1>2. CASE Queued(i) # {}
  <2>1. PICK k \in Queued(i) : TRUE
    BY <1>2
  <2>2. Queued(i) = {k}
    BY <2>1 DEF Queued, OneOwner
  <2> QED BY <1>2, <2>2, FS_Singleton
<1> QED BY <1>1, <1>2

\* Where an index is, when it has one owner.
Place(i) == IF building[i] = 1 THEN "attempt"
            ELSE IF live[i] THEN "up"
            ELSE IF discarded THEN "gone" ELSE "waiting"

LEMMA PlaceLemma ==
    ASSUME TypeOK, OneOwner, NEW i \in Tun
    PROVE  PoolPlace(i) = Place(i)
<1>1. /\ building[i] \in {0, 1} /\ live[i] \in BOOLEAN
      /\ ~(live[i] /\ building[i] = 1)
  <2>1. building[i] \in Nat /\ building[i] <= 1
    BY DEF TypeOK, OneOwner
  <2>2. live[i] \in BOOLEAN /\ ~(live[i] /\ building[i] = 1)
    BY DEF TypeOK, OneOwner
  <2> QED BY <2>1, <2>2
<1>2. Queued(i) # {} => ~live[i] /\ building[i] = 0
  BY DEF Queued, OneOwner
<1>3. ~discarded => live[i] \/ building[i] = 1 \/ Queued(i) # {}
  BY DEF Queued, OneOwner
<1>4. ~(building[i] > 1) /\ ~(Cardinality(Queued(i)) > 1)
  BY <1>1, QueuedOnce
<1>5. /\ "attempt" \in Owners(i) <=> building[i] = 1
      /\ "up" \in Owners(i) <=> live[i]
      /\ "waiting" \in Owners(i) <=> Queued(i) # {} /\ ~discarded
      /\ Owners(i) \subseteq {"attempt", "up", "waiting"}
  BY <1>1 DEF Owners
<1>6. ASSUME NEW o, Owners(i) = {o}
      PROVE  PoolPlace(i) = o
  <2>1. ~(Cardinality(Owners(i)) > 1) /\ Owners(i) # {}
    <3>1. Cardinality({o}) = 1 /\ {o} # {}
      BY FS_Singleton
    <3> QED BY <1>6, <3>1
  <2>2. PoolPlace(i) = CHOOSE p \in Owners(i) : TRUE
    BY <1>4, <2>1 DEF PoolPlace
  <2> QED BY <1>6, <2>2
<1>7. CASE building[i] = 1
  <2>1. Owners(i) = {"attempt"}
    BY <1>1, <1>2, <1>5, <1>7
  <2> QED BY <1>6, <1>7, <2>1 DEF Place
<1>8. CASE live[i]
  <2>1. Owners(i) = {"up"}
    BY <1>1, <1>2, <1>5, <1>8
  <2> QED BY <1>1, <1>6, <1>8, <2>1 DEF Place
<1>9. CASE building[i] = 0 /\ ~live[i] /\ ~discarded
  <2>1. Owners(i) = {"waiting"}
    BY <1>3, <1>5, <1>9
  <2> QED BY <1>6, <1>9, <2>1 DEF Place
<1>10. CASE building[i] = 0 /\ ~live[i] /\ discarded
  <2>1. Owners(i) = {}
    BY <1>5, <1>10
  <2> QED BY <1>10, <2>1 DEF Place, PoolPlace
<1> QED BY <1>1, <1>7, <1>8, <1>9, <1>10

\* The refinement mapping, before and after a step.
PlaceWhere == [i \in Tun |-> Place(i)]

LEMMA WhereLemma == IInv => PoolWhere = PlaceWhere
  BY PlaceLemma DEF IInv, PoolWhere, PlaceWhere

LEMMA WhereStep ==
    ASSUME IInv, IInv'
    PROVE  PoolWhere = PlaceWhere /\ PoolWhere' = PlaceWhere'
<1>1. (IInv => PoolWhere = PlaceWhere)'
  BY WhereLemma, PTL
<1> QED BY <1>1, WhereLemma

\* A step that moves at most the owner of index i.
LEMMA PlaceMoves ==
    ASSUME IInv, IInv', NEW i \in Tun, discarded' = discarded,
           \A j \in Tun : j # i => building'[j] = building[j] /\ live'[j] = live[j]
    PROVE  PoolWhere' = [PoolWhere EXCEPT ![i] = Place(i)']
<1>1. PoolWhere = PlaceWhere /\ PoolWhere' = PlaceWhere'
  BY WhereStep
<1>2. \A j \in Tun : j # i => Place(j)' = Place(j)
  BY DEF Place
<1> QED BY <1>1, <1>2 DEF PlaceWhere

\* Every step of the manager is a step of the Pool: what a handler does to the
\* owner of an index is what the Pool does to its place.
LEMMA PoolStep ==
    ASSUME IInv, IInv', [Next]_vars
    PROVE  [P!Next]_(P!vars)
<1>1. /\ PoolWhere = PlaceWhere /\ PoolWhere' = PlaceWhere'
      /\ building \in [Tun -> Nat] /\ live \in [Tun -> BOOLEAN]
      /\ \A i \in Tun : PoolWhere[i] = Place(i)
  BY WhereStep DEF IInv, TypeOK, PlaceWhere
<1>2. \A i \in Tun : building[i] > 0 => building[i] = 1 /\ ~live[i]
  BY <1>1 DEF IInv, OneOwner
<1>3. ASSUME NEW i \in Tun, on_tunnel_created(i) \/ on_tunnel_build_error(i)
      PROVE  P!AttemptEnds(i)
  <2>1. /\ building[i] = 1 /\ building' = [building EXCEPT ![i] = 0] /\ discarded' = discarded
        /\ \/ live' = live
           \/ ~discarded /\ live' = [live EXCEPT ![i] = TRUE]
    BY <1>1, <1>2, <1>3 DEF on_tunnel_created, on_tunnel_build_error, mgrVars
  <2>2. PoolWhere' = [PoolWhere EXCEPT ![i] = Place(i)']
    BY <1>1, <2>1, PlaceMoves
  <2>3. Place(i) = "attempt"
    BY <2>1 DEF Place
  <2>4. \/ Place(i)' = IF discarded THEN "gone" ELSE "waiting"
        \/ ~discarded /\ Place(i)' = "up"
    BY <1>1, <1>2, <2>1 DEF Place
  <2> QED BY <1>1, <2>1, <2>2, <2>3, <2>4 DEF P!AttemptEnds, P!Rest
<1>4. ASSUME NEW i \in Tun, on_tunnel_closed(i)
      PROVE  P!Lose(i)
  <2>1. /\ live[i] /\ live' = [live EXCEPT ![i] = FALSE] /\ UNCHANGED << building, discarded >>
    BY <1>4 DEF on_tunnel_closed
  <2>2. PoolWhere' = [PoolWhere EXCEPT ![i] = Place(i)']
    BY <1>1, <2>1, PlaceMoves
  <2>3. Place(i) = "up" /\ Place(i)' = IF discarded THEN "gone" ELSE "waiting"
    BY <1>1, <1>2, <2>1 DEF Place
  <2> QED BY <1>1, <2>1, <2>2, <2>3 DEF P!Lose, P!Rest
<1>5. CASE keepalive
  <2>1. ~discarded /\ UNCHANGED << discarded, live >>
    BY <1>5 DEF keepalive
  <2>2. \A i \in Tun : Place(i)' = IF Place(i) = "waiting" THEN "attempt" ELSE Place(i)
    <3>1. TAKE i \in Tun
    <3>2. building'[i] = building[i] + Cardinality(Queued(i))
      BY <1>5 DEF keepalive, process_reconnect
    <3>3. Queued(i) # {} <=> ~live[i] /\ building[i] # 1
      BY <1>1, <2>1 DEF IInv, OneOwner, Queued
    <3>4. Cardinality(Queued(i)) \in {0, 1} /\ (Cardinality(Queued(i)) = 0 <=> Queued(i) = {})
      BY QueuedOnce DEF IInv
    <3>5. building[i] \in {0, 1} /\ live[i] \in BOOLEAN
      BY <1>1, <1>2
    <3>6. CASE live[i] \/ building[i] = 1
      BY <1>2, <2>1, <3>2, <3>3, <3>4, <3>5, <3>6 DEF Place
    <3>7. CASE ~(live[i] \/ building[i] = 1)
      BY <2>1, <3>2, <3>3, <3>4, <3>5, <3>7 DEF Place
    <3> QED BY <3>6, <3>7
  <2>3. P!Retry
    BY <1>1, <2>1, <2>2 DEF P!Retry, PlaceWhere
  <2> QED BY <2>3 DEF P!Next
<1>6. CASE stop
  <2>1. ~discarded /\ discarded' = TRUE /\ UNCHANGED << building, live >>
    BY <1>6 DEF stop
  <2>2. \A i \in Tun : Place(i)' = IF Place(i) = "waiting" THEN "gone" ELSE Place(i)
    BY <2>1 DEF Place
  <2>3. PoolWhere' = [i \in Tun |-> IF PoolWhere[i] = "waiting" \/ i \in {}
                                      THEN "gone" ELSE PoolWhere[i]]
    BY <1>1, <2>2 DEF PlaceWhere
  <2>4. \E dead \in SUBSET {i \in Tun : PoolWhere[i] = "up"} :
          PoolWhere' = [i \in Tun |-> IF PoolWhere[i] = "waiting" \/ i \in dead
                                        THEN "gone" ELSE PoolWhere[i]]
    <3> WITNESS {} \in SUBSET {i \in Tun : PoolWhere[i] = "up"}
    <3> QED BY <2>3
  <2>5. P!Stop
    BY <2>1, <2>4 DEF P!Stop
  <2> QED BY <2>5 DEF P!Next
<1>7. ASSUME UNCHANGED << building, live, discarded >>
      PROVE  UNCHANGED P!vars
  BY <1>1, <1>7 DEF P!vars, PlaceWhere, Place
<1>8. ASSUME NEW i \in Tun, TunnelNext(i)
      PROVE  [P!Next]_(P!vars)
  <2>1. CASE on_pong(i) \/ \E s \in Slot, t \in Echoed :
                              on_server_finished(i, s, t) \/ on_server_closed(i, s, t)
    <3>1. UNCHANGED << building, live, discarded >>
      BY <2>1 DEF on_pong, on_server_finished, on_server_closed, mgrVars, tunVars
    <3> QED BY <1>7, <3>1
  <2> QED BY <1>3, <1>4, <1>8, <2>1 DEF TunnelNext, P!Next
<1>9. ASSUME NEW r \in Req, RequestNext(r)
      PROVE  [P!Next]_(P!vars)
  <2>1. UNCHANGED << building, live, discarded >>
    BY <1>9 DEF RequestNext, on_request_created, SendDrained, SendFails, ReceiveTripped,
                ReceiveFinished, SendEnds, ReceiveEnds, EndHalf, mgrVars, tunVars
  <2> QED BY <1>7, <2>1
<1>10. CASE UNCHANGED vars
  BY <1>7, <1>10 DEF vars, mgrVars, tunVars
<1> QED BY <1>5, <1>6, <1>8, <1>9, <1>10 DEF Next

\* The manager implements a Pool: no index is lost to reconnection or
\* connected twice, a connection that was lost is tried again by the next
\* keep-alive and by nothing else, and a discarded manager takes no tunnel.
THEOREM PoolImplemented == Spec => ImplementsPool
<1>1. Init => P!Init
  <2> SUFFICES ASSUME Init PROVE P!Init
    OBVIOUS
  <2>1. PoolWhere = PlaceWhere
    BY InitIInv, WhereLemma
  <2>2. \A i \in Tun : Place(i) = "attempt"
    BY DEF Init, Place
  <2> QED BY <2>1, <2>2 DEF Init, P!Init, PlaceWhere
<1>2. IInv /\ IInv' /\ [Next]_vars => [P!Next]_(P!vars)
  BY PoolStep
<1> QED BY <1>1, <1>2, Invariance, PTL DEF Spec, P!Spec, ImplementsPool

-----------------------------------------------------------------------------
(***************************************************************************)
(* A request frees its own slot (OwnFree) as long as tags do not wrap      *)
(* around in the life of a tunnel.                                         *)
(***************************************************************************)

\* The types of the tags and of what names them, before and after a step.
TagsTyped ==
    /\ \A i \in Tun, s \in Slot : reqq[i].elements[s].tag \in Nat /\ reqq[i].elements[s].tag < TagMod
    /\ \A r \in Req : req[r].tun_idx \in Tun /\ req[r].req_idx \in Slot /\ req[r].req_tag \in Nat

LEMMA TagTypes == IInv => TagsTyped
<1> SUFFICES ASSUME IInv PROVE TagsTyped
  OBVIOUS
<1>1. \A t \in Tag : t \in Nat /\ t < TagMod
  BY ReqqAssumption DEF Tag
<1>2. ASSUME NEW i \in Tun, NEW s \in Slot
      PROVE  reqq[i].elements[s].tag \in Tag
  <2>1. reqq[i] \in Table
    BY DEF IInv, TypeOK
  <2>2. reqq[i].elements[s] \in Element
    BY <2>1 DEF Table
  <2> QED BY <2>2 DEF Element
<1>3. ASSUME NEW r \in Req
      PROVE  req[r].tun_idx \in Tun /\ req[r].req_idx \in Slot /\ req[r].req_tag \in Tag
  <2>1. req[r] \in Task
    BY DEF IInv, TypeOK
  <2> QED BY <2>1 DEF Task
<1> QED BY <1>1, <1>2, <1>3 DEF TagsTyped

\* A step that brings no tunnel up and hands out no stub: the tags of slots that
\* are freed advance, all others stay.
TagsAdvance ==
    /\ \A i \in Tun, s \in Slot :
         LET t == reqq[i].elements[s].tag
             u == reqq'[i].elements[s].tag
         IN  live'[i] => live[i] /\ (u = t \/ (t % 2 = 1 /\ u = bump(t)))
    /\ \A r \in Req : LiveStub(r)' =>
         /\ LiveStub(r) /\ live'[req[r].tun_idx]
         /\ req'[r].tun_idx = req[r].tun_idx /\ req'[r].req_idx = req[r].req_idx
         /\ req'[r].req_tag = req[r].req_tag

LEMMA TagsKept ==
    ASSUME IInv, IInv', TagsOrdered, TagsAdvance, TagBound + 2 <= TagMod
    PROVE  TagsOrdered'
<1>1. TagsTyped /\ TagsTyped' /\ TagBound \in Nat /\ TagMod \in Nat \ {0}
  <2>1. (IInv => TagsTyped)'
    BY TagTypes, PTL
  <2> QED BY <2>1, TagTypes, TunMgrAssumption, ReqqAssumption
<1>2. ASSUME NEW i \in Tun, NEW s \in Slot, live'[i]
      PROVE  /\ reqq'[i].elements[s].tag >= reqq[i].elements[s].tag
             /\ reqq'[i].elements[s].tag <= TagBound + 1
             /\ reqq'[i].elements[s].tag % 2 = 1 => reqq'[i].elements[s].tag <= TagBound
  <2> DEFINE t == reqq[i].elements[s].tag
             u == reqq'[i].elements[s].tag
  <2>1. t \in Nat /\ u \in Nat
    BY <1>1 DEF TagsTyped
  <2>2. /\ live[i] /\ t <= TagBound + 1 /\ (t % 2 = 1 => t <= TagBound)
        /\ u = t \/ (t % 2 = 1 /\ u = bump(t))
    BY <1>2 DEF TagsOrdered, TagsAdvance
  <2>3. u >= t /\ u <= TagBound + 1 /\ (u % 2 = 1 => u <= TagBound)
    <3> HIDE DEF t, u
    <3>1. CASE u = t
      BY <2>1, <2>2, <3>1
    <3>2. CASE t % 2 = 1 /\ u = bump(t)
      <4>1. t <= TagBound /\ u = t + 1
        BY <1>1, <2>1, <2>2, <3>2 DEF bump
      <4>2. u % 2 # 1
        BY <2>1, <3>2, <4>1
      <4> QED BY <1>1, <2>1, <4>1, <4>2
    <3> QED BY <2>2, <3>1, <3>2
  <2> QED BY <2>3
<1>3. ASSUME NEW r \in Req, LiveStub(r)'
      PROVE  live'[req'[r].tun_idx] /\ req'[r].req_tag <= SlotOf(r)'.tag
  <2>1. /\ LiveStub(r) /\ live'[req[r].tun_idx]
        /\ req'[r].tun_idx = req[r].tun_idx /\ req'[r].req_idx = req[r].req_idx
        /\ req'[r].req_tag = req[r].req_tag
    BY <1>3 DEF TagsAdvance
  <2> DEFINE t == reqq[req[r].tun_idx].elements[req[r].req_idx].tag
             u == reqq'[req[r].tun_idx].elements[req[r].req_idx].tag
  <2>2. req[r].req_tag <= t
    BY <2>1 DEF TagsOrdered, SlotOf
  <2>3. req[r].tun_idx \in Tun /\ req[r].req_idx \in Slot /\ req[r].req_tag \in Nat
    BY <1>1 DEF TagsTyped
  <2>4. t \in Nat /\ u \in Nat
    BY <1>1, <2>3 DEF TagsTyped
  <2>5. t <= u
    BY <1>2, <2>1, <2>3, <2>4
  <2>6. SlotOf(r)'.tag = u
    BY <2>1 DEF SlotOf
  <2> HIDE DEF t, u
  <2> QED BY <2>1, <2>2, <2>3, <2>4, <2>5, <2>6
<1>4. ASSUME NEW r \in Req, NEW u \in Req, LiveStub(r)', LiveStub(u)',
             req'[r].tun_idx = req'[u].tun_idx, req'[r].req_idx = req'[u].req_idx,
             req'[r].req_tag = req'[u].req_tag
      PROVE  r = u
  BY <1>4 DEF TagsOrdered, TagsAdvance
<1> QED BY <1>2, <1>3, <1>4 DEF TagsOrdered

\* A stub is only worth something while its tunnel is up, so none names the slots
\* of the tunnel that on_tunnel_created brings up.
LEMMA TagsCreated ==
    ASSUME IInv, IInv', TagsOrdered, TagBound + 2 <= TagMod,
           NEW i \in Tun, on_tunnel_created(i)
    PROVE  TagsOrdered'
<1>1. CASE discarded
  <2>1. UNCHANGED << live, reqq, req >>
    BY <1>1 DEF on_tunnel_created, slotVars
  <2>2. TagsAdvance
    BY <2>1 DEF TagsAdvance, LiveStub, Open, TagsOrdered
  <2> QED BY <2>2, TagsKept
<1>2. CASE ~discarded
  <2>1. /\ ~live[i] /\ live' = [live EXCEPT ![i] = TRUE]
        /\ reqq' = [reqq EXCEPT ![i] = new] /\ req' = req
        /\ live \in [Tun -> BOOLEAN] /\ reqq \in [Tun -> Table]
    BY <1>2 DEF on_tunnel_created, IInv, TypeOK
  <2>2. \A s \in Slot : reqq'[i].elements[s].tag = 0
    BY <2>1 DEF new
  <2>3. \A j \in Tun : j # i => reqq'[j] = reqq[j] /\ (live'[j] <=> live[j])
    BY <2>1
  <2>4. ASSUME NEW j \in Tun, NEW s \in Slot, live'[j]
        PROVE  LET t == reqq'[j].elements[s].tag
               IN  t <= TagBound + 1 /\ (t % 2 = 1 => t <= TagBound)
    <3>1. CASE j = i
      BY <2>2, <3>1, TunMgrAssumption
    <3>2. CASE j # i
      BY <2>3, <2>4, <3>2 DEF TagsOrdered
    <3> QED BY <3>1, <3>2
  <2>5. \A r \in Req : LiveStub(r)' => /\ LiveStub(r) /\ req[r].tun_idx # i
                                       /\ req[r].tun_idx \in Tun
    <3>1. TagsTyped
      BY TagTypes
    <3> QED BY <2>1, <3>1 DEF TagsOrdered, TagsTyped, LiveStub, Open
  <2>6. ASSUME NEW r \in Req, LiveStub(r)'
        PROVE  live'[req'[r].tun_idx] /\ req'[r].req_tag <= SlotOf(r)'.tag
    BY <2>1, <2>3, <2>5, <2>6 DEF TagsOrdered, SlotOf
  <2>7. ASSUME NEW r \in Req, NEW u \in Req, LiveStub(r)', LiveStub(u)',
               req'[r].tun_idx = req'[u].tun_idx, req'[r].req_idx = req'[u].req_idx,
               req'[r].req_tag = req'[u].req_tag
        PROVE  r = u
    BY <2>1, <2>5, <2>7 DEF TagsOrdered
  <2> QED BY <2>4, <2>6, <2>7 DEF TagsOrdered
<1> QED BY <1>1, <1>2

\* on_request_created hands out a tag above all those that stubs of the slot hold.
LEMMA TagsGiven ==
    ASSUME IInv, IInv', TagsOrdered, TagBound + 2 <= TagMod,
           NEW r \in Req, on_request_created(r)
    PROVE  TagsOrdered'
<1>1. PICK n \in alloc_tunnel_for_req :
        LET i == sorted_tun_indies[n]
            q == reqq[i]
        IN  /\ Len(q.free) > 0
            /\ q.elements[alloc_idx(q)].tag < TagBound
            /\ reqq' = [reqq EXCEPT ![i] = alloc(q, r)]
            /\ req' = [req EXCEPT ![r] =
                         [tun_idx |-> i, req_idx |-> alloc_idx(q),
                          req_tag |-> alloc_tag(q), tunnel_tx |-> TRUE,
                          sending |-> TRUE, receiving |-> TRUE]]
  BY DEF on_request_created
<1> DEFINE i == sorted_tun_indies[n]
           q == reqq[i]
           s == alloc_idx(q)
           t == q.elements[s].tag
<1>2. n \in Tun /\ i \in Tun /\ live[i]
  <2>1. n \in current_tun_idx .. TunCount - 1 \/ n \in 0 .. current_tun_idx - 1
    BY DEF alloc_tunnel_for_req, FirstUsable
  <2>2. current_tun_idx \in Tun /\ sorted_tun_indies \in [Tun -> Tun]
    BY DEF IInv, TypeOK, Orders
  <2>3. n \in Tun
    BY <2>1, <2>2, TunMgrAssumption DEF Tun
  <2> QED BY <2>2, <2>3 DEF alloc_tunnel_for_req, FirstUsable, Usable
<1>3. /\ live' = live /\ live \in [Tun -> BOOLEAN] /\ reqq \in [Tun -> Table]
      /\ req \in [Req -> Task] /\ q \in Table
  BY <1>2 DEF on_request_created, tunVars, IInv, TypeOK
<1>4. s \in Slot /\ alloc_tag(q) % 2 = 1
  <2>1. Accounted(q, req_count[i])
    BY <1>2 DEF IInv, SlotAccounting
  <2> HIDE DEF i, q, s
  <2> QED BY <1>1, <1>3, <2>1, AllocAccounted DEF i, q, s
<1>5. t \in Nat /\ t < TagBound /\ alloc_tag(q) = t + 1
  <2>1. t \in Nat
    BY <1>2, <1>4, TagTypes DEF TagsTyped
  <2>2. t < TagBound
    BY <1>1
  <2>3. alloc_tag(q) = bump(t)
    BY DEF alloc_tag
  <2> HIDE DEF t
  <2> QED BY <2>1, <2>2, <2>3, TunMgrAssumption, ReqqAssumption DEF bump
<1>6. /\ reqq'[i].elements[s].tag = t + 1
      /\ \A j \in Tun, x \in Slot : ~(j = i /\ x = s)
           => reqq'[j].elements[x] = reqq[j].elements[x]
  <2>1. reqq' = [reqq EXCEPT ![i] = alloc(q, r)] /\ q.elements \in [Slot -> Element]
    BY <1>1, <1>3 DEF Table
  <2>2. alloc(q, r).elements = [q.elements EXCEPT ![s] =
                                  [tag |-> t + 1, request_tx |-> r, trigger |-> r]]
    BY <1>5 DEF alloc
  <2> HIDE DEF i, s, t
  <2> QED BY <1>2, <1>3, <1>4, <2>1, <2>2
<1>7. /\ req'[r].tun_idx = i /\ req'[r].req_idx = s /\ req'[r].req_tag = t + 1
      /\ \A u \in Req : u # r => req'[u] = req[u]
  <2> HIDE DEF i, s, t
  <2> QED BY <1>1, <1>3, <1>5 DEF i, s
<1> HIDE DEF i, q, s, t
<1>8. ASSUME NEW u \in Req, u # r, LiveStub(u)'
      PROVE  /\ LiveStub(u) /\ req'[u] = req[u] /\ live[req[u].tun_idx]
             /\ req[u].tun_idx \in Tun /\ req[u].req_idx \in Slot /\ req[u].req_tag \in Nat
             /\ req[u].req_tag <= SlotOf(u).tag
  BY <1>7, <1>8, TagTypes DEF LiveStub, Open, TagsTyped, TagsOrdered
<1>9. ASSUME NEW u \in Req, u # r, LiveStub(u)',
             req[u].tun_idx = i, req[u].req_idx = s
      PROVE  req[u].req_tag <= t
  BY <1>8, <1>9 DEF SlotOf, i, q, s, t
<1>10. ASSUME NEW j \in Tun, NEW x \in Slot, live'[j]
       PROVE  LET y == reqq'[j].elements[x].tag
              IN  y <= TagBound + 1 /\ (y % 2 = 1 => y <= TagBound)
  <2>1. CASE j = i /\ x = s
    BY <1>5, <1>6, <2>1, TunMgrAssumption
  <2>2. CASE ~(j = i /\ x = s)
    BY <1>3, <1>6, <1>10, <2>2 DEF TagsOrdered
  <2> QED BY <2>1, <2>2
<1>11. ASSUME NEW u \in Req, LiveStub(u)'
       PROVE  live'[req'[u].tun_idx] /\ req'[u].req_tag <= SlotOf(u)'.tag
  <2>1. CASE u = r
    BY <1>2, <1>3, <1>5, <1>6, <1>7, <2>1 DEF SlotOf
  <2>2. CASE u # r
    <3>1. CASE req[u].tun_idx = i /\ req[u].req_idx = s
      <4>1. req[u].req_tag <= t /\ req[u].req_tag \in Nat /\ req'[u] = req[u]
        BY <1>8, <1>9, <1>11, <2>2, <3>1
      <4>2. SlotOf(u)'.tag = t + 1
        BY <1>6, <3>1, <4>1 DEF SlotOf
      <4> QED BY <1>2, <1>3, <1>5, <3>1, <4>1, <4>2
    <3>2. CASE ~(req[u].tun_idx = i /\ req[u].req_idx = s)
      <4>1. SlotOf(u)' = SlotOf(u)
        BY <1>6, <1>8, <1>11, <2>2, <3>2 DEF SlotOf
      <4> QED BY <1>3, <1>8, <1>11, <2>2, <4>1
    <3> QED BY <3>1, <3>2
  <2> QED BY <2>1, <2>2
<1>12. ASSUME NEW u \in Req, NEW v \in Req, LiveStub(u)', LiveStub(v)',
              req'[u].tun_idx = req'[v].tun_idx, req'[u].req_idx = req'[v].req_idx,
              req'[u].req_tag = req'[v].req_tag
       PROVE  u = v
  <2>1. ASSUME NEW w \in Req, w # r, LiveStub(w)', req'[w].tun_idx = i, req'[w].req_idx = s
        PROVE  req'[w].req_tag # t + 1
    <3>1. req[w].req_tag <= t /\ req[w].req_tag \in Nat /\ req'[w] = req[w]
      BY <1>8, <1>9, <2>1
    <3> QED BY <1>5, <3>1
  <2>2. u # r /\ v # r => u = v
    BY <1>8, <1>12 DEF TagsOrdered
  <2> QED BY <1>7, <1>12, <2>1, <2>2
<1> QED BY <1>10, <1>11, <1>12 DEF TagsOrdered

\* A slot that a free cleans had an odd tag, because the stub's is odd.
LEMMA TagsFreed ==
    ASSUME IInv, NEW i \in Tun, NEW s \in Slot, NEW t, t % 2 = 1,
           free_ok(reqq[i], s, t),
           reqq' = [reqq EXCEPT ![i] = free(reqq[i], s, t)]
    PROVE  \A j \in Tun, x \in Slot :
             LET y == reqq[j].elements[x].tag
                 z == reqq'[j].elements[x].tag
             IN  z = y \/ (y % 2 = 1 /\ z = bump(y))
<1>1. reqq \in [Tun -> Table] /\ reqq[i].elements \in [Slot -> Element]
  BY DEF IInv, TypeOK, Table
<1>2. reqq'[i].elements = [reqq[i].elements EXCEPT ![s] = clean_req(reqq[i].elements[s])]
  BY <1>1 DEF free
<1>3. \A j \in Tun : j # i => reqq'[j] = reqq[j]
  BY <1>1
<1>4. reqq[i].elements[s].tag = t /\ reqq'[i].elements[s].tag = bump(t)
  BY <1>1, <1>2 DEF clean_req, free_ok
<1> QED BY <1>1, <1>2, <1>3, <1>4

\* The other steps of tunnels: none hands out a stub.
LEMMA TagsTunnel ==
    ASSUME IInv, IInv', TagsOrdered, TagBound + 2 <= TagMod,
           NEW i \in Tun, TunnelNext(i)
    PROVE  TagsOrdered'
<1>1. CASE on_tunnel_created(i)
  BY <1>1, TagsCreated
<1>2. CASE on_tunnel_build_error(i) \/ on_pong(i)
  <2>1. UNCHANGED << live, reqq, req >>
    BY <1>2 DEF on_tunnel_build_error, on_pong, slotVars
  <2>2. TagsAdvance
    BY <2>1 DEF TagsAdvance, LiveStub, Open, TagsOrdered
  <2> QED BY <2>2, TagsKept
<1>3. CASE on_tunnel_closed(i)
  <2>1. /\ live' = [live EXCEPT ![i] = FALSE]
        /\ reqq' = [reqq EXCEPT ![i] = clear_all(reqq[i])]
        /\ req' = [r \in Req |-> IF Open(r) /\ req[r].tun_idx = i
                                   THEN [req[r] EXCEPT !.tunnel_tx = FALSE]
                                   ELSE req[r]]
        /\ live \in [Tun -> BOOLEAN] /\ reqq \in [Tun -> Table] /\ req \in [Req -> Task]
    BY <1>3 DEF on_tunnel_closed, IInv, TypeOK
  <2>2. \A j \in Tun : live'[j] => j # i /\ live[j] /\ reqq'[j] = reqq[j]
    BY <2>1
  <2>3. ASSUME NEW r \in Req, LiveStub(r)'
        PROVE  req'[r] = req[r] /\ req[r].tun_idx # i /\ LiveStub(r)
    <3>1. CASE Open(r) /\ req[r].tun_idx = i
      <4>1. req'[r].tunnel_tx = FALSE
        BY <2>1, <3>1 DEF Task
      <4> QED BY <2>3, <4>1 DEF LiveStub
    <3>2. CASE ~(Open(r) /\ req[r].tun_idx = i)
      <4>1. req'[r] = req[r]
        BY <2>1, <3>2
      <4> QED BY <2>3, <3>2, <4>1 DEF LiveStub, Open
    <3> QED BY <3>1, <3>2
  <2>4. \A r \in Req : LiveStub(r) => live[req[r].tun_idx] /\ req[r].tun_idx \in Tun
    BY TagTypes DEF TagsOrdered, TagsTyped
  <2>5. TagsAdvance
    BY <2>1, <2>2, <2>3, <2>4 DEF TagsAdvance
  <2> QED BY <2>5, TagsKept
<1>4. ASSUME NEW s \in Slot, NEW t \in Echoed, on_server_finished(i, s, t)
      PROVE  TagsOrdered'
  <2>1. /\ UNCHANGED << live, req >> /\ reqq \in [Tun -> Table]
        /\ reqq' = [reqq EXCEPT ![i].elements[s].request_tx = NoReq]
    BY <1>4 DEF on_server_finished, tunVars, IInv, TypeOK
  <2>2. \A j \in Tun, x \in Slot : reqq'[j].elements[x].tag = reqq[j].elements[x].tag
    BY <2>1 DEF Table, Element
  <2>3. TagsAdvance
    BY <2>1, <2>2 DEF TagsAdvance, LiveStub, Open, TagsOrdered
  <2> QED BY <2>3, TagsKept
<1>5. ASSUME NEW s \in Slot, NEW t \in Echoed, on_server_closed(i, s, t)
      PROVE  TagsOrdered'
  <2>1. /\ UNCHANGED << live, req >> /\ t % 2 = 1 /\ free_ok(reqq[i], s, t)
        /\ reqq' = [reqq EXCEPT ![i] = free(reqq[i], s, t)]
    BY <1>5 DEF on_server_closed, tunVars, Echoed
  <2>2. \A j \in Tun, x \in Slot :
          LET y == reqq[j].elements[x].tag
              z == reqq'[j].elements[x].tag
          IN  z = y \/ (y % 2 = 1 /\ z = bump(y))
    BY <2>1, TagsFreed
  <2>3. TagsAdvance
    BY <2>1, <2>2 DEF TagsAdvance, LiveStub, Open, TagsOrdered
  <2> QED BY <2>3, TagsKept
<1> QED BY <1>1, <1>2, <1>3, <1>4, <1>5 DEF TunnelNext

\* A future of a request task ends.
LEMMA TagsEndHalf ==
    ASSUME IInv, IInv', TagsOrdered, TagBound + 2 <= TagMod,
           NEW r \in Req, Open(r), NEW task \in Task,
           task.tun_idx = req[r].tun_idx, task.req_idx = req[r].req_idx,
           task.req_tag = req[r].req_tag, task.tunnel_tx = req[r].tunnel_tx,
           EndHalf(r, task)
    PROVE  TagsOrdered'
<1>1. live' = live /\ req \in [Req -> Task] /\ reqq \in [Tun -> Table]
  BY DEF EndHalf, tunVars, IInv, TypeOK
<1>2. \A u \in Req : LiveStub(u)' =>
        /\ LiveStub(u)
        /\ req'[u].tun_idx = req[u].tun_idx /\ req'[u].req_idx = req[u].req_idx
        /\ req'[u].req_tag = req[u].req_tag
  <2>1. CASE req' = [req EXCEPT ![r] = task]
    BY <1>1, <2>1 DEF LiveStub, Open
  <2>2. CASE req' = [req EXCEPT ![r] = Idle]
    <3>1. ~LiveStub(r)'
      BY <1>1, <2>2 DEF LiveStub, Open, Idle
    <3> QED BY <1>1, <2>2, <3>1 DEF LiveStub, Open
  <2> QED BY <2>1, <2>2 DEF EndHalf
<1>3. \A j \in Tun, x \in Slot :
        LET y == reqq[j].elements[x].tag
            z == reqq'[j].elements[x].tag
        IN  z = y \/ (y % 2 = 1 /\ z = bump(y))
  <2>1. CASE reqq' = reqq
    BY <2>1
  <2>2. CASE reqq' # reqq
    <3>1. /\ Frees(r)
          /\ reqq' = [reqq EXCEPT ![req[r].tun_idx] =
                        free(reqq[req[r].tun_idx], req[r].req_idx, req[r].req_tag)]
      BY <2>2 DEF EndHalf, on_request_closed, slotVars
    <3>2. /\ req[r].tun_idx \in Tun /\ req[r].req_idx \in Slot /\ req[r].req_tag % 2 = 1
      BY TagTypes DEF TagsTyped, IInv, StubTags
    <3> QED BY <3>1, <3>2, TagsFreed DEF Frees
  <2> QED BY <2>1, <2>2
<1>4. TagsAdvance
  BY <1>1, <1>2, <1>3 DEF TagsAdvance, TagsOrdered
<1> QED BY <1>4, TagsKept

\* Every step keeps the order of tags.
LEMMA TagsStep ==
    ASSUME IInv, IInv', TagsOrdered, TagBound + 2 <= TagMod, [Next]_vars
    PROVE  TagsOrdered'
<1>1. ASSUME NEW r \in Req, RequestNext(r) PROVE TagsOrdered'
  <2>1. CASE on_request_created(r)
    BY <2>1, TagsGiven
  <2>2. req[r] \in Task
    BY DEF IInv, TypeOK
  <2>3. CASE SendDrained(r) \/ SendFails(r)
    <3> DEFINE task == [req[r] EXCEPT !.sending = FALSE]
    <3>1. /\ task \in Task /\ task.tun_idx = req[r].tun_idx
          /\ task.req_idx = req[r].req_idx /\ task.req_tag = req[r].req_tag
          /\ task.tunnel_tx = req[r].tunnel_tx
      BY <2>2 DEF Task
    <3>2. Open(r) /\ EndHalf(r, task)
      BY <2>3 DEF SendDrained, SendFails, SendEnds, Open
    <3> HIDE DEF task
    <3> QED BY <3>1, <3>2, TagsEndHalf
  <2>4. CASE ReceiveTripped(r) \/ ReceiveFinished(r)
    <3> DEFINE task == [req[r] EXCEPT !.receiving = FALSE]
    <3>1. /\ task \in Task /\ task.tun_idx = req[r].tun_idx
          /\ task.req_idx = req[r].req_idx /\ task.req_tag = req[r].req_tag
          /\ task.tunnel_tx = req[r].tunnel_tx
      BY <2>2 DEF Task
    <3>2. Open(r) /\ EndHalf(r, task)
      BY <2>4 DEF ReceiveTripped, ReceiveFinished, ReceiveEnds, Open
    <3> HIDE DEF task
    <3> QED BY <3>1, <3>2, TagsEndHalf
  <2> QED BY <1>1, <2>1, <2>3, <2>4 DEF RequestNext
<1>2. CASE keepalive \/ stop \/ UNCHANGED vars
  <2>1. UNCHANGED << live, reqq, req >>
    BY <1>2 DEF keepalive, stop, vars, tunVars, slotVars
  <2>2. TagsAdvance
    BY <2>1 DEF TagsAdvance, LiveStub, Open, TagsOrdered
  <2> QED BY <2>2, TagsKept
<1> QED BY <1>1, <1>2, TagsTunnel DEF Next

\* Who closes over the tunnel it was created on, and finds its tag in its slot,
\* is the one who occupies the slot: the occupant has the same slot and tag.
LEMMA ClosesOwn ==
    ASSUME IInv, TagsOrdered, NEW r \in Req, Closes(r), req[r].tunnel_tx
    PROVE  SlotOf(r).trigger = r
<1> DEFINE i == req[r].tun_idx
           s == req[r].req_idx
           u == reqq[i].elements[s].trigger
<1>1. /\ LiveStub(r) /\ live[i] /\ i \in Tun /\ s \in Slot
      /\ reqq[i].elements[s].tag = req[r].req_tag /\ req[r].req_tag % 2 = 1
  BY TagTypes DEF Closes, Frees, free_ok, LiveStub, TagsTyped, IInv, StubTags
<1>2. u # NoReq
  BY <1>1 DEF IInv, SlotAccounting, Accounted
<1>3. u \in Req
  <2>1. reqq[i] \in Table
    BY <1>1 DEF IInv, TypeOK
  <2>2. reqq[i].elements[s] \in Element
    BY <1>1, <2>1 DEF Table
  <2> QED BY <1>2, <2>2 DEF Element
<1>4. /\ LiveStub(u) /\ req[u].tun_idx = i /\ req[u].req_idx = s
      /\ req[u].req_tag = req[r].req_tag
  <2>1. SlotOwned /\ live[i] /\ i \in Tun /\ s \in Slot
    BY <1>1 DEF IInv
  <2>2. /\ Open(u) /\ req[u].tun_idx = i /\ req[u].req_idx = s
        /\ req[u].req_tag = reqq[i].elements[s].tag /\ req[u].tunnel_tx
    <3> HIDE DEF i, s
    <3> QED BY <1>2, <2>1 DEF SlotOwned, Open
  <2> HIDE DEF u, i, s
  <2> QED BY <1>1, <2>2 DEF LiveStub
<1>5. u = r
  <2> HIDE DEF u
  <2> QED BY <1>1, <1>3, <1>4 DEF TagsOrdered
<1> QED BY <1>5 DEF SlotOf

\* A request that closes frees its own slot, never that of a later request which
\* was given the same slot (tunmgr.rs:204, tunnel.rs:314), as long as the tags
\* of a slot do not wrap around in the life of a tunnel.
THEOREM OwnSlotFreed ==
    ASSUME TagBound + 2 <= TagMod
    PROVE  Spec => OwnFree
<1>1. Init => TagsOrdered
  BY DEF Init, TagsOrdered, LiveStub, Open, Idle
<1>2. IInv /\ IInv' /\ TagsOrdered /\ [Next]_vars => TagsOrdered'
  BY TagsStep
<1>3. IInv /\ TagsOrdered /\ [Next]_vars
        => [\A r \in Req : Closes(r) /\ req[r].tunnel_tx => SlotOf(r).trigger = r]_vars
  BY ClosesOwn
<1> QED BY <1>1, <1>2, <1>3, Invariance, PTL DEF Spec, OwnFree

-----------------------------------------------------------------------------
(***************************************************************************)
(* A request is refused only if every live tunnel is full (UsableIsFound). *)
(***************************************************************************)

\* A non-empty set of naturals has a least element.  (`less than' as a set of
\* pairs, so that WFMin applies.)
Less == {ss \in Nat \X Nat : ss[1] < ss[2]}

LEMMA Least ==
    ASSUME NEW S \in SUBSET Nat, S # {}
    PROVE  \E x \in S : \A y \in S : x <= y
<1>1. IsWellFoundedOn(Less, Nat)
  BY NatLessThanWellFounded DEF OpToRel, Less
<1>2. PICK x \in S : \A y \in S : ~(<< y, x >> \in Less)
  BY <1>1, WFMin
<1>3. \A y \in S : ~(<< y, x >> \in Less) => x <= y
  BY DEF Less
<1> QED BY <1>2, <1>3

\* An injection of a finite set into itself reaches all of it: every tunnel is at
\* some position of sorted_tun_indies.
LEMMA EveryTunnelSorted ==
    ASSUME TypeOK, NEW i \in Tun
    PROVE  \E n \in Tun : sorted_tun_indies[n] = i
<1> DEFINE f == sorted_tun_indies
<1>1. IsFiniteSet(Tun)
  BY FS_Interval, TunMgrAssumption DEF Tun
<1>2. f \in Injection(Tun, Tun)
  BY DEF TypeOK, Orders, Injection, IsInjective
<1> HIDE DEF f
<1>3. f \in Surjection(Tun, Tun)
  BY <1>1, <1>2, FS_Injection
<1> QED BY <1>3 DEF Surjection, f

\* A loop over the positions lo .. hi that has a usable tunnel stops at the first.
LEMMA FirstFound ==
    ASSUME NEW lo \in Nat, NEW hi \in Int, NEW n \in lo .. hi,
           Usable(sorted_tun_indies[n])
    PROVE  FirstUsable(lo, hi) # {}
<1> DEFINE S == {m \in lo .. hi : Usable(sorted_tun_indies[m])}
<1>1. S \in SUBSET Nat /\ S # {}
  OBVIOUS
<1>2. PICK x \in S : \A y \in S : x <= y
  <2> HIDE DEF S
  <2> QED BY <1>1, Least
<1>3. \A m \in lo .. x - 1 : m \in lo .. hi /\ ~(x <= m)
  BY <1>2
<1>4. \A m \in lo .. x - 1 : ~Usable(sorted_tun_indies[m])
  BY <1>2, <1>3
<1> QED BY <1>2, <1>4 DEF FirstUsable

\* The invariant implies the property: a usable tunnel is at or above
\* current_tun_idx, where the first loop finds one, or below, where the second
\* does; and a tunnel that is not "fulled" has a free slot.
LEMMA Found == IInv => UsableIsFound
<1> SUFFICES ASSUME IInv PROVE UsableIsFound
  OBVIOUS
<1>1. /\ TunCount \in Nat \ {0} /\ ReqCap \in Nat
      /\ current_tun_idx \in Tun /\ sorted_tun_indies \in [Tun -> Tun]
  BY TunMgrAssumption, ReqqAssumption DEF IInv, TypeOK, Orders
<1>2. ASSUME NEW i \in Tun, Usable(i)
      PROVE  alloc_tunnel_for_req # {}
  <2>1. PICK n \in Tun : sorted_tun_indies[n] = i
    BY EveryTunnelSorted DEF IInv
  <2>2. CASE n \in current_tun_idx .. TunCount - 1
    <3>1. current_tun_idx \in Nat /\ TunCount - 1 \in Int
      BY <1>1 DEF Tun
    <3>2. FirstUsable(current_tun_idx, TunCount - 1) # {}
      BY <1>2, <2>1, <2>2, <3>1, FirstFound
    <3> QED BY <3>2 DEF alloc_tunnel_for_req
  <2>3. CASE n \in 0 .. current_tun_idx - 1
    <3>1. 0 \in Nat /\ current_tun_idx - 1 \in Int
      BY <1>1 DEF Tun
    <3>2. FirstUsable(0, current_tun_idx - 1) # {}
      BY <1>2, <2>1, <2>3, <3>1, FirstFound
    <3> QED BY <3>2 DEF alloc_tunnel_for_req
  <2> QED BY <1>1, <2>2, <2>3 DEF Tun
<1>3. ASSUME NEW n \in alloc_tunnel_for_req
      PROVE  reqq[sorted_tun_indies[n]].free # << >>
  <2> DEFINE i == sorted_tun_indies[n]
  <2>1. i \in Tun /\ live[i] /\ req_count[i] + 1 < ReqCap
    <3>1. n \in current_tun_idx .. TunCount - 1 \/ n \in 0 .. current_tun_idx - 1
      BY DEF alloc_tunnel_for_req, FirstUsable
    <3>2. Usable(i)
      BY DEF alloc_tunnel_for_req, FirstUsable
    <3> QED BY <1>1, <3>1, <3>2 DEF Usable, Tun
  <2>2. /\ Accounted(reqq[i], req_count[i]) /\ req_count[i] \in 0 .. ReqCap
        /\ reqq[i] \in Table
    BY <2>1 DEF IInv, SlotAccounting, TypeOK
  <2> HIDE DEF i
  <2>3. Len(reqq[i].free) \in Nat /\ req_count[i] = ReqCap - Len(reqq[i].free)
    BY <2>2 DEF Accounted, Table
  <2>4. ASSUME NEW l \in Nat, NEW c \in 0 .. ReqCap, c + 1 < ReqCap, c = ReqCap - l
        PROVE  l # 0
    BY <1>1, <2>4
  <2>5. reqq[i].free # << >>
    <3>1. Len(reqq[i].free) # 0
      BY <2>1, <2>2, <2>3, <2>4
    <3> QED BY <3>1
  <2> QED BY <2>5 DEF i
<1> QED BY <1>2, <1>3 DEF UsableIsFound

\* alloc_tunnel_for_req (tunmgr.rs:218) misses no tunnel, whatever order the last
\* keep-alive left, and Reqq::alloc (reqq.rs:27) never finds its stack empty.
THEOREM UsableFound == Spec => []UsableIsFound
  BY Found, Invariance, PTL

=============================================================================
