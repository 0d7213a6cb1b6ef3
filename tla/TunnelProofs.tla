---------------------------- MODULE TunnelProofs ----------------------------
(***************************************************************************)
(* Proofs about Tunnel, for any number of slots, requests and messages and *)
(* any quota.                                                              *)
(*                                                                         *)
(* IInv (types, names on the messages, slots in use, last words) is        *)
(* inductive as it stands.  TInv (what the server and the tunnel know of a *)
(* slot agrees, and the quota is all there) is inductive beside it as long *)
(* as TagsSuffice: a tag has 16 bits and every request of its slot takes   *)
(* two values.  A slot that serves 2^15 requests in one life of its tunnel *)
(* uses a tag again, and then nothing in the code tells an old message     *)
(* from a new one.  FewRequests shows that the assumption can be met.      *)
(*                                                                         *)
(* PInv (the numbers of a stream have no gap) is inductive beside both; it *)
(* follows that the tunnel implements Sessions.                            *)
(*                                                                         *)
(* The steps are sorted by what they do to the messages (StepKinds): a     *)
(* request is created, a task Speaks, the server Replies, the server       *)
(* receives, the tunnel delivers.  There is one lemma for each and each    *)
(* invariant.                                                              *)
(***************************************************************************)
EXTENDS Tunnel, FiniteSetTheorems, TLAPS

-----------------------------------------------------------------------------
(***************************************************************************)
(* The table (Reqq): it stays accounted for (Accounted) under every alloc  *)
(* and free, for every capacity and every even modulus of the tags, the    *)
(* wrap-around included.  These lemmas are in TunMgrProofs too.            *)
(***************************************************************************)

\* tag + 1 flips the parity of a tag, at the wrap-around too because the number
\* of tags is even (bump, reqq.rs:39 and :79).
LEMMA BumpLemma ==
    ASSUME NEW t \in Tag
    PROVE  /\ bump(t) \in Tag
           /\ bump(t) % 2 # t % 2
           /\ t % 2 \in {0, 1}
<1>1. TagMod \in Nat \ {0} /\ TagMod % 2 = 0 /\ t \in Nat /\ t < TagMod
  BY ReqqAssumption DEF Tag
<1>2. bump(t) = IF t + 1 = TagMod THEN 0 ELSE t + 1
  BY <1>1 DEF bump
<1>3. CASE t + 1 = TagMod
  BY <1>1, <1>2, <1>3 DEF Tag
<1>4. CASE t + 1 # TagMod
  BY <1>1, <1>2, <1>4 DEF Tag
<1> QED BY <1>3, <1>4

\* A sequence of distinct slots that misses one is shorter than the table.
LEMMA PigeonHole ==
    ASSUME NEW f \in Seq(Slot), NEW s \in Slot,
           \A k, l \in DOMAIN f : f[k] = f[l] => k = l,
           \A k \in DOMAIN f : f[k] # s
    PROVE  Len(f) < ReqCap
<1>1. ReqCap \in Nat /\ Len(f) \in Nat /\ DOMAIN f = 1 .. Len(f)
  BY ReqqAssumption
<1> DEFINE g == [k \in 1 .. Len(f) + 1 |-> IF k = Len(f) + 1 THEN s ELSE f[k]]
<1>2. g \in [1 .. Len(f) + 1 -> Slot]
  BY <1>1
<1>3. /\ IsFiniteSet(1 .. Len(f) + 1) /\ Cardinality(1 .. Len(f) + 1) = Len(f) + 1
      /\ IsFiniteSet(Slot) /\ Cardinality(Slot) = ReqCap
  BY <1>1, FS_Interval, ReqqAssumption DEF Slot
<1>4. SUFFICES ASSUME ReqCap < Len(f) + 1 PROVE FALSE
  BY <1>1
<1>5. PICK x, y \in 1 .. Len(f) + 1 : x # y /\ g[x] = g[y]
  <2> HIDE DEF g
  <2> QED BY <1>1, <1>2, <1>3, <1>4, FS_PigeonHole
<1> QED BY <1>1, <1>5

\* A fresh table is accounted for, with no slot in use (Reqq::new).
LEMMA NewAccounted == new \in Table /\ Accounted(new, 0)
<1>1. ReqCap \in Nat \ {0} /\ TagMod \in Nat \ {0} /\ 0 \in Tag
  BY ReqqAssumption DEF Tag
<1>2. new.free \in Seq(Slot) /\ Len(new.free) = ReqCap
      /\ DOMAIN new.free = 1 .. ReqCap
  BY <1>1 DEF new, Slot
<1>3. new \in Table
  BY <1>1, <1>2 DEF new, Table, Element
<1>4. ASSUME NEW s \in Slot
      PROVE  \E k \in DOMAIN new.free : new.free[k] = s
  <2>1. ReqCap - s \in 1 .. ReqCap /\ new.free[ReqCap - s] = s
    BY <1>1 DEF new, Slot
  <2> QED BY <2>1, <1>2
<1> QED BY <1>1, <1>2, <1>3, <1>4 DEF Accounted, new

\* alloc takes a slot off the free stack, gives it an odd tag and the request,
\* and leaves the table accounted for with one more slot in use (reqq.rs:27).
LEMMA AllocAccounted ==
    ASSUME NEW q \in Table, NEW n, Accounted(q, n), NEW r \in Req,
           Len(q.free) > 0
    PROVE  /\ alloc_idx(q) \in Slot
           /\ alloc_tag(q) \in Tag /\ alloc_tag(q) % 2 = 1
           /\ q.elements[alloc_idx(q)].trigger = NoReq
           /\ alloc(q, r) \in Table
           /\ Accounted(alloc(q, r), n + 1)
<1> DEFINE a == alloc_idx(q)
           p == alloc(q, r)
<1>1. /\ q.free \in Seq(Slot) /\ Len(q.free) \in Nat \ {0}
      /\ DOMAIN q.free = 1 .. Len(q.free)
      /\ q.elements \in [Slot -> Element] /\ ReqCap \in Nat
  BY ReqqAssumption DEF Table
<1>2. a \in Slot /\ a = q.free[Len(q.free)] /\ Len(q.free) \in DOMAIN q.free
  BY <1>1 DEF alloc_idx
<1>3. q.elements[a].tag \in Tag /\ q.elements[a].tag % 2 = 0
      /\ q.elements[a].trigger = NoReq
  BY <1>1, <1>2 DEF Accounted, Element
<1>4. alloc_tag(q) \in Tag /\ alloc_tag(q) % 2 = 1
  <2>1. alloc_tag(q) = bump(q.elements[a].tag)
    BY DEF alloc_tag
  <2>2. alloc_tag(q) \in Tag /\ alloc_tag(q) % 2 # 0 /\ alloc_tag(q) % 2 \in {0, 1}
    BY <1>3, <2>1, BumpLemma
  <2> QED BY <2>2
<1>5. /\ p.free = SubSeq(q.free, 1, Len(q.free) - 1)
      /\ p.free \in Seq(Slot) /\ Len(p.free) = Len(q.free) - 1
      /\ DOMAIN p.free = 1 .. Len(q.free) - 1
      /\ \A k \in DOMAIN p.free : p.free[k] = q.free[k]
  BY <1>1 DEF alloc
<1>6. p.elements = [q.elements EXCEPT ![a] =
                      [tag |-> alloc_tag(q), request_tx |-> r, trigger |-> r]]
  BY DEF alloc
<1>7. p \in Table
  BY <1>1, <1>2, <1>4, <1>5, <1>6 DEF alloc, Table, Element
<1> HIDE DEF p, a
<1>8. \A k, l \in DOMAIN p.free : p.free[k] = p.free[l] => k = l
  <2>1. \A k, l \in DOMAIN q.free : q.free[k] = q.free[l] => k = l
    BY DEF Accounted
  <2>2. DOMAIN p.free \subseteq DOMAIN q.free
    BY <1>1, <1>5
  <2> QED BY <1>5, <2>1, <2>2
<1>9. ASSUME NEW s \in Slot
      PROVE  (\E k \in DOMAIN p.free : p.free[k] = s)
               <=> p.elements[s].tag % 2 = 0
  <2>1. CASE s = a
    <3>1. \A k \in DOMAIN p.free : p.free[k] # a
      <4>1. \A k \in DOMAIN q.free : q.free[k] = q.free[Len(q.free)] => k = Len(q.free)
        BY <1>2 DEF Accounted
      <4>2. \A k \in DOMAIN p.free : k \in DOMAIN q.free /\ k # Len(q.free)
        BY <1>1, <1>5
      <4> QED BY <1>2, <1>5, <4>1, <4>2
    <3>2. p.elements[s].tag % 2 = 1
      BY <1>1, <1>4, <1>6, <2>1
    <3> QED BY <2>1, <3>1, <3>2
  <2>2. CASE s # a
    <3>1. p.elements[s] = q.elements[s]
      BY <1>1, <1>6, <2>2
    <3>2. (\E k \in DOMAIN p.free : p.free[k] = s)
            <=> (\E k \in DOMAIN q.free : q.free[k] = s)
      BY <1>1, <1>2, <1>5, <2>2
    <3> QED BY <3>1, <3>2 DEF Accounted
  <2> QED BY <2>1, <2>2
<1>10. ASSUME NEW s \in Slot
       PROVE  /\ p.elements[s].trigger = NoReq <=> p.elements[s].tag % 2 = 0
              /\ p.elements[s].request_tx # NoReq
                   => p.elements[s].request_tx = p.elements[s].trigger
  BY <1>1, <1>2, <1>4, <1>6, ReqqAssumption DEF Accounted
<1>11. n + 1 = ReqCap - Len(p.free)
  <2>1. n = ReqCap - Len(q.free)
    BY DEF Accounted
  <2>2. Len(p.free) = Len(q.free) - 1 /\ Len(q.free) \in Int /\ ReqCap \in Int
    BY <1>1, <1>5
  <2>3. \A l, c \in Int : (c - l) + 1 = c - (l - 1)
    OBVIOUS
  <2>4. (ReqCap - Len(q.free)) + 1 = ReqCap - (Len(q.free) - 1)
    BY <2>2, <2>3
  <2> QED BY <2>1, <2>2, <2>4
<1>12. Accounted(p, n + 1)
  BY <1>8, <1>9, <1>10, <1>11 DEF Accounted
<1> QED BY <1>2, <1>3, <1>4, <1>7, <1>12 DEF p, a

\* free with the odd tag that a request was given returns the slot to the free
\* stack exactly once; there was a slot in use, so req_count does not underflow
\* (reqq.rs:46, tunnel.rs:148 and :324).
LEMMA FreeAccounted ==
    ASSUME NEW q \in Table, NEW n, Accounted(q, n), NEW s \in Slot,
           NEW t \in Tag, t % 2 = 1, free_ok(q, s, t)
    PROVE  /\ free(q, s, t) \in Table
           /\ Accounted(free(q, s, t), n - 1)
           /\ n - 1 \in 0 .. ReqCap
           /\ q.elements[s].trigger # NoReq
           /\ free(q, s, t).elements = [q.elements EXCEPT ![s] = clean_req(q.elements[s])]
<1> DEFINE p == free(q, s, t)
           e == q.elements[s]
<1>1. /\ q.free \in Seq(Slot) /\ Len(q.free) \in Nat
      /\ DOMAIN q.free = 1 .. Len(q.free)
      /\ q.elements \in [Slot -> Element] /\ ReqCap \in Nat
  BY ReqqAssumption DEF Table
<1>2. e.tag = t /\ e.tag \in Tag
  BY <1>1 DEF free_ok, Element
<1>3. /\ \A k \in DOMAIN q.free : q.free[k] # s
      /\ e.trigger # NoReq
  BY <1>2 DEF Accounted
<1>4. Len(q.free) < ReqCap
  BY <1>1, <1>3, PigeonHole DEF Accounted
<1>5. bump(e.tag) \in Tag /\ bump(e.tag) % 2 = 0
  <2>1. bump(e.tag) \in Tag /\ bump(e.tag) % 2 # 1 /\ bump(e.tag) % 2 \in {0, 1}
    BY <1>2, BumpLemma
  <2> QED BY <2>1
<1>6. /\ p.elements = [q.elements EXCEPT ![s] = clean_req(e)]
      /\ p.free = Append(q.free, s)
      /\ p = [elements |-> p.elements, free |-> p.free]
  BY DEF free
<1>7. /\ p.free \in Seq(Slot) /\ Len(p.free) = Len(q.free) + 1
      /\ DOMAIN p.free = 1 .. Len(q.free) + 1
      /\ \A k \in DOMAIN q.free : p.free[k] = q.free[k]
      /\ p.free[Len(q.free) + 1] = s
  BY <1>1, <1>6
<1> HIDE DEF p
<1>8. p.elements[s] = [tag |-> bump(e.tag), request_tx |-> NoReq, trigger |-> NoReq]
      /\ \A x \in Slot : x # s => p.elements[x] = q.elements[x]
  BY <1>1, <1>6 DEF clean_req
<1>9. p.elements \in [Slot -> Element]
  BY <1>1, <1>5, <1>6 DEF clean_req, Element
<1>10. p \in Table
  BY <1>6, <1>7, <1>9 DEF Table
<1>11. \A k, l \in DOMAIN p.free : p.free[k] = p.free[l] => k = l
  <2>1. \A k, l \in DOMAIN q.free : q.free[k] = q.free[l] => k = l
    BY DEF Accounted
  <2>2. \A k \in DOMAIN p.free : k \in DOMAIN q.free \/ k = Len(q.free) + 1
    BY <1>1, <1>7
  <2> QED BY <1>3, <1>7, <2>1, <2>2
<1>12. ASSUME NEW x \in Slot
       PROVE  (\E k \in DOMAIN p.free : p.free[k] = x)
                <=> p.elements[x].tag % 2 = 0
  <2>1. CASE x = s
    BY <1>1, <1>5, <1>7, <1>8, <2>1
  <2>2. CASE x # s
    <3>1. (\E k \in DOMAIN p.free : p.free[k] = x)
            <=> (\E k \in DOMAIN q.free : q.free[k] = x)
      <4>1. \A k : k \in DOMAIN p.free
                      <=> (k \in DOMAIN q.free \/ k = Len(q.free) + 1)
        BY <1>1, <1>7
      <4> QED BY <1>7, <2>2, <4>1
    <3> QED BY <1>8, <2>2, <3>1 DEF Accounted
  <2> QED BY <2>1, <2>2
<1>13. ASSUME NEW x \in Slot
       PROVE  /\ p.elements[x].trigger = NoReq <=> p.elements[x].tag % 2 = 0
              /\ p.elements[x].request_tx # NoReq
                   => p.elements[x].request_tx = p.elements[x].trigger
  BY <1>5, <1>8 DEF Accounted
<1>14. n - 1 = ReqCap - Len(p.free) /\ n - 1 \in 0 .. ReqCap
  <2>1. n = ReqCap - Len(q.free)
    BY DEF Accounted
  <2>2. Len(q.free) \in Nat /\ ReqCap \in Nat
    BY <1>1
  <2>3. Len(p.free) = Len(q.free) + 1
    BY <1>7
  <2>4. \A m, c \in Nat : m < c => /\ (c - m) - 1 = c - (m + 1)
                                  /\ (c - m) - 1 \in 0 .. c
    OBVIOUS
  <2> QED BY <1>4, <2>1, <2>2, <2>3, <2>4
<1>15. Accounted(p, n - 1)
  BY <1>11, <1>12, <1>13, <1>14 DEF Accounted
<1> QED BY <1>3, <1>6, <1>10, <1>14, <1>15 DEF p

\* Dropping the sender of a slot's channel touches neither the tags nor the
\* free stack (free_request_tx, tunnel.rs:261).
LEMMA FinishAccounted ==
    ASSUME NEW q \in Table, NEW n, Accounted(q, n), NEW s \in Slot
    PROVE  /\ [q EXCEPT !.elements[s].request_tx = NoReq] \in Table
           /\ Accounted([q EXCEPT !.elements[s].request_tx = NoReq], n)
           /\ [q EXCEPT !.elements[s].request_tx = NoReq].elements
                = [q.elements EXCEPT ![s] = [q.elements[s] EXCEPT !.request_tx = NoReq]]
<1> DEFINE p == [q EXCEPT !.elements[s].request_tx = NoReq]
<1>1. /\ q.elements \in [Slot -> Element]
      /\ p.free = q.free
      /\ p.elements = [q.elements EXCEPT ![s] = [q.elements[s] EXCEPT !.request_tx = NoReq]]
      /\ p \in Table
  BY DEF Table, Element
<1>2. \A x \in Slot : /\ p.elements[x].tag = q.elements[x].tag
                      /\ p.elements[x].trigger = q.elements[x].trigger
                      /\ \/ p.elements[x].request_tx = q.elements[x].request_tx
                         \/ p.elements[x].request_tx = NoReq
  BY <1>1 DEF Element
<1> HIDE DEF p
<1>3. Accounted(p, n)
  BY <1>1, <1>2 DEF Accounted
<1> QED BY <1>1, <1>3 DEF p

\* The table of a closed tunnel is still a table (clear_all, reqq.rs:66).
LEMMA ClearTable ==
    ASSUME NEW q \in Table
    PROVE  clear_all(q) \in Table
<1>1. \A s \in Slot : q.elements[s].tag \in Tag
  BY DEF Table, Element
<1>2. \A s \in Slot : clean_req(q.elements[s]) \in Element
  BY <1>1, BumpLemma DEF clean_req, Element
<1> QED BY <1>2 DEF clear_all, Table

-----------------------------------------------------------------------------
(***************************************************************************)
(* Sequences and counts.                                                   *)
(***************************************************************************)

LEMMA ConcatFacts ==
    ASSUME NEW Elem, NEW p \in Seq(Elem), NEW q \in Seq(Elem)
    PROVE  /\ p \o q \in Seq(Elem) /\ Len(p) \in Nat /\ Len(q) \in Nat
           /\ Len(p \o q) = Len(p) + Len(q)
           /\ DOMAIN p = 1 .. Len(p) /\ DOMAIN q = 1 .. Len(q)
           /\ DOMAIN (p \o q) = 1 .. Len(p) + Len(q)
           /\ \A k \in DOMAIN p : (p \o q)[k] = p[k]
           /\ \A k \in DOMAIN (p \o q) :
                k \notin DOMAIN p => /\ k - Len(p) \in DOMAIN q
                                     /\ (p \o q)[k] = q[k - Len(p)]
           /\ \A k \in DOMAIN q : Len(p) + k \in DOMAIN (p \o q)
                                  /\ (p \o q)[Len(p) + k] = q[k]
  OBVIOUS

LEMMA AppendFacts ==
    ASSUME NEW Elem, NEW q \in Seq(Elem), NEW m \in Elem
    PROVE  /\ Append(q, m) \in Seq(Elem) /\ Len(q) \in Nat
           /\ Len(Append(q, m)) = Len(q) + 1
           /\ DOMAIN q = 1 .. Len(q) /\ DOMAIN Append(q, m) = 1 .. Len(q) + 1
           /\ \A k \in DOMAIN q : Append(q, m)[k] = q[k]
           /\ Append(q, m)[Len(q) + 1] = m
  OBVIOUS

LEMMA TailFacts ==
    ASSUME NEW Elem, NEW q \in Seq(Elem), q # << >>
    PROVE  /\ Tail(q) \in Seq(Elem) /\ Head(q) \in Elem /\ Head(q) = q[1]
           /\ Len(q) \in Nat \ {0} /\ Len(Tail(q)) = Len(q) - 1
           /\ DOMAIN q = 1 .. Len(q) /\ DOMAIN Tail(q) = 1 .. Len(q) - 1
           /\ 1 \in DOMAIN q
           /\ \A k \in DOMAIN Tail(q) : k + 1 \in DOMAIN q /\ Tail(q)[k] = q[k + 1]
           /\ \A k \in DOMAIN q : k # 1 => k - 1 \in DOMAIN Tail(q) /\ Tail(q)[k - 1] = q[k]
  OBVIOUS

LEMMA Elements ==
    ASSUME NEW Elem, NEW q \in Seq(Elem)
    PROVE  \A k \in DOMAIN q : q[k] \in Elem
  OBVIOUS

\* The places of q that hold a message among those of Among.
Hits(q, Among) == {k \in DOMAIN q : q[k] \in Among}

LEMMA HitsFinite ==
    ASSUME NEW q \in Seq(Msg), NEW Among
    PROVE  IsFiniteSet(Hits(q, Among)) /\ Cardinality(Hits(q, Among)) \in Nat
<1>1. DOMAIN q = 1 .. Len(q) /\ Len(q) \in Nat
  OBVIOUS
<1>2. IsFiniteSet(1 .. Len(q))
  BY <1>1, FS_Interval
<1> QED BY <1>1, <1>2, FS_Subset, FS_CardinalityType DEF Hits

LEMMA HitsAppend ==
    ASSUME NEW q \in Seq(Msg), NEW m \in Msg, NEW Among
    PROVE  Cardinality(Hits(Append(q, m), Among))
             = Cardinality(Hits(q, Among)) + (IF m \in Among THEN 1 ELSE 0)
<1>1. IsFiniteSet(Hits(q, Among)) /\ Cardinality(Hits(q, Among)) \in Nat
  BY HitsFinite
<1>2. CASE m \in Among
  <2>1. Hits(Append(q, m), Among) = Hits(q, Among) \cup {Len(q) + 1}
    BY <1>2, AppendFacts DEF Hits
  <2>2. Len(q) + 1 \notin Hits(q, Among)
    BY AppendFacts DEF Hits
  <2> QED BY <1>1, <1>2, <2>1, <2>2, FS_AddElement
<1>3. CASE m \notin Among
  <2>1. Hits(Append(q, m), Among) = Hits(q, Among)
    BY <1>3, AppendFacts DEF Hits
  <2> QED BY <1>1, <1>3, <2>1
<1> QED BY <1>2, <1>3

LEMMA HitsTail ==
    ASSUME NEW q \in Seq(Msg), q # << >>, NEW Among
    PROVE  Cardinality(Hits(q, Among))
             = Cardinality(Hits(Tail(q), Among)) + (IF Head(q) \in Among THEN 1 ELSE 0)
<1> DEFINE A == Hits(Tail(q), Among)
           B == Hits(q, Among) \ {1}
           f == [k \in A |-> k + 1]
<1>1. /\ IsFiniteSet(A) /\ Cardinality(A) \in Nat
      /\ IsFiniteSet(Hits(q, Among)) /\ Cardinality(Hits(q, Among)) \in Nat
  BY TailFacts, HitsFinite
<1>2. f \in Bijection(A, B)
  <2>1. f \in [A -> B]
    BY TailFacts DEF Hits
  <2>2. \A a, b \in A : f[a] = f[b] => a = b
    BY TailFacts DEF Hits
  <2>3. \A b \in B : \E a \in A : f[a] = b
    <3> SUFFICES ASSUME NEW b \in B PROVE b - 1 \in A /\ f[b - 1] = b
      OBVIOUS
    <3> QED BY TailFacts DEF Hits
  <2> QED BY <2>1, <2>2, <2>3 DEF Bijection, Injection, Surjection, IsInjective
<1>3. IsFiniteSet(B) /\ Cardinality(B) = Cardinality(A)
  BY <1>1, <1>2, FS_Bijection DEF ExistsBijection
<1>4. CASE Head(q) \in Among
  <2>1. 1 \in Hits(q, Among)
    BY <1>4, TailFacts DEF Hits
  <2> QED BY <1>1, <1>3, <1>4, <2>1, FS_RemoveElement
<1>5. CASE Head(q) \notin Among
  <2>1. B = Hits(q, Among)
    BY <1>5, TailFacts DEF Hits
  <2>2. Cardinality(Hits(q, Among)) = Cardinality(A)
    BY <1>3, <2>1
  <2> HIDE DEF A
  <2>3. Cardinality(Hits(q, Among)) = Cardinality(A) + (IF Head(q) \in Among THEN 1 ELSE 0)
    BY <1>1, <1>5, <2>2
  <2> QED BY <2>3 DEF A
<1> QED BY <1>4, <1>5

-----------------------------------------------------------------------------
(***************************************************************************)
(* What the steps do.                                                      *)
(***************************************************************************)

\* The constants, and the initial table.
LEMMA Consts ==
    /\ Quota \in Nat /\ Quota \div 2 \in Nat /\ Quota \div 2 >= 1 /\ Quota \div 2 < Quota
    /\ ReqCap \in Nat \ {0} /\ 0 \in Slot /\ TagMod \in Nat \ {0} /\ 0 \in Tag
    /\ MaxDown \in Nat /\ MaxUp \in Nat /\ NoReq \notin Req
<1>1. Quota \in Nat /\ Quota >= 2
  BY TunnelAssumption
<1>2. Quota \div 2 \in Nat /\ Quota \div 2 >= 1 /\ Quota \div 2 < Quota
  BY <1>1
<1> QED BY <1>1, <1>2, TunnelAssumption, ReqqAssumption DEF Slot, Tag

\* What a message is, whoever it names.
LEMMA MsgFacts ==
    ASSUME NEW m \in Msg
    PROVE  /\ m.cmd \in Cmd /\ m.req_idx \in Slot /\ m.req_tag \in Tag
           /\ m.own \in Req /\ m.n \in Nat
  BY DEF Msg

\* A task leaves its slot to the next one: the close of a request is the last
\* that the server hears of it, and the slot is free.
Leaves(r, t, ms) ==
    /\ t.st = "done" /\ Frees(r)
    /\ reqq' = free(reqq, task[r].req_idx, task[r].req_tag)
    /\ req_count' = req_count - 1
    /\ \E k \in DOMAIN ms : ms[k].cmd = "ReqClientClosed"

Stays(r, t) == ~(t.st = "done" /\ Frees(r)) /\ UNCHANGED << reqq, req_count >>

\* What the task of r may say before its next state t.
Says(r, t, ms) ==
    \A k \in DOMAIN ms :
      /\ ms[k].own = r
      /\ ms[k].req_idx = task[r].req_idx /\ ms[k].req_tag = task[r].req_tag
      /\ ms[k].cmd # "ReqCreated"
      /\ ms[k].cmd = "ReqData" => t.receiving
      /\ ms[k].cmd = "ReqClientFinished" => ~t.receiving
      /\ ms[k].cmd = "ReqClientClosed" => t.st = "done" /\ k = Len(ms)
      /\ ms[k].cmd = "ReqClientQuota" => ms[k].n = Quota \div 2

\* What becomes of the quota that the task of r holds.
NoReport(ms) == \A k \in DOMAIN ms : ms[k].cmd # "ReqClientQuota"

Holding(r, t, ms) ==
    /\ rx[r] = << >> => /\ rx'[r] = << >> /\ NoReport(ms)
                        /\ t.write_out \in {0, task[r].write_out}
    /\ t.sending => \/ /\ NoReport(ms)
                       /\ Len(rx'[r]) + t.write_out = Len(rx[r]) + task[r].write_out
                    \/ /\ Len(ms) = 1 /\ ms[1].cmd = "ReqClientQuota"
                       /\ Len(rx'[r]) + t.write_out + Quota \div 2
                            = Len(rx[r]) + task[r].write_out

Speaks(r, t, ms) ==
    /\ task[r].st = "open" /\ t \in Task /\ ms \in Seq(Msg)
    /\ task' = [task EXCEPT ![r] = t]
    /\ t.req_idx = task[r].req_idx /\ t.req_tag = task[r].req_tag
    /\ t.st \in {"open", "done"} /\ (t.st = "open" <=> t.sending \/ t.receiving)
    /\ t.sending => task[r].sending
    /\ t.receiving => task[r].receiving
    /\ t.write_out < Quota \div 2
    /\ north' = Sent(ms) /\ Says(r, t, ms)
    /\ Leaves(r, t, ms) \/ Stays(r, t)
    /\ rx' \in [Req -> Seq(Msg)] /\ \A q \in Req : q # r => rx'[q] = rx[q]
    /\ Holding(r, t, ms)
    /\ client' \in [Req -> Client]
    /\ UNCHANGED << alive, south, sess >>

LEMMA MessageFacts ==
    ASSUME TypeOK, NEW r \in Req, NEW c \in Cmd, NEW n \in Nat
    PROVE  /\ Message(c, r, n) \in Msg
           /\ Message(c, r, n).cmd = c /\ Message(c, r, n).own = r /\ Message(c, r, n).n = n
           /\ Message(c, r, n).req_idx = task[r].req_idx
           /\ Message(c, r, n).req_tag = task[r].req_tag
<1>1. task[r].req_idx \in Slot /\ task[r].req_tag \in Tag
  BY DEF TypeOK, Task
<1> QED BY <1>1 DEF Message, Msg

\* What is left of t and ms when a future of r has ended: the other one goes on, or
\* the task is done and a close may follow.
EndsAs(r, t, ms, u, ns) ==
    /\ task' = [task EXCEPT ![r] = u] /\ north' = Sent(ns)
    /\ u.st \in {"open", "done"} /\ (u.st = "open" <=> u.sending \/ u.receiving)
    /\ u.req_idx = t.req_idx /\ u.req_tag = t.req_tag
    /\ u.sending = t.sending /\ u.receiving = t.receiving
    /\ u.write_out \in {0, t.write_out}
    /\ u.sending => u = t /\ ns = ms
    /\ NoReport(ms) => NoReport(ns)
    /\ Says(r, u, ns)
    /\ Leaves(r, u, ns) \/ Stays(r, u)
    /\ UNCHANGED << alive, south, sess >>

\* The end of a future, or of both: the slot is given back with a close, and the
\* close is the last message.
LEMMA EndHalfFacts ==
    ASSUME IInv, NEW r \in Req, task[r].st = "open",
           NEW t \in Task, t.st = "open",
           t.req_idx = task[r].req_idx, t.req_tag = task[r].req_tag,
           NEW ms \in Seq(Msg), Says(r, t, ms),
           \A k \in DOMAIN ms : ms[k].cmd # "ReqClientClosed",
           EndHalf(r, t, ms)
    PROVE  \E u \in Task, ns \in Seq(Msg) : EndsAs(r, t, ms, u, ns)
<1>1. UNCHANGED << alive, south, sess >>
  BY DEF EndHalf
<1>2. CASE t.sending \/ t.receiving
  <2>1. task' = [task EXCEPT ![r] = t] /\ north' = Sent(ms) /\ Stays(r, t)
    BY <1>2 DEF EndHalf, Stays
  <2> QED BY <1>1, <1>2, <2>1 DEF EndsAs
<1>3. CASE ~(t.sending \/ t.receiving)
  <2> DEFINE u == [t EXCEPT !.st = "done", !.write_out = 0]
             m == Message("ReqClientClosed", r, 0)
             cs == ClosedMsgs(r)
             ns == ms \o cs
  <2>1. 0 \in 0 .. Quota
    BY Consts
  <2>2. /\ u \in Task /\ u.st = "done" /\ u.req_idx = t.req_idx /\ u.req_tag = t.req_tag
        /\ u.sending = t.sending /\ u.receiving = t.receiving /\ u.write_out = 0
    BY <2>1 DEF Task
  <2>3. /\ m \in Msg /\ m.cmd = "ReqClientClosed" /\ m.own = r
        /\ m.req_idx = task[r].req_idx /\ m.req_tag = task[r].req_tag
    BY MessageFacts DEF IInv, Cmd
  <2>4. task' = [task EXCEPT ![r] = u] /\ north' = Sent(ns) /\ on_request_closed(r)
    BY <1>3 DEF EndHalf
  <2> HIDE DEF u, m
  <2>5. /\ cs \in Seq(Msg) /\ ns \in Seq(Msg)
        /\ \A k \in DOMAIN cs : cs[k] = m
        /\ Frees(r) => cs = << m >>
        /\ Len(cs) \in 0 .. 1
    BY <2>3 DEF ClosedMsgs, m
  <2> HIDE DEF cs
  <2>6. \A k \in DOMAIN ns : \/ k \in DOMAIN ms /\ ns[k] = ms[k]
                             \/ k = Len(ns) /\ ns[k] = m
    <3> SUFFICES ASSUME NEW k \in DOMAIN ns, k \notin DOMAIN ms
                 PROVE  k = Len(ns) /\ ns[k] = m
      BY <2>5, ConcatFacts
    <3>1. k - Len(ms) \in DOMAIN cs /\ ns[k] = cs[k - Len(ms)]
      BY <2>5, ConcatFacts
    <3>2. Len(ns) = Len(ms) + Len(cs) /\ k \in 1 .. Len(ms) + Len(cs) /\ Len(ms) \in Nat
          /\ DOMAIN ms = 1 .. Len(ms)
      BY <2>5, ConcatFacts
    <3> QED BY <2>5, <3>1, <3>2
  <2>7. Says(r, u, ns)
    BY <2>2, <2>3, <2>6 DEF Says
  <2>8. NoReport(ms) => NoReport(ns)
    BY <2>3, <2>6 DEF NoReport
  <2>9. CASE Frees(r)
    <3>1. 1 \in DOMAIN cs /\ cs[1] = m
      BY <2>5, <2>9
    <3>2. \E k \in DOMAIN ns : ns[k].cmd = "ReqClientClosed"
      <4>1. Len(ms) + 1 \in DOMAIN ns /\ ns[Len(ms) + 1] = m
        BY <2>5, <3>1, ConcatFacts
      <4> HIDE DEF ns
      <4> QED BY <2>3, <4>1
    <3>3. /\ reqq' = free(reqq, task[r].req_idx, task[r].req_tag)
          /\ req_count' = req_count - 1
      BY <2>4, <2>9 DEF on_request_closed
    <3>4. Leaves(r, u, ns)
      BY <2>2, <2>9, <3>2, <3>3 DEF Leaves
    <3> QED BY <1>1, <1>3, <2>2, <2>4, <2>5, <2>7, <2>8, <3>4 DEF EndsAs
  <2>10. CASE ~Frees(r)
    <3>1. Stays(r, u)
      BY <2>4, <2>10 DEF on_request_closed, Stays
    <3> QED BY <1>1, <1>3, <2>2, <2>4, <2>5, <2>7, <2>8, <3>1 DEF EndsAs
  <2> QED BY <2>9, <2>10
<1> QED BY <1>2, <1>3

\* Whatever the task of an open request does.
TaskSteps(r) ==
    \/ on_request_msg(r) \/ ReceiveEnds(r) \/ WriteOut(r)
    \/ SendDrained(r) \/ SendFails(r)

LEMMA CountedFacts ==
    ASSUME IInv, NEW r \in Req
    PROVE  /\ Counted(r) \in 0 .. Quota /\ Counted(r) < Quota \div 2
           /\ QuotaMsgs(r) \in Seq(Msg)
           /\ \/ /\ QuotaMsgs(r) = << >> /\ Counted(r) = task[r].write_out + 1
              \/ /\ QuotaMsgs(r) = << Message("ReqClientQuota", r, Quota \div 2) >>
                 /\ Counted(r) = 0 /\ task[r].write_out + 1 = Quota \div 2
<1>1. task[r].write_out \in Nat /\ task[r].write_out < Quota \div 2
  BY DEF IInv, TypeOK, Task, TaskParts
<1>2. Message("ReqClientQuota", r, Quota \div 2) \in Msg
  BY MessageFacts, Consts DEF IInv, Cmd
<1>3. CASE task[r].write_out + 1 = Quota \div 2
  BY <1>1, <1>2, <1>3, Consts DEF Counted, QuotaMsgs
<1>4. CASE task[r].write_out + 1 # Quota \div 2
  BY <1>1, <1>2, <1>4, Consts DEF Counted, QuotaMsgs
<1> QED BY <1>3, <1>4

LEMMA ClientFacts ==
    ASSUME NEW c \in Client
    PROVE  /\ c.sent + 1 \in Nat
           /\ c.sent < MaxUp => [c EXCEPT !.sent = @ + 1] \in Client
           /\ [c EXCEPT !.got = @ + 1] \in Client
           /\ \A e \in {"fin", "rst"} : [c EXCEPT !.st = e] \in Client
<1>1. c.sent \in 0 .. MaxUp /\ c.got \in Nat /\ MaxUp \in Nat
  BY Consts DEF Client
<1>2. c.sent < MaxUp => c.sent + 1 \in 0 .. MaxUp
  BY <1>1
<1>3. c.got + 1 \in Nat /\ c.sent + 1 \in Nat
  BY <1>1
<1> QED BY <1>2, <1>3 DEF Client

\* Every step of an open request speaks.
LEMMA Talk ==
    ASSUME IInv, NEW r \in Req, TaskSteps(r)
    PROVE  \E t \in Task, ms \in Seq(Msg) : Speaks(r, t, ms)
<1> USE DEF clientSide
<1>1. /\ task \in [Req -> Task] /\ task[r] \in Task /\ rx \in [Req -> Seq(Msg)]
      /\ client \in [Req -> Client] /\ rx[r] \in Seq(Msg)
      /\ task[r].write_out \in Nat /\ task[r].write_out < Quota \div 2
      /\ 0 < Quota \div 2 /\ Quota \div 2 \in Nat
  BY Consts DEF IInv, TypeOK, Task, TaskParts
<1>2. task[r].st = "open"
  BY <1>1 DEF TaskSteps, on_request_msg, ReceiveEnds, WriteOut, SendDrained, SendFails,
              IInv, TaskParts
<1>3. CASE on_request_msg(r)
  <2> DEFINE m == Message("ReqData", r, client[r].sent + 1)
  <2>1. client[r].sent + 1 \in Nat /\ client' \in [Req -> Client]
    BY <1>1, <1>3, ClientFacts DEF on_request_msg
  <2>2. /\ m \in Msg /\ m.cmd = "ReqData" /\ m.own = r /\ << m >> \in Seq(Msg)
        /\ m.req_idx = task[r].req_idx /\ m.req_tag = task[r].req_tag
    BY <2>1, MessageFacts DEF IInv, Cmd
  <2>3. /\ task' = task /\ rx' = rx /\ north' = Sent(<< m >>) /\ task[r].receiving
        /\ UNCHANGED << alive, reqq, req_count, south, sess >>
    BY <1>3 DEF on_request_msg
  <2> HIDE DEF m
  <2>4. Says(r, task[r], << m >>) /\ NoReport(<< m >>)
    BY <2>2, <2>3 DEF Says, NoReport
  <2>5. Stays(r, task[r])
    BY <1>2, <2>3 DEF Stays
  <2>6. task' = [task EXCEPT ![r] = task[r]]
    BY <1>1, <2>3
  <2>7. Holding(r, task[r], << m >>)
    BY <2>3, <2>4 DEF Holding
  <2>8. task[r].st = "open" <=> task[r].sending \/ task[r].receiving
    BY DEF IInv, TaskParts
  <2> QED BY <1>1, <1>2, <2>1, <2>2, <2>3, <2>4, <2>5, <2>6, <2>7, <2>8 DEF Speaks
<1>4. CASE ReceiveEnds(r)
  <2> DEFINE t == [task[r] EXCEPT !.receiving = FALSE]
             m == Message("ReqClientFinished", r, 0)
  <2>1. /\ t \in Task /\ t.st = "open" /\ t.req_idx = task[r].req_idx
        /\ t.req_tag = task[r].req_tag /\ t.write_out = task[r].write_out
        /\ t.sending = task[r].sending /\ ~t.receiving
    BY <1>1, <1>2 DEF Task
  <2>2. /\ m \in Msg /\ m.cmd = "ReqClientFinished" /\ m.own = r /\ << m >> \in Seq(Msg)
        /\ m.req_idx = task[r].req_idx /\ m.req_tag = task[r].req_tag
    BY MessageFacts DEF IInv, Cmd
  <2>3. EndHalf(r, t, << m >>) /\ rx' = rx /\ client' = client
    BY <1>4 DEF ReceiveEnds
  <2> HIDE DEF m, t
  <2>4. /\ Says(r, t, << m >>) /\ NoReport(<< m >>)
        /\ \A k \in DOMAIN << m >> : << m >>[k].cmd # "ReqClientClosed"
    BY <2>1, <2>2 DEF Says, NoReport
  <2>5. PICK u \in Task, ns \in Seq(Msg) : EndsAs(r, t, << m >>, u, ns)
    BY <1>2, <2>1, <2>2, <2>3, <2>4, EndHalfFacts
  <2>6. Holding(r, u, ns)
    BY <2>1, <2>3, <2>4, <2>5 DEF Holding, EndsAs
  <2>7. u.write_out < Quota \div 2
    BY <1>1, <2>1, <2>5 DEF EndsAs
  <2> QED BY <1>1, <1>2, <2>1, <2>3, <2>5, <2>6, <2>7 DEF Speaks, EndsAs
<1>5. CASE WriteOut(r)
  <2> DEFINE t == [task[r] EXCEPT !.write_out = Counted(r)]
             ms == QuotaMsgs(r)
             m == Message("ReqClientQuota", r, Quota \div 2)
  <2>1. /\ task' = [task EXCEPT ![r] = t] /\ north' = Sent(ms) /\ rx[r] # << >>
        /\ rx' = [rx EXCEPT ![r] = Tail(@)] /\ task[r].sending
        /\ client' = [client EXCEPT ![r].got = @ + 1]
        /\ UNCHANGED << alive, reqq, req_count, south, sess >>
    BY <1>1, <1>5 DEF WriteOut
  <2>2. /\ t \in Task /\ t.st = "open" /\ t.req_idx = task[r].req_idx
        /\ t.req_tag = task[r].req_tag /\ t.write_out = Counted(r)
        /\ t.sending = task[r].sending /\ t.receiving = task[r].receiving
    BY <1>1, <1>2, CountedFacts DEF Task
  <2>3. client' \in [Req -> Client]
    BY <1>1, <2>1, ClientFacts
  <2>4. /\ rx' \in [Req -> Seq(Msg)] /\ \A q \in Req : q # r => rx'[q] = rx[q]
        /\ Len(rx'[r]) = Len(rx[r]) - 1 /\ Len(rx[r]) \in Nat
    BY <1>1, <2>1, TailFacts
  <2>5. /\ m \in Msg /\ m.cmd = "ReqClientQuota" /\ m.own = r /\ m.n = Quota \div 2
        /\ m.req_idx = task[r].req_idx /\ m.req_tag = task[r].req_tag
    BY <1>1, MessageFacts DEF IInv, Cmd
  <2>6. ms \in Seq(Msg) /\ t.write_out < Quota \div 2 /\ t.write_out \in Nat
    BY <2>2, CountedFacts
  <2>7. \/ ms = << >> /\ t.write_out = task[r].write_out + 1
        \/ ms = << m >> /\ t.write_out = 0 /\ task[r].write_out + 1 = Quota \div 2
    BY <2>2, CountedFacts
  <2> HIDE DEF ms, t, m
  <2>8. Says(r, t, ms)
    BY <2>5, <2>7 DEF Says
  <2>9. Holding(r, t, ms)
    <3>1. CASE ms = << >> /\ t.write_out = task[r].write_out + 1
      <4>1. NoReport(ms)
        BY <3>1 DEF NoReport
      <4>2. Len(rx'[r]) + t.write_out = Len(rx[r]) + task[r].write_out
        BY <1>1, <2>4, <3>1
      <4> QED BY <2>1, <4>1, <4>2 DEF Holding
    <3>2. CASE ms = << m >> /\ t.write_out = 0 /\ task[r].write_out + 1 = Quota \div 2
      <4>1. Len(ms) = 1 /\ ms[1].cmd = "ReqClientQuota"
        BY <2>5, <3>2
      <4>2. Len(rx'[r]) + t.write_out + Quota \div 2 = Len(rx[r]) + task[r].write_out
        BY <1>1, <2>4, <3>2
      <4> QED BY <2>1, <4>1, <4>2 DEF Holding
    <3> QED BY <2>7, <3>1, <3>2
  <2>10. Stays(r, t)
    BY <2>1, <2>2 DEF Stays
  <2>11. task[r].st = "open" <=> task[r].sending \/ task[r].receiving
    BY DEF IInv, TaskParts
  <2> QED BY <1>2, <2>1, <2>2, <2>3, <2>4, <2>6, <2>8, <2>9, <2>10, <2>11 DEF Speaks
<1>6. CASE SendDrained(r)
  <2> DEFINE t == [task[r] EXCEPT !.sending = FALSE]
  <2>1. /\ t \in Task /\ t.st = "open" /\ t.req_idx = task[r].req_idx
        /\ t.req_tag = task[r].req_tag /\ t.write_out = task[r].write_out
        /\ ~t.sending /\ t.receiving = task[r].receiving
    BY <1>1, <1>2 DEF Task
  <2>2. EndHalf(r, t, << >>) /\ rx' = rx /\ client' = client
    BY <1>6 DEF SendDrained
  <2> HIDE DEF t
  <2>3. /\ << >> \in Seq(Msg) /\ Says(r, t, << >>) /\ NoReport(<< >>)
        /\ \A k \in DOMAIN << >> : << >>[k].cmd # "ReqClientClosed"
    BY DEF Says, NoReport
  <2>4. PICK u \in Task, ns \in Seq(Msg) : EndsAs(r, t, << >>, u, ns)
    BY <1>2, <2>1, <2>2, <2>3, EndHalfFacts
  <2>5. Holding(r, u, ns)
    BY <2>1, <2>2, <2>3, <2>4 DEF Holding, EndsAs
  <2>6. u.write_out < Quota \div 2
    BY <1>1, <2>1, <2>4 DEF EndsAs
  <2> QED BY <1>1, <1>2, <2>1, <2>2, <2>4, <2>5, <2>6 DEF Speaks, EndsAs
<1>7. CASE SendFails(r)
  <2> DEFINE t == [task[r] EXCEPT !.sending = FALSE, !.write_out = Counted(r)]
             ms == QuotaMsgs(r)
             m == Message("ReqClientQuota", r, Quota \div 2)
  <2>1. /\ t \in Task /\ t.st = "open" /\ t.req_idx = task[r].req_idx
        /\ t.req_tag = task[r].req_tag /\ t.write_out = Counted(r)
        /\ ~t.sending /\ t.receiving = task[r].receiving
    BY <1>1, <1>2, CountedFacts DEF Task
  <2>2. /\ EndHalf(r, t, ms) /\ rx' = [rx EXCEPT ![r] = << >>] /\ client' = client
        /\ rx[r] # << >>
    BY <1>7 DEF SendFails
  <2>3. /\ m \in Msg /\ m.cmd = "ReqClientQuota" /\ m.own = r /\ m.n = Quota \div 2
        /\ m.req_idx = task[r].req_idx /\ m.req_tag = task[r].req_tag
    BY <1>1, MessageFacts DEF IInv, Cmd
  <2>4. ms \in Seq(Msg) /\ Counted(r) < Quota \div 2
    BY CountedFacts
  <2>5. ms = << >> \/ ms = << m >>
    BY CountedFacts
  <2> HIDE DEF ms, t, m
  <2>6. Says(r, t, ms) /\ \A k \in DOMAIN ms : ms[k].cmd # "ReqClientClosed"
    BY <2>3, <2>5 DEF Says
  <2>7. PICK u \in Task, ns \in Seq(Msg) : EndsAs(r, t, ms, u, ns)
    BY <1>2, <2>1, <2>2, <2>4, <2>6, EndHalfFacts
  <2>8. Holding(r, u, ns)
    BY <2>1, <2>2, <2>7 DEF Holding, EndsAs
  <2>9. u.write_out < Quota \div 2
    BY <1>1, <2>1, <2>4, <2>7 DEF EndsAs
  <2>10. rx' \in [Req -> Seq(Msg)] /\ \A q \in Req : q # r => rx'[q] = rx[q]
    BY <1>1, <2>2
  <2> QED BY <1>1, <1>2, <2>1, <2>2, <2>7, <2>8, <2>9, <2>10 DEF Speaks, EndsAs
<1> QED BY <1>3, <1>4, <1>5, <1>6, <1>7 DEF TaskSteps

\* A slot is given back: by its task, or by the server.
GivenBack(s, t) ==
    /\ reqq.elements[s].tag = t
    /\ reqq'.elements[s].tag = bump(t)
    /\ reqq'.elements[s].trigger = NoReq /\ reqq'.elements[s].request_tx = NoReq
    /\ \A x \in Slot : x # s => reqq'.elements[x] = reqq.elements[x]

LEMMA Freed ==
    ASSUME IInv, alive, NEW s \in Slot, NEW t \in Tag, t % 2 = 1, free_ok(reqq, s, t),
           reqq' = free(reqq, s, t), req_count' = req_count - 1
    PROVE  /\ reqq' \in Table /\ Accounted(reqq', req_count')
           /\ reqq.elements \in [Slot -> Element] /\ reqq'.elements \in [Slot -> Element]
           /\ reqq.elements[s].trigger # NoReq
           /\ GivenBack(s, t)
<1>1. reqq \in Table /\ Accounted(reqq, req_count)
  BY DEF IInv, TypeOK
<1>2. /\ reqq' \in Table /\ Accounted(reqq', req_count')
      /\ reqq.elements[s].trigger # NoReq
      /\ reqq'.elements = [reqq.elements EXCEPT ![s] = clean_req(reqq.elements[s])]
  BY <1>1, FreeAccounted
<1>3. /\ reqq.elements \in [Slot -> Element] /\ reqq'.elements \in [Slot -> Element]
  BY <1>1, <1>2 DEF Table
<1>4. reqq.elements[s].tag = t
  BY DEF free_ok
<1>5. reqq'.elements[s] = [tag |-> bump(t), request_tx |-> NoReq, trigger |-> NoReq]
      /\ \A x \in Slot : x # s => reqq'.elements[x] = reqq.elements[x]
  BY <1>2, <1>3, <1>4 DEF clean_req
<1> QED BY <1>2, <1>3, <1>4, <1>5 DEF GivenBack

\* What the table of a tunnel that is up says of the slots.
LEMMA TableFacts ==
    ASSUME IInv
    PROVE  /\ reqq \in Table /\ reqq.elements \in [Slot -> Element]
           /\ \A s \in Slot : /\ reqq.elements[s].tag \in Tag
                              /\ reqq.elements[s].trigger \in Req \cup {NoReq}
                              /\ reqq.elements[s].request_tx \in Req \cup {NoReq}
           /\ alive => \A s \in Slot :
                /\ reqq.elements[s].trigger = NoReq <=> reqq.elements[s].tag % 2 = 0
                /\ reqq.elements[s].tag % 2 \in {0, 1}
                /\ reqq.elements[s].request_tx # NoReq
                     => reqq.elements[s].request_tx = reqq.elements[s].trigger
<1>1. reqq \in Table /\ reqq.elements \in [Slot -> Element]
  BY DEF IInv, TypeOK, Table
<1>2. \A s \in Slot : /\ reqq.elements[s].tag \in Tag
                      /\ reqq.elements[s].trigger \in Req \cup {NoReq}
                      /\ reqq.elements[s].request_tx \in Req \cup {NoReq}
  BY <1>1 DEF Element
<1> QED BY <1>1, <1>2, BumpLemma DEF IInv, TypeOK, Accounted

-----------------------------------------------------------------------------
(***************************************************************************)
(* IInv holds and is preserved: the types, the names on the messages, the  *)
(* slots in use, and the end of a stream.                                  *)
(***************************************************************************)

LEMMA InitIInv == Init => IInv
<1> SUFFICES ASSUME Init PROVE IInv
  OBVIOUS
<1> USE DEF Init
<1>1. TypeOK
  <2>1. [st |-> "new", req_idx |-> 0, req_tag |-> 0, sending |-> FALSE,
         receiving |-> FALSE, write_out |-> 0] \in Task
    BY Consts DEF Task
  <2>2. [st |-> "up", sent |-> 0, got |-> 0] \in Client
    BY Consts DEF Client
  <2>3. NoSession \in Session
    BY Consts DEF NoSession, Session
  <2>4. reqq \in Table /\ Accounted(reqq, req_count)
    BY NewAccounted
  <2> QED BY <2>1, <2>2, <2>3, <2>4 DEF TypeOK
<1>2. Named /\ Silent /\ EndsMeant /\ NothingAfterEnd
  BY DEF Named, Silent, EndsMeant, NothingAfterEnd, NoSession
<1>3. TaskParts
  BY Consts DEF TaskParts
<1>4. Held
  BY DEF Held, new
<1> QED BY <1>1, <1>2, <1>3, <1>4 DEF IInv

\* The message m names its request in the next state.
NamesThen(m) == /\ task'[m.own].st # "new"
                /\ m.req_idx = task'[m.own].req_idx
                /\ m.req_tag = task'[m.own].req_tag

\* The messages to the server when a task has spoken.
LEMMA SpokenNorth ==
    ASSUME IInv, NEW r \in Req, NEW t, NEW ms, Speaks(r, t, ms)
    PROVE  /\ north' \in Seq(Msg) /\ north \in Seq(Msg)
           /\ DOMAIN north \subseteq DOMAIN north'
           /\ \A k \in DOMAIN north : north'[k] = north[k]
           /\ \A k \in DOMAIN north' : k \notin DOMAIN north =>
                /\ alive /\ k - Len(north) \in DOMAIN ms /\ north'[k] = ms[k - Len(north)]
                /\ north'[k].own = r
                /\ north'[k].cmd = "ReqClientClosed" => k = Len(north')
           /\ \A k \in DOMAIN north, l \in DOMAIN north' : l \notin DOMAIN north => k < l
           /\ DOMAIN north = 1 .. Len(north) /\ DOMAIN north' = 1 .. Len(north')
           /\ Len(north) \in Nat /\ Len(north') \in Nat
<1>1. north \in Seq(Msg) /\ ms \in Seq(Msg)
  BY DEF IInv, TypeOK, Speaks
<1>2. CASE ~alive
  BY <1>1, <1>2 DEF Speaks, Sent
<1>3. CASE alive
  <2>1. north' = north \o ms
    BY <1>3 DEF Speaks, Sent
  <2>2. \A k \in DOMAIN ms : /\ ms[k].own = r
                             /\ ms[k].cmd = "ReqClientClosed" => k = Len(ms)
    BY DEF Speaks, Says
  <2>3. ASSUME NEW k \in DOMAIN north', k \notin DOMAIN north
        PROVE  /\ k - Len(north) \in DOMAIN ms /\ north'[k] = ms[k - Len(north)]
               /\ north'[k].own = r
               /\ north'[k].cmd = "ReqClientClosed" => k = Len(north')
    <3>1. k - Len(north) \in DOMAIN ms /\ north'[k] = ms[k - Len(north)]
      BY <1>1, <2>1, <2>3, ConcatFacts
    <3>2. k \in Nat /\ Len(north) \in Nat /\ Len(ms) \in Nat /\ Len(north') = Len(north) + Len(ms)
      BY <1>1, <2>1, ConcatFacts
    <3> QED BY <2>2, <3>1, <3>2
  <2> QED BY <1>1, <1>3, <2>1, <2>3, ConcatFacts
<1> QED BY <1>2, <1>3

\* What a task that speaks does to the tasks and to the table.
LEMMA SpokenTable ==
    ASSUME IInv, NEW r \in Req, NEW t, NEW ms, Speaks(r, t, ms)
    PROVE  /\ task' \in [Req -> Task] /\ task'[r] = t
           /\ \A q \in Req : q # r => task'[q] = task[q]
           /\ \A q \in Req : /\ task'[q].st = "new" <=> task[q].st = "new"
                             /\ task'[q].req_idx = task[q].req_idx
                             /\ task'[q].req_tag = task[q].req_tag
                             /\ task'[q].st = "open" => task[q].st = "open"
                             /\ task[q].st = "done" => task'[q].st = "done"
                             /\ task'[q].receiving => task[q].receiving
           /\ task[r].req_idx \in Slot /\ task[r].req_tag \in Tag
           /\ reqq' \in Table /\ (alive => Accounted(reqq', req_count'))
           /\ \/ /\ alive /\ t.st = "done" /\ free_ok(reqq, task[r].req_idx, task[r].req_tag)
                 /\ GivenBack(task[r].req_idx, task[r].req_tag)
                 /\ \E k \in DOMAIN ms : ms[k].cmd = "ReqClientClosed"
              \/ /\ reqq' = reqq
                 /\ t.st = "done" => SlotOf(r).trigger # r
<1>1. /\ task \in [Req -> Task] /\ t \in Task /\ task' = [task EXCEPT ![r] = t]
      /\ t.st \in {"open", "done"} /\ task[r].st = "open"
      /\ t.req_idx = task[r].req_idx /\ t.req_tag = task[r].req_tag
      /\ t.receiving => task[r].receiving
  BY DEF IInv, TypeOK, Speaks
<1>2. /\ task' \in [Req -> Task] /\ task'[r] = t
      /\ \A q \in Req : q # r => task'[q] = task[q]
  BY <1>1
<1>3. task[r].req_idx \in Slot /\ task[r].req_tag \in Tag /\ task[r].req_tag % 2 = 1
  BY <1>1 DEF Task, IInv, TaskParts
<1>4. CASE Leaves(r, t, ms)
  <2>1. /\ alive /\ free_ok(reqq, task[r].req_idx, task[r].req_tag) /\ t.st = "done"
        /\ reqq' = free(reqq, task[r].req_idx, task[r].req_tag)
        /\ req_count' = req_count - 1
        /\ \E k \in DOMAIN ms : ms[k].cmd = "ReqClientClosed"
    BY <1>4 DEF Leaves, Frees
  <2> QED BY <1>1, <1>2, <1>3, <2>1, Freed
<1>5. CASE Stays(r, t)
  <2>1. reqq' = reqq /\ req_count' = req_count /\ ~(t.st = "done" /\ Frees(r))
    BY <1>5 DEF Stays
  <2>2. reqq' \in Table /\ (alive => Accounted(reqq', req_count'))
    BY <2>1 DEF IInv, TypeOK
  <2>3. t.st = "done" => SlotOf(r).trigger # r
    <3> SUFFICES ASSUME t.st = "done", SlotOf(r).trigger = r PROVE FALSE
      OBVIOUS
    <3>1. r # NoReq
      BY Consts
    <3>2. /\ reqq.elements[task[r].req_idx].trigger = r
          /\ reqq.elements[task[r].req_idx].tag = task[r].req_tag
      BY <1>3, <3>1 DEF SlotOf, IInv, Held
    <3>3. ~alive
      BY <1>3, <2>1, <3>2 DEF Frees, free_ok
    <3> QED BY <1>3, <3>1, <3>2, <3>3 DEF IInv, Silent
  <2> QED BY <1>1, <1>2, <1>3, <2>1, <2>2, <2>3
<1> QED BY <1>4, <1>5 DEF Speaks

LEMMA SpeaksIInv ==
    ASSUME IInv, NEW r \in Req, NEW t, NEW ms, Speaks(r, t, ms)
    PROVE  IInv'
<1>1. /\ TypeOK /\ Named /\ TaskParts /\ Held /\ Silent /\ EndsMeant /\ NothingAfterEnd
      /\ UNCHANGED << alive, south, sess >>
  BY DEF IInv, Speaks
<1>2. /\ task' \in [Req -> Task] /\ task'[r] = t
      /\ \A q \in Req : q # r => task'[q] = task[q]
      /\ \A q \in Req : /\ task'[q].st = "new" <=> task[q].st = "new"
                        /\ task'[q].req_idx = task[q].req_idx
                        /\ task'[q].req_tag = task[q].req_tag
                        /\ task[q].st = "done" => task'[q].st = "done"
                        /\ task'[q].receiving => task[q].receiving
      /\ reqq' \in Table /\ (alive => Accounted(reqq', req_count'))
  BY SpokenTable
<1>3. /\ north' \in Seq(Msg) /\ north \in Seq(Msg)
      /\ \A k \in DOMAIN north : north'[k] = north[k]
      /\ \A k \in DOMAIN north' : k \notin DOMAIN north =>
           /\ alive /\ k - Len(north) \in DOMAIN ms /\ north'[k] = ms[k - Len(north)]
           /\ north'[k].own = r
           /\ north'[k].cmd = "ReqClientClosed" => k = Len(north')
      /\ \A k \in DOMAIN north, l \in DOMAIN north' : l \notin DOMAIN north => k < l
      /\ DOMAIN north = 1 .. Len(north) /\ DOMAIN north' = 1 .. Len(north')
      /\ Len(north) \in Nat /\ Len(north') \in Nat
  BY SpokenNorth
<1>4. TypeOK'
  BY <1>1, <1>2, <1>3 DEF TypeOK, Speaks
<1>5. \A k \in DOMAIN ms :
        /\ ms[k].own = r
        /\ ms[k].req_idx = task[r].req_idx /\ ms[k].req_tag = task[r].req_tag
        /\ ms[k].cmd = "ReqData" => t.receiving
        /\ ms[k].cmd = "ReqClientFinished" => ~t.receiving
        /\ ms[k].cmd = "ReqClientClosed" => t.st = "done"
  BY DEF Speaks, Says
<1>6. /\ t.st \in {"open", "done"} /\ task[r].st = "open" /\ (t.st = "open" <=> t.sending \/ t.receiving)
      /\ t.write_out < Quota \div 2
      /\ t.receiving => task[r].receiving
      /\ \A q \in Req : q # r => rx'[q] = rx[q]
  BY DEF Speaks
<1>7. Named'
  <2>1. ASSUME NEW k \in DOMAIN north' PROVE NamesThen(north'[k])
    <3>1. CASE k \in DOMAIN north
      <4>1. north'[k] = north[k] /\ north[k] \in Msg
        BY <1>3, <3>1
      <4>2. Names(north[k])
        BY <1>1, <3>1 DEF Named
      <4> QED BY <1>2, <4>1, <4>2, MsgFacts DEF Names, NamesThen
    <3>2. CASE k \notin DOMAIN north
      <4>1. /\ north'[k].own = r /\ north'[k].req_idx = task[r].req_idx
            /\ north'[k].req_tag = task[r].req_tag
        BY <1>3, <1>5, <3>2
      <4> QED BY <1>2, <1>6, <4>1 DEF NamesThen
    <3> QED BY <3>1, <3>2
  <2>2. ASSUME NEW k \in DOMAIN south' PROVE NamesThen(south'[k])
    <3>1. south'[k] = south[k] /\ south[k] \in Msg /\ Names(south[k])
      BY <1>1 DEF TypeOK, Named
    <3> QED BY <1>2, <3>1, MsgFacts DEF Names, NamesThen
  <2>3. \A s \in Slot : sess[s].open =>
          LET q == sess[s].own
          IN  /\ q \in Req /\ task'[q].st # "new" /\ task'[q].req_idx = s
              /\ task'[q].req_tag = sess[s].req_tag
    BY <1>1, <1>2 DEF Named
  <2> QED BY <1>1, <2>1, <2>2, <2>3 DEF Named, Names, NamesThen
<1>8. TaskParts'
  <2> SUFFICES ASSUME NEW q \in Req
               PROVE  /\ task'[q].st = "open" <=> task'[q].sending \/ task'[q].receiving
                      /\ task'[q].write_out < Quota \div 2
                      /\ task'[q].st # "new" => task'[q].req_tag % 2 = 1
                      /\ task'[q].st = "new" => rx'[q] = << >>
    BY DEF TaskParts
  <2>1. CASE q = r
    BY <1>1, <1>2, <1>6, <2>1 DEF TaskParts
  <2>2. CASE q # r
    BY <1>1, <1>2, <1>6, <2>2 DEF TaskParts
  <2> QED BY <2>1, <2>2
<1>9. Held'
  <2> SUFFICES ASSUME NEW s \in Slot, reqq'.elements[s].trigger # NoReq
               PROVE  LET q == reqq'.elements[s].trigger
                      IN  /\ task'[q].st = "open" /\ task'[q].req_idx = s
                          /\ task'[q].req_tag = reqq'.elements[s].tag
    BY DEF Held
  <2> DEFINE i == task[r].req_idx
             q == reqq.elements[s].trigger
  <2>1. /\ \/ /\ reqq'.elements[i].trigger = NoReq
              /\ \A x \in Slot : x # i => reqq'.elements[x] = reqq.elements[x]
           \/ /\ reqq' = reqq
              /\ t.st = "done" => reqq.elements[i].trigger # r
    BY SpokenTable DEF SlotOf, GivenBack
  <2>2. reqq'.elements[s] = reqq.elements[s]
    BY <2>1
  <2>3. /\ q \in Req /\ task[q].st = "open" /\ task[q].req_idx = s
        /\ task[q].req_tag = reqq.elements[s].tag
    BY <1>1, <2>2, TableFacts DEF Held
  <2>4. q = r => t.st # "done"
    BY <2>1, <2>2, <2>3
  <2> QED BY <1>2, <1>6, <2>2, <2>3, <2>4
<1>10. Silent'
  <2>1. ~alive => reqq' = reqq /\ north' = north
    BY SpokenTable DEF Speaks, Sent
  <2> QED BY <1>1, <2>1 DEF Silent
<1>11. EndsMeant'
  <2> SUFFICES ASSUME NEW k \in DOMAIN north'
               PROVE  /\ north'[k].cmd = "ReqClientFinished" => ~task'[north'[k].own].receiving
                      /\ north'[k].cmd = "ReqClientClosed" => task'[north'[k].own].st = "done"
    BY DEF EndsMeant
  <2>1. CASE k \in DOMAIN north
    <3>1. north'[k] = north[k] /\ north[k].own \in Req
      BY <1>3, <2>1, MsgFacts
    <3> QED BY <1>1, <1>2, <2>1, <3>1 DEF EndsMeant
  <2>2. CASE k \notin DOMAIN north
    BY <1>2, <1>3, <1>5, <2>2
  <2> QED BY <2>1, <2>2
<1>12. NothingAfterEnd'
  <2> SUFFICES ASSUME NEW k \in DOMAIN north', NEW l \in DOMAIN north', k < l,
                      north'[k].own = north'[l].own, north'[k].cmd \in Ends
               PROVE  north'[l].cmd # "ReqData" /\ north'[k].cmd # "ReqClientClosed"
    BY DEF NothingAfterEnd
  <2>1. CASE l \in DOMAIN north
    <3>1. k \in DOMAIN north
      BY <1>3, <2>1
    <3> QED BY <1>1, <1>3, <2>1, <3>1 DEF NothingAfterEnd
  <2>2. CASE l \notin DOMAIN north /\ k \in DOMAIN north
    <3>1. north'[k] = north[k] /\ north[k].own = r
      BY <1>3, <2>2
    <3>2. north[k].cmd # "ReqClientClosed" /\ ~task[r].receiving
      BY <1>1, <1>6, <2>2, <3>1 DEF EndsMeant, Ends
    <3> QED BY <1>3, <1>5, <1>6, <2>2, <3>1, <3>2
  <2>3. CASE l \notin DOMAIN north /\ k \notin DOMAIN north
    <3>1. north'[k].cmd # "ReqClientClosed"
      BY <1>3, <2>3
    <3>2. ~t.receiving
      BY <1>3, <1>5, <2>3, <3>1 DEF Ends
    <3> QED BY <1>3, <1>5, <2>3, <3>1, <3>2
  <2> QED BY <2>1, <2>2, <2>3
<1> QED BY <1>4, <1>7, <1>8, <1>9, <1>10, <1>11, <1>12 DEF IInv

\* A request is given a slot that is free, and the server is told.
LEMMA CreatedFacts ==
    ASSUME IInv, NEW r \in Req, on_request_created(r)
    PROVE  /\ alive /\ task[r].st = "new"
           /\ UNCHANGED << alive, south, rx, client, sess >>
           /\ task' \in [Req -> Task] /\ task'[r].st = "open"
           /\ task'[r].sending /\ task'[r].receiving /\ task'[r].write_out = 0
           /\ task'[r].req_idx \in Slot /\ task'[r].req_tag \in Tag /\ task'[r].req_tag % 2 = 1
           /\ \A q \in Req : q # r => task'[q] = task[q]
           /\ reqq' \in Table /\ Accounted(reqq', req_count')
           /\ LET i == task'[r].req_idx
              IN  /\ reqq.elements[i].trigger = NoReq
                  /\ task'[r].req_tag = bump(reqq.elements[i].tag)
                  /\ reqq'.elements[i].tag = task'[r].req_tag
                  /\ reqq'.elements[i].trigger = r /\ reqq'.elements[i].request_tx = r
                  /\ \A x \in Slot : x # i => reqq'.elements[x] = reqq.elements[x]
           /\ north \in Seq(Msg)
           /\ \E m \in Msg : /\ north' = Append(north, m)
                             /\ m.cmd = "ReqCreated" /\ m.own = r
                             /\ m.req_idx = task'[r].req_idx /\ m.req_tag = task'[r].req_tag
<1> DEFINE i == alloc_idx(reqq)
           g == alloc_tag(reqq)
           t == [st |-> "open", req_idx |-> i, req_tag |-> g, sending |-> TRUE,
                 receiving |-> TRUE, write_out |-> 0]
           m == [cmd |-> "ReqCreated", req_idx |-> i, req_tag |-> g, own |-> r, n |-> 0]
<1>1. /\ alive /\ task[r].st = "new" /\ Len(reqq.free) > 0
      /\ reqq' = alloc(reqq, r) /\ req_count' = req_count + 1
      /\ task' = [task EXCEPT ![r] = t] /\ north' = Append(north, m)
      /\ UNCHANGED << alive, south, rx, client, sess >>
  BY DEF on_request_created
<1>2. /\ reqq \in Table /\ Accounted(reqq, req_count) /\ task \in [Req -> Task]
      /\ north \in Seq(Msg)
  BY <1>1 DEF IInv, TypeOK
<1>3. /\ i \in Slot /\ g \in Tag /\ g % 2 = 1 /\ reqq.elements[i].trigger = NoReq
      /\ reqq' \in Table /\ Accounted(reqq', req_count')
  BY <1>1, <1>2, AllocAccounted
<1>4. g = bump(reqq.elements[i].tag)
  BY DEF alloc_tag
<1>5. reqq.elements \in [Slot -> Element]
  BY <1>2 DEF Table
<1>6. reqq'.elements = [reqq.elements EXCEPT ![i] = [tag |-> g, request_tx |-> r, trigger |-> r]]
  BY <1>1 DEF alloc
<1>7. t \in Task /\ m \in Msg
  BY <1>3, Consts DEF Task, Msg, Cmd
<1> HIDE DEF i, g
<1>8. /\ task' \in [Req -> Task] /\ task'[r] = t
      /\ \A q \in Req : q # r => task'[q] = task[q]
  BY <1>1, <1>2, <1>7
<1>9. /\ reqq'.elements[i].tag = g
      /\ reqq'.elements[i].trigger = r /\ reqq'.elements[i].request_tx = r
      /\ \A x \in Slot : x # i => reqq'.elements[x] = reqq.elements[x]
  BY <1>3, <1>5, <1>6
<1> QED BY <1>1, <1>2, <1>3, <1>4, <1>7, <1>8, <1>9

LEMMA CreatedIInv ==
    ASSUME IInv, NEW r \in Req, on_request_created(r)
    PROVE  IInv'
<1>1. /\ TypeOK /\ Named /\ TaskParts /\ Held /\ Silent /\ EndsMeant /\ NothingAfterEnd
  BY DEF IInv
<1>2. PICK m \in Msg : /\ north' = Append(north, m)
                       /\ m.cmd = "ReqCreated" /\ m.own = r
                       /\ m.req_idx = task'[r].req_idx /\ m.req_tag = task'[r].req_tag
  BY CreatedFacts
<1>3. /\ alive /\ task[r].st = "new" /\ UNCHANGED << alive, south, rx, client, sess >>
      /\ task' \in [Req -> Task] /\ task'[r].st = "open"
      /\ task'[r].sending /\ task'[r].receiving /\ task'[r].write_out = 0
      /\ task'[r].req_tag % 2 = 1 /\ task'[r].req_idx \in Slot
      /\ \A q \in Req : q # r => task'[q] = task[q]
      /\ reqq' \in Table /\ Accounted(reqq', req_count') /\ north \in Seq(Msg)
  BY CreatedFacts
<1>4. /\ north' \in Seq(Msg) /\ DOMAIN north = 1 .. Len(north) /\ Len(north) \in Nat
      /\ DOMAIN north' = 1 .. Len(north) + 1
      /\ \A k \in DOMAIN north : north'[k] = north[k]
      /\ north'[Len(north) + 1] = m
  BY <1>2, <1>3, AppendFacts
<1>5. TypeOK'
  BY <1>1, <1>3, <1>4 DEF TypeOK
<1>6. \A k \in DOMAIN north : north[k] \in Msg /\ north[k].own \in Req /\ north[k].own # r
  BY <1>1, <1>3, <1>4, MsgFacts DEF Named, Names
<1>7. Named'
  <2>1. ASSUME NEW k \in DOMAIN north' PROVE NamesThen(north'[k])
    <3>1. CASE k \in DOMAIN north
      BY <1>1, <1>3, <1>4, <1>6, <3>1 DEF Named, Names, NamesThen
    <3>2. CASE k \notin DOMAIN north
      BY <1>2, <1>3, <1>4, <3>2 DEF NamesThen
    <3> QED BY <3>1, <3>2
  <2>2. ASSUME NEW k \in DOMAIN south' PROVE NamesThen(south'[k])
    <3>1. south'[k] = south[k] /\ south[k] \in Msg /\ Names(south[k])
      BY <1>1, <1>3 DEF TypeOK, Named
    <3> QED BY <1>3, <3>1, MsgFacts DEF Names, NamesThen
  <2>3. \A s \in Slot : sess[s].open =>
          LET q == sess[s].own
          IN  /\ q \in Req /\ task'[q].st # "new" /\ task'[q].req_idx = s
              /\ task'[q].req_tag = sess[s].req_tag
    BY <1>1, <1>3 DEF Named
  <2> QED BY <1>3, <2>1, <2>2, <2>3 DEF Named, Names, NamesThen
<1>8. TaskParts'
  <2> SUFFICES ASSUME NEW q \in Req
               PROVE  /\ task'[q].st = "open" <=> task'[q].sending \/ task'[q].receiving
                      /\ task'[q].write_out < Quota \div 2
                      /\ task'[q].st # "new" => task'[q].req_tag % 2 = 1
                      /\ task'[q].st = "new" => rx'[q] = << >>
    BY DEF TaskParts
  <2>1. CASE q = r
    BY <1>3, <2>1, Consts
  <2>2. CASE q # r
    BY <1>1, <1>3, <2>2 DEF TaskParts
  <2> QED BY <2>1, <2>2
<1>9. Held'
  <2> SUFFICES ASSUME NEW s \in Slot, reqq'.elements[s].trigger # NoReq
               PROVE  LET q == reqq'.elements[s].trigger
                      IN  /\ task'[q].st = "open" /\ task'[q].req_idx = s
                          /\ task'[q].req_tag = reqq'.elements[s].tag
    BY DEF Held
  <2>1. CASE s = task'[r].req_idx
    BY <1>3, <2>1, CreatedFacts
  <2>2. CASE s # task'[r].req_idx
    <3>1. reqq'.elements[s] = reqq.elements[s]
      BY <2>2, CreatedFacts
    <3> QED BY <1>1, <1>3, <3>1, TableFacts DEF Held
  <2> QED BY <2>1, <2>2
<1>10. Silent'
  BY <1>3 DEF Silent
<1>11. EndsMeant'
  <2> SUFFICES ASSUME NEW k \in DOMAIN north'
               PROVE  /\ north'[k].cmd = "ReqClientFinished" => ~task'[north'[k].own].receiving
                      /\ north'[k].cmd = "ReqClientClosed" => task'[north'[k].own].st = "done"
    BY DEF EndsMeant
  <2>1. CASE k \in DOMAIN north
    BY <1>1, <1>3, <1>4, <1>6, <2>1 DEF EndsMeant
  <2>2. CASE k \notin DOMAIN north
    BY <1>2, <1>4, <2>2
  <2> QED BY <2>1, <2>2
<1>12. NothingAfterEnd'
  <2> SUFFICES ASSUME NEW k \in DOMAIN north', NEW l \in DOMAIN north', k < l,
                      north'[k].own = north'[l].own, north'[k].cmd \in Ends
               PROVE  north'[l].cmd # "ReqData" /\ north'[k].cmd # "ReqClientClosed"
    BY DEF NothingAfterEnd
  <2>1. k \in DOMAIN north
    BY <1>4
  <2>2. l \in DOMAIN north
    BY <1>2, <1>4, <1>6, <2>1
  <2> QED BY <1>1, <1>4, <2>1, <2>2 DEF NothingAfterEnd
<1> QED BY <1>5, <1>7, <1>8, <1>9, <1>10, <1>11, <1>12 DEF IInv

\* The server appends a message to south, and may end its session.
Replies(s, m, e) ==
    /\ sess[s].open /\ m \in Msg /\ e \in Session
    /\ south' = Append(south, m) /\ sess' = [sess EXCEPT ![s] = e]
    /\ m.own = sess[s].own /\ m.req_idx = s /\ m.req_tag = sess[s].req_tag
    /\ e.open => e.own = sess[s].own /\ e.req_tag = sess[s].req_tag
    /\ \/ /\ m.cmd = "ReqData" /\ e.open /\ ~sess[s].server_fin /\ ~e.server_fin
          /\ e.credit = sess[s].credit - 1
          /\ m.n = sess[s].sent + 1 /\ e.sent = sess[s].sent + 1
       \/ /\ m.cmd = "ReqServerFinished" /\ e.open /\ ~sess[s].server_fin /\ e.server_fin
          /\ e.credit = sess[s].credit /\ e.sent = sess[s].sent
       \/ m.cmd = "ReqServerClosed" /\ ~e.open
    /\ UNCHANGED << clientSide, north, client >>

LEMMA ServerFacts ==
    ASSUME IInv, NEW s \in Slot, ServerNext(s)
    PROVE  \E m, e : Replies(s, m, e)
<1>1. /\ sess \in [Slot -> Session] /\ sess[s] \in Session /\ Named
  BY DEF IInv, TypeOK
<1>2. sess[s].open
  BY DEF ServerNext, ServerData, ServerFinishes, ServerCloses
<1>3. /\ sess[s].own \in Req /\ sess[s].req_tag \in Tag
      /\ sess[s].sent \in 0 .. MaxDown /\ MaxDown \in Nat /\ sess[s].credit \in Int
  BY <1>1, <1>2, Consts DEF Named, Session
<1>4. ASSUME NEW c \in Cmd, NEW n \in Nat
      PROVE  /\ Reply(c, s, n) \in Msg /\ Reply(c, s, n).cmd = c
             /\ Reply(c, s, n).own = sess[s].own /\ Reply(c, s, n).req_idx = s
             /\ Reply(c, s, n).req_tag = sess[s].req_tag /\ Reply(c, s, n).n = n
  BY <1>3 DEF Reply, Msg
<1>5. CASE ServerData(s)
  <2> DEFINE e == [sess[s] EXCEPT !.sent = @ + 1, !.credit = @ - 1]
  <2>1. sess[s].sent + 1 \in 0 .. MaxDown /\ sess[s].sent + 1 \in Nat /\ sess[s].credit - 1 \in Int
    BY <1>3, <1>5 DEF ServerData
  <2>2. /\ e \in Session /\ e.open = sess[s].open /\ e.own = sess[s].own
        /\ e.req_tag = sess[s].req_tag
        /\ e.server_fin = sess[s].server_fin /\ e.credit = sess[s].credit - 1
        /\ e.sent = sess[s].sent + 1
    BY <1>1, <2>1 DEF Session
  <2>3. sess' = [sess EXCEPT ![s] = e]
    BY <1>1, <1>5 DEF ServerData, Session
  <2> HIDE DEF e
  <2>4. "ReqData" \in Cmd
    BY DEF Cmd
  <2> DEFINE m == Reply("ReqData", s, sess[s].sent + 1)
  <2>5. /\ m \in Msg /\ m.cmd = "ReqData" /\ m.own = sess[s].own /\ m.req_idx = s
        /\ m.req_tag = sess[s].req_tag /\ m.n = sess[s].sent + 1
    BY <1>4, <2>1, <2>4
  <2>6. /\ south' = Append(south, m) /\ ~sess[s].server_fin
        /\ UNCHANGED << clientSide, north, client >>
    BY <1>5 DEF ServerData
  <2> HIDE DEF m
  <2>7. Replies(s, m, e)
    BY <1>2, <2>2, <2>3, <2>5, <2>6 DEF Replies
  <2> QED BY <2>7
<1>6. CASE ServerFinishes(s)
  <2> DEFINE e == [sess[s] EXCEPT !.server_fin = TRUE]
  <2>1. /\ e \in Session /\ e.open = sess[s].open /\ e.own = sess[s].own
        /\ e.req_tag = sess[s].req_tag /\ e.server_fin /\ e.credit = sess[s].credit
        /\ e.sent = sess[s].sent
    BY <1>1 DEF Session
  <2>2. sess' = [sess EXCEPT ![s] = e]
    BY <1>6 DEF ServerFinishes
  <2> HIDE DEF e
  <2>3. "ReqServerFinished" \in Cmd
    BY DEF Cmd
  <2>4. Replies(s, Reply("ReqServerFinished", s, 0), e)
    BY <1>2, <1>4, <1>6, <2>1, <2>2, <2>3 DEF ServerFinishes, Replies
  <2> QED BY <2>4
<1>7. CASE ServerCloses(s)
  <2>1. NoSession \in Session /\ ~NoSession.open
    BY Consts DEF NoSession, Session
  <2>2. "ReqServerClosed" \in Cmd
    BY DEF Cmd
  <2>3. Replies(s, Reply("ReqServerClosed", s, 0), NoSession)
    BY <1>2, <1>4, <1>7, <2>1, <2>2 DEF ServerCloses, Replies
  <2> QED BY <2>3
<1> QED BY <1>5, <1>6, <1>7 DEF ServerNext

LEMMA RepliesIInv ==
    ASSUME IInv, NEW s \in Slot, NEW m, NEW e, Replies(s, m, e)
    PROVE  IInv'
<1>1. /\ TypeOK /\ Named /\ TaskParts /\ Held /\ Silent /\ EndsMeant /\ NothingAfterEnd
  BY DEF IInv
<1>2. /\ UNCHANGED << alive, reqq, req_count, task, rx, north, client >> /\ m \in Msg /\ e \in Session
      /\ sess' = [sess EXCEPT ![s] = e] /\ south' = Append(south, m) /\ sess[s].open
      /\ m.own = sess[s].own /\ m.req_idx = s /\ m.req_tag = sess[s].req_tag
      /\ e.open => e.own = sess[s].own /\ e.req_tag = sess[s].req_tag
  BY DEF Replies, clientSide
<1>3. TypeOK'
  BY <1>1, <1>2 DEF TypeOK
<1>4. Named'
  <2>1. ASSUME NEW k \in DOMAIN south' PROVE Names(south'[k])
    <3>1. Names(m)
      BY <1>1, <1>2 DEF Named, Names
    <3> QED BY <1>1, <1>2, <3>1, AppendFacts DEF TypeOK, Named
  <2>2. ASSUME NEW x \in Slot, sess'[x].open
        PROVE  LET r == sess'[x].own
               IN  /\ r \in Req /\ task[r].st # "new" /\ task[r].req_idx = x
                   /\ task[r].req_tag = sess'[x].req_tag
    BY <1>1, <1>2, <2>2 DEF Named, TypeOK
  <2> QED BY <1>1, <1>2, <2>1, <2>2 DEF Named, Names
<1>5. Silent'
  BY <1>1, <1>2 DEF Silent
<1>6. TaskParts' /\ Held' /\ EndsMeant' /\ NothingAfterEnd'
  BY <1>1, <1>2 DEF TaskParts, Held, EndsMeant, NothingAfterEnd
<1> QED BY <1>3, <1>4, <1>5, <1>6 DEF IInv

LEMMA ClientEndsIInv ==
    ASSUME IInv, NEW r \in Req, ClientEnds(r)
    PROVE  /\ IInv' /\ UNCHANGED << alive, reqq, req_count, task, rx, north, south, sess >>
<1>1. /\ TypeOK /\ Named /\ TaskParts /\ Held /\ Silent /\ EndsMeant /\ NothingAfterEnd
  BY DEF IInv
<1>2. UNCHANGED << alive, reqq, req_count, task, rx, north, south, sess >>
  BY DEF ClientEnds, clientSide
<1>3. client' \in [Req -> Client]
  <2>1. PICK e \in {"fin", "rst"} : client' = [client EXCEPT ![r].st = e]
    BY DEF ClientEnds
  <2>2. client \in [Req -> Client] /\ client[r] \in Client
    BY <1>1 DEF TypeOK
  <2>3. [client[r] EXCEPT !.st = e] \in Client
    BY <2>2, ClientFacts
  <2> QED BY <2>1, <2>2, <2>3
<1>4. TypeOK'
  BY <1>1, <1>2, <1>3 DEF TypeOK
<1> QED BY <1>1, <1>2, <1>4 DEF IInv, Named, Names, TaskParts, Held, Silent, EndsMeant, NothingAfterEnd

\* The server takes a message from north: it opens a session, forgets one, or
\* keeps what it has with a bit more quota.
Opens(m) ==
    /\ m.cmd = "ReqCreated" /\ sess'[m.req_idx].open
    /\ sess'[m.req_idx].own = m.own /\ sess'[m.req_idx].req_tag = m.req_tag
    /\ sess'[m.req_idx].credit = Quota /\ ~sess'[m.req_idx].server_fin
    /\ sess'[m.req_idx].sent = 0

Shuts(m) == m.cmd = "ReqClientClosed" /\ Matches(m) /\ ~sess'[m.req_idx].open

Keeps(m) ==
    LET s == m.req_idx IN
    /\ m.cmd # "ReqCreated"
    /\ m.cmd = "ReqClientClosed" => ~Matches(m)
    /\ sess'[s].open = sess[s].open /\ sess'[s].own = sess[s].own
    /\ sess'[s].req_tag = sess[s].req_tag /\ sess'[s].server_fin = sess[s].server_fin
    /\ sess'[s].sent = sess[s].sent
    /\ IF m.cmd = "ReqClientQuota" /\ Matches(m)
         THEN sess'[s].credit = sess[s].credit + m.n
         ELSE sess'[s].credit = sess[s].credit

LEMMA ReceivesFacts ==
    ASSUME IInv, ServerReceives
    PROVE  /\ north # << >> /\ north' = Tail(north) /\ north \in Seq(Msg) /\ Head(north) \in Msg
           /\ UNCHANGED << alive, reqq, req_count, task, rx, south, client >>
           /\ sess' \in [Slot -> Session]
           /\ \A s \in Slot : s # Head(north).req_idx => sess'[s] = sess[s]
           /\ Opens(Head(north)) \/ Shuts(Head(north)) \/ Keeps(Head(north))
<1> DEFINE m == Head(north)
           s == m.req_idx
<1>1. /\ north # << >> /\ north' = Tail(north) /\ north \in Seq(Msg) /\ m \in Msg
      /\ UNCHANGED << alive, reqq, req_count, task, rx, south, client >>
      /\ sess \in [Slot -> Session]
  BY TailFacts DEF ServerReceives, clientSide, IInv, TypeOK
<1>2. /\ s \in Slot /\ sess[s] \in Session /\ m.req_tag \in Tag /\ m.own \in Req /\ m.n \in Nat
      /\ sess[s].credit \in Int
  BY <1>1, MsgFacts DEF Session
<1>3. sess' = CASE m.cmd = "ReqCreated" ->
                          [sess EXCEPT ![s] = [NoSession EXCEPT
                             !.open = TRUE, !.req_tag = m.req_tag,
                             !.own = m.own, !.credit = Quota]]
                     [] m.cmd = "ReqClientFinished" /\ Matches(m) ->
                          [sess EXCEPT ![s].client_fin = TRUE]
                     [] m.cmd = "ReqClientClosed" /\ Matches(m) ->
                          [sess EXCEPT ![s] = NoSession]
                     [] m.cmd = "ReqClientQuota" /\ Matches(m) ->
                          [sess EXCEPT ![s].credit = @ + m.n]
                     [] OTHER -> sess
  BY DEF ServerReceives
<1> HIDE DEF m
<1>4. CASE m.cmd = "ReqCreated"
  <2> DEFINE e == [NoSession EXCEPT !.open = TRUE, !.req_tag = m.req_tag,
                                    !.own = m.own, !.credit = Quota]
  <2>1. /\ e \in Session /\ e.open /\ e.own = m.own /\ e.req_tag = m.req_tag
        /\ e.credit = Quota /\ ~e.server_fin /\ e.sent = 0
    <3>1. NoSession \in Session /\ ~NoSession.server_fin /\ NoSession.sent = 0
      BY Consts DEF NoSession, Session
    <3>2. Quota \in Int /\ m.own \in Req \cup {NoReq} /\ m.req_tag \in Tag
      BY <1>2, Consts
    <3>3. e \in Session
      BY <3>1, <3>2 DEF Session
    <3>4. e.own = m.own /\ e.req_tag = m.req_tag /\ e.credit = Quota
      BY <3>1 DEF Session
    <3>5. e.open /\ ~e.server_fin /\ e.sent = 0
      BY <3>1 DEF Session
    <3> QED BY <3>3, <3>4, <3>5
  <2> HIDE DEF e
  <2>2. sess' = [sess EXCEPT ![s] = e]
    BY <1>3, <1>4 DEF e
  <2>3. Opens(m)
    BY <1>1, <1>2, <1>4, <2>1, <2>2 DEF Opens
  <2> QED BY <1>1, <1>2, <2>1, <2>2, <2>3 DEF m
<1>5. CASE m.cmd = "ReqClientFinished" /\ Matches(m)
  <2> DEFINE e == [sess[s] EXCEPT !.client_fin = TRUE]
  <2>1. /\ e \in Session /\ e.open = sess[s].open /\ e.own = sess[s].own
        /\ e.req_tag = sess[s].req_tag
        /\ e.credit = sess[s].credit /\ e.server_fin = sess[s].server_fin
        /\ e.sent = sess[s].sent
    BY <1>2 DEF Session
  <2> HIDE DEF e
  <2>2. sess' = [sess EXCEPT ![s] = e]
    BY <1>3, <1>5 DEF e
  <2>3. Keeps(m)
    BY <1>1, <1>2, <1>5, <2>1, <2>2 DEF Keeps
  <2> QED BY <1>1, <1>2, <2>1, <2>2, <2>3 DEF m
<1>6. CASE m.cmd = "ReqClientClosed" /\ Matches(m)
  <2>1. NoSession \in Session /\ ~NoSession.open
    BY Consts DEF NoSession, Session
  <2>2. sess' = [sess EXCEPT ![s] = NoSession]
    BY <1>3, <1>6
  <2>3. Shuts(m)
    BY <1>1, <1>2, <1>6, <2>1, <2>2 DEF Shuts
  <2> QED BY <1>1, <1>2, <2>1, <2>2, <2>3 DEF m
<1>7. CASE m.cmd = "ReqClientQuota" /\ Matches(m)
  <2> DEFINE e == [sess[s] EXCEPT !.credit = @ + m.n]
  <2>1. sess[s].credit + m.n \in Int
    BY <1>2
  <2>2. /\ e \in Session /\ e.open = sess[s].open /\ e.own = sess[s].own
        /\ e.req_tag = sess[s].req_tag
        /\ e.credit = sess[s].credit + m.n /\ e.server_fin = sess[s].server_fin
        /\ e.sent = sess[s].sent
    BY <1>2, <2>1 DEF Session
  <2> HIDE DEF e
  <2>3. sess' = [sess EXCEPT ![s] = e]
    BY <1>3, <1>7 DEF e
  <2>4. Keeps(m)
    BY <1>1, <1>2, <1>7, <2>2, <2>3 DEF Keeps
  <2> QED BY <1>1, <1>2, <2>2, <2>3, <2>4 DEF m
<1>8. CASE /\ m.cmd # "ReqCreated"
           /\ ~(m.cmd = "ReqClientFinished" /\ Matches(m))
           /\ ~(m.cmd = "ReqClientClosed" /\ Matches(m))
           /\ ~(m.cmd = "ReqClientQuota" /\ Matches(m))
  <2>1. sess' = sess
    BY <1>3, <1>8
  <2>2. Keeps(m)
    BY <1>8, <2>1 DEF Keeps
  <2> QED BY <1>1, <2>1, <2>2 DEF m
<1> QED BY <1>4, <1>5, <1>6, <1>7, <1>8

LEMMA ReceivesIInv ==
    ASSUME IInv, ServerReceives
    PROVE  IInv'
<1> DEFINE m == Head(north)
<1>1. /\ TypeOK /\ Named /\ TaskParts /\ Held /\ Silent /\ EndsMeant /\ NothingAfterEnd
  BY DEF IInv
<1>2. /\ north # << >> /\ north' = Tail(north) /\ north \in Seq(Msg) /\ m \in Msg
      /\ UNCHANGED << alive, reqq, req_count, task, rx, south, client >>
      /\ sess' \in [Slot -> Session]
      /\ \A s \in Slot : s # m.req_idx => sess'[s] = sess[s]
      /\ Opens(m) \/ Shuts(m) \/ Keeps(m)
  BY ReceivesFacts
<1>3. /\ north' \in Seq(Msg) /\ m = north[1] /\ 1 \in DOMAIN north
      /\ \A k \in DOMAIN north' : k + 1 \in DOMAIN north /\ north'[k] = north[k + 1]
      /\ DOMAIN north' \subseteq Int
  BY <1>2, TailFacts
<1> HIDE DEF m
<1>4. TypeOK'
  BY <1>1, <1>2, <1>3 DEF TypeOK
<1>5. Named'
  <2>1. ASSUME NEW k \in DOMAIN north' PROVE Names(north'[k])
    BY <1>1, <1>3 DEF Named
  <2>2. ASSUME NEW x \in Slot, sess'[x].open
        PROVE  LET r == sess'[x].own
               IN  /\ r \in Req /\ task[r].st # "new" /\ task[r].req_idx = x
                   /\ task[r].req_tag = sess'[x].req_tag
    <3>1. CASE x # m.req_idx
      BY <1>1, <1>2, <2>2, <3>1 DEF Named
    <3>2. CASE x = m.req_idx /\ Opens(m)
      BY <1>1, <1>2, <1>3, <3>2, MsgFacts DEF Named, Names, Opens
    <3>3. CASE x = m.req_idx /\ Shuts(m)
      BY <2>2, <3>3 DEF Shuts
    <3>4. CASE x = m.req_idx /\ Keeps(m)
      BY <1>1, <2>2, <3>4 DEF Named, Keeps
    <3> QED BY <1>2, <3>1, <3>2, <3>3, <3>4
  <2>3. \A k \in DOMAIN south : Names(south[k])
    BY <1>1 DEF Named
  <2> QED BY <1>2, <2>1, <2>2, <2>3 DEF Named, Names
<1>6. Silent'
  BY <1>1, <1>2 DEF Silent
<1>7. TaskParts' /\ Held'
  BY <1>1, <1>2 DEF TaskParts, Held
<1>8. EndsMeant'
  BY <1>1, <1>2, <1>3 DEF EndsMeant
<1>9. NothingAfterEnd'
  <2> SUFFICES ASSUME NEW k \in DOMAIN north', NEW l \in DOMAIN north', k < l,
                      north'[k].own = north'[l].own, north'[k].cmd \in Ends
               PROVE  north'[l].cmd # "ReqData" /\ north'[k].cmd # "ReqClientClosed"
    BY DEF NothingAfterEnd
  <2>1. k + 1 \in DOMAIN north /\ l + 1 \in DOMAIN north /\ k + 1 < l + 1
    BY <1>3
  <2> QED BY <1>1, <1>3, <2>1 DEF NothingAfterEnd
<1> QED BY <1>4, <1>5, <1>6, <1>7, <1>8, <1>9 DEF IInv

\* What the tunnel does with a message m of the server.
Delivers(m) ==
    /\ m.cmd = "ReqData" /\ UNCHANGED << reqq, req_count >>
    /\ IF Reachable(m)
         THEN LET r == reqq.elements[m.req_idx].request_tx
              IN  /\ r \in Req /\ rx' = [rx EXCEPT ![r] = Append(@, m)]
         ELSE rx' = rx

Drops(m) ==
    /\ m.cmd = "ReqServerFinished" /\ UNCHANGED << req_count, rx >>
    /\ IF reqq.elements[m.req_idx].tag = m.req_tag
         THEN /\ reqq'.elements[m.req_idx].request_tx = NoReq
              /\ reqq'.elements[m.req_idx].tag = reqq.elements[m.req_idx].tag
              /\ reqq'.elements[m.req_idx].trigger = reqq.elements[m.req_idx].trigger
              /\ \A x \in Slot : x # m.req_idx => reqq'.elements[x] = reqq.elements[x]
         ELSE reqq' = reqq

Takes(m) ==
    /\ m.cmd = "ReqServerClosed" /\ UNCHANGED rx
    /\ IF reqq.elements[m.req_idx].tag = m.req_tag
         THEN GivenBack(m.req_idx, m.req_tag)
         ELSE reqq' = reqq

LEMMA DeliverFacts ==
    ASSUME IInv, on_tunnel_msg
    PROVE  /\ alive /\ south # << >> /\ south' = Tail(south) /\ south \in Seq(Msg)
           /\ Head(south) \in Msg /\ Names(Head(south))
           /\ UNCHANGED << alive, task, north, client, sess >>
           /\ rx' \in [Req -> Seq(Msg)]
           /\ reqq' \in Table /\ Accounted(reqq', req_count')
           /\ Delivers(Head(south)) \/ Drops(Head(south)) \/ Takes(Head(south))
<1> DEFINE m == Head(south)
           s == m.req_idx
<1>1. /\ alive /\ south # << >> /\ south' = Tail(south) /\ south \in Seq(Msg) /\ m \in Msg
      /\ UNCHANGED << alive, task, north, client, sess >> /\ rx \in [Req -> Seq(Msg)]
      /\ m = south[1] /\ 1 \in DOMAIN south
      /\ on_data(m) \/ on_server_finished(m) \/ on_server_closed(m)
  BY TailFacts DEF on_tunnel_msg, IInv, TypeOK
<1>2. /\ s \in Slot /\ m.req_tag \in Tag /\ m.own \in Req /\ Names(m)
      /\ reqq \in Table /\ Accounted(reqq, req_count)
  BY <1>1, MsgFacts DEF IInv, TypeOK, Named
<1>3. m.req_tag % 2 = 1
  BY <1>2 DEF Names, IInv, TaskParts
<1> HIDE DEF m
<1>4. CASE on_data(m)
  <2>1. UNCHANGED << reqq, req_count >> /\ m.cmd = "ReqData"
    BY <1>4 DEF on_data
  <2>2. CASE Reachable(m)
    <3> DEFINE r == reqq.elements[s].request_tx
    <3>1. r \in Req
      BY <1>2, <2>2, TableFacts DEF Reachable
    <3>2. rx' = [rx EXCEPT ![r] = Append(@, m)]
      BY <1>4, <2>2 DEF on_data
    <3> HIDE DEF r
    <3>3. rx' \in [Req -> Seq(Msg)]
      BY <1>1, <3>1, <3>2, AppendFacts
    <3> QED BY <1>1, <1>2, <2>1, <2>2, <3>1, <3>2, <3>3 DEF Delivers, m, r
  <2>3. CASE ~Reachable(m)
    <3>1. rx' = rx
      BY <1>4, <2>3 DEF on_data
    <3> QED BY <1>1, <1>2, <2>1, <2>3, <3>1 DEF Delivers, m
  <2> QED BY <2>2, <2>3
<1>5. CASE on_server_finished(m)
  <2>1. m.cmd = "ReqServerFinished" /\ UNCHANGED << req_count, rx >>
    BY <1>5 DEF on_server_finished
  <2>2. CASE reqq.elements[s].tag = m.req_tag
    <3>1. reqq' = [reqq EXCEPT !.elements[s].request_tx = NoReq]
      BY <1>5, <2>2 DEF on_server_finished
    <3>2. /\ reqq' \in Table /\ Accounted(reqq', req_count')
          /\ reqq'.elements = [reqq.elements EXCEPT ![s] = [reqq.elements[s] EXCEPT !.request_tx = NoReq]]
      BY <1>2, <2>1, <3>1, FinishAccounted
    <3>3. reqq.elements \in [Slot -> Element] /\ reqq.elements[s] \in Element
      BY <1>2 DEF Table
    <3>4. /\ reqq'.elements[s].request_tx = NoReq
          /\ reqq'.elements[s].tag = reqq.elements[s].tag
          /\ reqq'.elements[s].trigger = reqq.elements[s].trigger
          /\ \A x \in Slot : x # s => reqq'.elements[x] = reqq.elements[x]
      BY <1>2, <3>2, <3>3 DEF Element
    <3> QED BY <1>1, <1>2, <2>1, <2>2, <3>2, <3>4 DEF Drops, m
  <2>3. CASE reqq.elements[s].tag # m.req_tag
    <3>1. reqq' = reqq
      BY <1>5, <2>3 DEF on_server_finished
    <3> QED BY <1>1, <1>2, <2>1, <2>3, <3>1 DEF Drops, m
  <2> QED BY <2>2, <2>3
<1>6. CASE on_server_closed(m)
  <2>1. m.cmd = "ReqServerClosed" /\ UNCHANGED rx
    BY <1>6 DEF on_server_closed
  <2>2. CASE reqq.elements[s].tag = m.req_tag
    <3>1. free_ok(reqq, s, m.req_tag)
      BY <1>2, <2>2 DEF free_ok
    <3>2. reqq' = free(reqq, s, m.req_tag) /\ req_count' = req_count - 1
      BY <1>6, <3>1 DEF on_server_closed
    <3>3. /\ reqq' \in Table /\ Accounted(reqq', req_count')
          /\ GivenBack(s, m.req_tag)
      BY <1>1, <1>2, <1>3, <3>1, <3>2, Freed
    <3> QED BY <1>1, <1>2, <2>1, <2>2, <3>3 DEF Takes, m
  <2>3. CASE reqq.elements[s].tag # m.req_tag
    <3>1. reqq' = reqq /\ req_count' = req_count
      BY <1>6, <2>3 DEF on_server_closed, free_ok
    <3> QED BY <1>1, <1>2, <2>1, <2>3, <3>1 DEF Takes, m
  <2> QED BY <2>2, <2>3
<1> QED BY <1>1, <1>4, <1>5, <1>6

LEMMA DeliverIInv ==
    ASSUME IInv, on_tunnel_msg
    PROVE  IInv'
<1> DEFINE m == Head(south)
<1>1. /\ TypeOK /\ Named /\ TaskParts /\ Held /\ Silent /\ EndsMeant /\ NothingAfterEnd
  BY DEF IInv
<1>2. /\ alive /\ south # << >> /\ south' = Tail(south) /\ south \in Seq(Msg)
      /\ m \in Msg /\ Names(m)
      /\ UNCHANGED << alive, task, north, client, sess >>
      /\ rx' \in [Req -> Seq(Msg)]
      /\ reqq' \in Table /\ Accounted(reqq', req_count')
      /\ Delivers(m) \/ Drops(m) \/ Takes(m)
  BY DeliverFacts
<1>3. /\ south' \in Seq(Msg)
      /\ \A k \in DOMAIN south' : k + 1 \in DOMAIN south /\ south'[k] = south[k + 1]
  BY <1>2, TailFacts
<1>4. m.req_idx \in Slot /\ rx \in [Req -> Seq(Msg)]
  BY <1>1, <1>2, MsgFacts DEF TypeOK
<1> HIDE DEF m
<1>5. TypeOK'
  BY <1>1, <1>2, <1>3 DEF TypeOK
<1>6. Named'
  BY <1>1, <1>2, <1>3 DEF Named, Names
<1>7. TaskParts'
  <2>1. ASSUME NEW r \in Req, task[r].st = "new" PROVE rx'[r] = << >>
    <3>1. rx[r] = << >> /\ ~task[r].sending
      BY <1>1, <2>1 DEF TaskParts
    <3>2. CASE Delivers(m)
      BY <1>4, <3>1, <3>2 DEF Delivers, Reachable
    <3>3. CASE Drops(m) \/ Takes(m)
      BY <3>1, <3>3 DEF Drops, Takes
    <3> QED BY <1>2, <3>2, <3>3
  <2> QED BY <1>1, <1>2, <2>1 DEF TaskParts
<1>8. Held'
  <2>1. CASE Delivers(m)
    BY <1>1, <1>2, <2>1 DEF Delivers, Held
  <2>2. CASE Drops(m)
    <3>1. \A s \in Slot : /\ reqq'.elements[s].tag = reqq.elements[s].tag
                          /\ reqq'.elements[s].trigger = reqq.elements[s].trigger
      BY <1>4, <2>2 DEF Drops
    <3> QED BY <1>1, <1>2, <3>1 DEF Held
  <2>3. CASE Takes(m)
    BY <1>1, <1>2, <1>4, <2>3 DEF Takes, GivenBack, Held
  <2> QED BY <1>2, <2>1, <2>2, <2>3
<1>9. Silent'
  BY <1>2 DEF Silent
<1>10. EndsMeant' /\ NothingAfterEnd'
  BY <1>1, <1>2 DEF EndsMeant, NothingAfterEnd
<1> QED BY <1>5, <1>6, <1>7, <1>8, <1>9, <1>10 DEF IInv

LEMMA ClosedIInv ==
    ASSUME IInv, on_closed
    PROVE  IInv'
<1>1. /\ TypeOK /\ Named /\ TaskParts /\ Held /\ Silent /\ EndsMeant /\ NothingAfterEnd
  BY DEF IInv
<1>2. /\ alive' = FALSE /\ reqq' = clear_all(reqq) /\ north' = << >> /\ south' = << >>
      /\ sess' = [s \in Slot |-> NoSession]
      /\ UNCHANGED << req_count, task, rx, client >>
  BY DEF on_closed
<1>3. reqq' \in Table
  BY <1>1, <1>2, ClearTable DEF TypeOK
<1>4. NoSession \in Session /\ ~NoSession.open
  BY Consts DEF NoSession, Session
<1>5. \A s \in Slot : ~sess'[s].open
  BY <1>2, <1>4
<1>6. \A s \in Slot : reqq'.elements[s].trigger = NoReq
  BY <1>2 DEF clear_all, clean_req
<1>7. TypeOK'
  <2>1. alive' \in BOOLEAN /\ ~alive'
    BY <1>2
  <2>2. north' \in Seq(Msg) /\ south' \in Seq(Msg) /\ sess' \in [Slot -> Session]
    BY <1>2, <1>4
  <2> QED BY <1>1, <1>2, <1>3, <2>1, <2>2 DEF TypeOK
<1>8. Named' /\ Silent' /\ Held' /\ EndsMeant' /\ NothingAfterEnd'
  BY <1>2, <1>5, <1>6 DEF Named, Silent, Held, EndsMeant, NothingAfterEnd
<1>9. TaskParts'
  BY <1>1, <1>2 DEF TaskParts
<1> QED BY <1>7, <1>8, <1>9 DEF IInv

\* A step of the tunnel, by what it does.
LEMMA StepKinds ==
    ASSUME IInv, [Next]_vars
    PROVE  \/ \E r \in Req : on_request_created(r)
           \/ \E r \in Req : \E t \in Task, ms \in Seq(Msg) : Speaks(r, t, ms)
           \/ \E r \in Req : ClientEnds(r)
           \/ \E s \in Slot : \E m, e : Replies(s, m, e)
           \/ ServerReceives
           \/ on_tunnel_msg
           \/ on_closed
           \/ UNCHANGED vars
<1>1. ASSUME NEW r \in Req, TaskNext(r)
      PROVE  on_request_created(r) \/ \E t \in Task, ms \in Seq(Msg) : Speaks(r, t, ms)
  BY <1>1, Talk DEF TaskNext, TaskSteps
<1> QED BY <1>1, ServerFacts DEF Next

LEMMA NextIInv == IInv /\ [Next]_vars => IInv'
<1> SUFFICES ASSUME IInv, [Next]_vars PROVE IInv'
  OBVIOUS
<1>1. ASSUME UNCHANGED vars PROVE IInv'
  <2>1. UNCHANGED << alive, reqq, req_count, task, rx, north, south, client, sess >>
    BY <1>1 DEF vars, clientSide
  <2>2. TypeOK'
    BY <2>1 DEF IInv, TypeOK
  <2> QED BY <2>1, <2>2 DEF IInv, Named, Names, TaskParts, Held, Silent, EndsMeant,
                            NothingAfterEnd
<1> QED BY <1>1, StepKinds, CreatedIInv, SpeaksIInv, ClientEndsIInv, RepliesIInv, ReceivesIInv,
           DeliverIInv, ClosedIInv

\* The inductive invariant, for all values of the constants.
THEOREM Invariance == Spec => []IInv
<1> QED BY InitIInv, NextIInv, PTL DEF Spec

\* The variables keep their types, and req_count is exactly the number of slots in
\* use as long as the tunnel is up, although both ends close requests (TypeOK).
THEOREM TypeCorrect == Spec => []TypeOK
<1>1. IInv => TypeOK
  BY DEF IInv
<1> QED BY <1>1, Invariance, PTL

\* ReqClientFinished is the last word of a receiving future and ReqClientClosed
\* that of a request task (NothingAfterEnd).
THEOREM EndsAreLast == Spec => []NothingAfterEnd
<1>1. IInv => NothingAfterEnd
  BY DEF IInv
<1> QED BY <1>1, Invariance, PTL

-----------------------------------------------------------------------------
(***************************************************************************)
(* TInv holds and is preserved, if the tags suffice: what the server and   *)
(* the tunnel know of a slot agrees, and the quota is all there.           *)
(***************************************************************************)

LEMMA InitTInv == Init => TInv
<1> SUFFICES ASSUME Init PROVE TInv
  OBVIOUS
<1> USE DEF Init
<1>1. Started = {} /\ \A s \in Slot : Served(s) = {}
  BY DEF Started, Served
<1>2. TagsUnique
  <2>1. Cardinality({}) = 0 /\ IsFiniteSet({})
    BY FS_EmptySet
  <2>2. \A s \in Slot : reqq.elements[s].tag = 0
    BY DEF new
  <2>3. 0 <= 2 * 0 /\ ~(0 % 2 = 1)
    OBVIOUS
  <2>4. \A s \in Slot : /\ IsFiniteSet(Served(s)) /\ reqq.elements[s].tag <= 2 * Cardinality(Served(s))
                        /\ ~(reqq.elements[s].tag % 2 = 1)
    BY <1>1, <2>1, <2>2, <2>3
  <2>5. \A r, q \in Started : r = q
    BY <1>1
  <2>6. \A r \in Started : task[r].req_tag <= SlotOf(r).tag
    BY <1>1
  <2> HIDE DEF Init
  <2> QED BY <2>4, <2>5, <2>6 DEF TagsUnique
<1>3. \A s \in Slot : ~sess[s].open
  BY DEF NoSession
<1> QED BY <1>2, <1>3 DEF TInv, Announced, Forgotten, WillBeTold, ToldInOrder, DataFirst,
                          ReportsWhole, QuotaKept

\* Served in the next state.
ServedThen(s) == {r \in Req : task'[r].st # "new" /\ task'[r].req_idx = s}

\* The requests that a slot has served: their number, and one more.
LEMMA ServedFacts ==
    ASSUME TagsUnique, alive, NEW i \in Slot
    PROVE  /\ IsFiniteSet(Served(i)) /\ Cardinality(Served(i)) \in Nat
           /\ \A r \in Req \ Served(i) :
                /\ IsFiniteSet(Served(i) \cup {r})
                /\ Cardinality(Served(i) \cup {r}) = Cardinality(Served(i)) + 1
<1>1. IsFiniteSet(Served(i))
  BY DEF TagsUnique
<1> QED BY <1>1, FS_CardinalityType, FS_AddElement

\* A slot and a tag name one request, on the wire, in a session and in the table.
LEMMA OneName ==
    ASSUME IInv, TagsUnique
    PROVE  /\ \A m \in Msg, s \in Slot :
                /\ Names(m) /\ sess[s].open
                => (m.req_idx = s /\ m.req_tag = sess[s].req_tag <=> m.own = sess[s].own)
           /\ \A r \in Started :
                /\ task[r].req_idx \in Slot /\ task[r].req_tag \in Tag
                /\ alive /\ SlotOf(r).tag = task[r].req_tag => SlotOf(r).trigger = r
           /\ \A s \in Slot, r \in Req :
                reqq.elements[s].trigger = r => /\ task[r].req_idx = s /\ task[r].st = "open"
                                                /\ task[r].req_tag = reqq.elements[s].tag
                                                /\ r \in Started
<1>1. ASSUME NEW m \in Msg, NEW s \in Slot, Names(m), sess[s].open
      PROVE  m.req_idx = s /\ m.req_tag = sess[s].req_tag <=> m.own = sess[s].own
  <2>1. /\ sess[s].own \in Started /\ task[sess[s].own].req_idx = s
        /\ task[sess[s].own].req_tag = sess[s].req_tag
    BY <1>1 DEF IInv, Named, Started
  <2>2. /\ m.own \in Started /\ m.req_idx = task[m.own].req_idx
        /\ m.req_tag = task[m.own].req_tag
    BY <1>1, MsgFacts DEF Names, Started
  <2> QED BY <2>1, <2>2 DEF TagsUnique
<1>2. ASSUME NEW s \in Slot, NEW r \in Req, reqq.elements[s].trigger = r
      PROVE  /\ task[r].req_idx = s /\ task[r].st = "open"
             /\ task[r].req_tag = reqq.elements[s].tag /\ r \in Started
  BY <1>2, Consts DEF IInv, Held, Started
<1>3. ASSUME NEW r \in Started
      PROVE  /\ r \in Req /\ task[r].req_idx \in Slot /\ task[r].req_tag \in Tag
             /\ task[r].req_tag % 2 = 1
  BY DEF Started, IInv, TypeOK, Task, TaskParts
<1>4. ASSUME NEW r \in Started, alive, SlotOf(r).tag = task[r].req_tag
      PROVE  SlotOf(r).trigger = r
  <2> DEFINE q == SlotOf(r).trigger
  <2>1. q \in Req
    BY <1>3, <1>4, TableFacts DEF SlotOf
  <2>2. /\ task[q].req_idx = task[r].req_idx /\ task[q].req_tag = task[r].req_tag
        /\ q \in Started
    BY <1>2, <1>3, <1>4, <2>1 DEF SlotOf
  <2> QED BY <2>2 DEF TagsUnique
<1> QED BY <1>1, <1>2, <1>3, <1>4

\* The tags when a slot is given back.
LEMMA TagsGivenBack ==
    ASSUME IInv, TagsUnique, TagsSuffice, alive,
           NEW i \in Slot, NEW g \in Tag, g % 2 = 1, GivenBack(i, g),
           alive', Started' = Started,
           \A q \in Req : task'[q].req_idx = task[q].req_idx /\ task'[q].req_tag = task[q].req_tag
    PROVE  TagsUnique'
<1> DEFINE n == Cardinality(Served(i))
<1>0. \A s \in Slot : ServedThen(s) = Served(s)
  BY DEF Served, ServedThen, Started
<1>1. n \in Nat /\ 2 * n < TagMod /\ TagMod \in Nat
  BY ServedFacts, Consts DEF TagsSuffice
<1>2. g = reqq.elements[i].tag /\ g < 2 * n
  BY DEF TagsUnique, GivenBack
<1>3. bump(g) = g + 1 /\ g \in Nat /\ (g + 1) % 2 = 0
  <2>1. g \in Nat /\ g + 1 < TagMod
    BY <1>1, <1>2 DEF Tag
  <2> QED BY <1>1, <2>1 DEF bump
<1>4. reqq'.elements[i].tag = g + 1 /\ \A x \in Slot : x # i => reqq'.elements[x] = reqq.elements[x]
  BY <1>3 DEF GivenBack
<1>5. ASSUME NEW r \in Started PROVE task[r].req_tag <= reqq'.elements[task[r].req_idx].tag
  <2>1. /\ task[r].req_tag <= reqq.elements[task[r].req_idx].tag /\ task[r].req_tag \in Nat
        /\ task[r].req_idx \in Slot
    BY OneName DEF TagsUnique, SlotOf, Tag
  <2>2. CASE task[r].req_idx = i
    BY <1>2, <1>3, <1>4, <2>1, <2>2
  <2>3. CASE task[r].req_idx # i
    BY <1>4, <2>1, <2>3
  <2> QED BY <2>2, <2>3
<1>6. ASSUME NEW s \in Slot
      PROVE  LET t == reqq'.elements[s].tag
                 c == Cardinality(Served(s))
             IN  IsFiniteSet(Served(s)) /\ t <= 2 * c /\ (t % 2 = 1 => t < 2 * c)
  <2>0. IsFiniteSet(Served(s))
    BY DEF TagsUnique
  <2>1. CASE s = i
    BY <1>1, <1>2, <1>3, <1>4, <2>0, <2>1
  <2>2. CASE s # i
    BY <1>4, <2>0, <2>2 DEF TagsUnique
  <2> QED BY <2>1, <2>2
<1>7. \A r \in Started : r \in Req
  BY DEF Started
<1> QED BY <1>0, <1>5, <1>6, <1>7 DEF TagsUnique, SlotOf, Served, ServedThen

\* The tags when none is changed.
LEMMA TagsSame ==
    ASSUME TagsUnique, alive' => alive, Started' = Started,
           \A q \in Req : task'[q].req_idx = task[q].req_idx /\ task'[q].req_tag = task[q].req_tag,
           alive' => \A s \in Slot : reqq'.elements[s].tag = reqq.elements[s].tag,
           \A r \in Started : task[r].req_idx \in Slot
    PROVE  TagsUnique'
<1>1. \A r \in Started : r \in Req
  BY DEF Started
<1>2. \A s \in Slot : ServedThen(s) = Served(s)
  BY DEF Served, ServedThen, Started
<1> QED BY <1>1, <1>2 DEF TagsUnique, SlotOf, Served, ServedThen

\* SlotOf, CloseOf, DataOf and ReportsOf in the next state.
SlotThen(r) == reqq'.elements[task'[r].req_idx]
CloseThen(r, k) == north'[k].cmd = "ReqClientClosed" /\ north'[k].own = r
DataThen(r) == {k \in DOMAIN south' : south'[k].cmd = "ReqData" /\ south'[k].own = r}
ReportsThen(r) == {k \in DOMAIN north' : north'[k].cmd = "ReqClientQuota" /\ north'[k].own = r}

\* The owner of a session, and of a message.
LEMMA SessionFacts ==
    ASSUME IInv, NEW s \in Slot, sess[s].open
    PROVE  /\ sess[s].own \in Req /\ sess[s].own \in Started
           /\ task[sess[s].own].req_idx = s /\ task[sess[s].own].req_tag = sess[s].req_tag
           /\ task[sess[s].own].st # "new" /\ alive
           /\ sess[s].credit \in Int
  BY DEF IInv, Named, Started, Silent, TypeOK, Session

LEMMA MessageOwners ==
    ASSUME IInv
    PROVE  /\ north \in Seq(Msg) /\ south \in Seq(Msg)
           /\ \A k \in DOMAIN north : /\ north[k] \in Msg /\ north[k].own \in Started
                                      /\ north[k].own \in Req /\ Names(north[k])
           /\ \A k \in DOMAIN south : /\ south[k] \in Msg /\ south[k].own \in Started
                                      /\ south[k].own \in Req /\ Names(south[k])
<1>1. north \in Seq(Msg) /\ south \in Seq(Msg)
  BY DEF IInv, TypeOK
<1> QED BY <1>1, MsgFacts DEF IInv, Named, Names, Started

\* A new request takes the next tag of a slot that the server has let go of, or
\* will have when it reads of it.
LEMMA CreatedTInv ==
    ASSUME IInv, TInv, TagsSuffice', NEW r \in Req, on_request_created(r)
    PROVE  TInv'
<1>1. /\ TagsUnique /\ Announced /\ Forgotten /\ WillBeTold /\ ToldInOrder
      /\ DataFirst /\ ReportsWhole /\ QuotaKept
  BY DEF TInv
<1> DEFINE i == task'[r].req_idx
           g == task'[r].req_tag
           n == Cardinality(Served(i))
<1>2. PICK m \in Msg : /\ north' = Append(north, m)
                       /\ m.cmd = "ReqCreated" /\ m.own = r
                       /\ m.req_idx = i /\ m.req_tag = g
  BY CreatedFacts
<1>3. /\ alive /\ task[r].st = "new" /\ UNCHANGED << alive, south, rx, client, sess >>
      /\ task'[r].st = "open" /\ task'[r].write_out = 0
      /\ i \in Slot /\ g \in Tag /\ g % 2 = 1
      /\ \A q \in Req : q # r => task'[q] = task[q]
      /\ reqq.elements[i].trigger = NoReq /\ g = bump(reqq.elements[i].tag)
      /\ reqq'.elements[i].tag = g
      /\ reqq'.elements[i].trigger = r /\ reqq'.elements[i].request_tx = r
      /\ \A x \in Slot : x # i => reqq'.elements[x] = reqq.elements[x]
  BY CreatedFacts
<1>4. /\ DOMAIN north = 1 .. Len(north) /\ Len(north) \in Nat
      /\ DOMAIN north' = 1 .. Len(north) + 1
      /\ \A k \in DOMAIN north : north'[k] = north[k]
      /\ north'[Len(north) + 1] = m
  BY <1>2, MessageOwners, AppendFacts
<1>5. r \notin Started /\ \A q \in Started : q \in Req /\ q # r /\ task'[q] = task[q]
  BY <1>3 DEF Started
<1>6. Started' = Started \cup {r}
  BY <1>3, <1>5 DEF Started
<1>7. \A q \in Started : /\ task[q].req_idx \in Slot
                         /\ (task[q].req_idx = i => SlotOf(q).trigger # q)
                         /\ (SlotThen(q) = SlotOf(q) \/ SlotThen(q).trigger # q)
  <2> SUFFICES ASSUME NEW q \in Started
               PROVE  /\ task[q].req_idx \in Slot
                      /\ (task[q].req_idx = i => reqq.elements[task[q].req_idx].trigger # q)
                      /\ \/ reqq'.elements[task[q].req_idx] = reqq.elements[task[q].req_idx]
                         \/ reqq'.elements[task[q].req_idx].trigger # q
    BY <1>5 DEF SlotOf, SlotThen
  <2>1. task[q].req_idx \in Slot
    BY <1>1, OneName
  <2> QED BY <1>3, <1>5, <2>1, Consts
<1> HIDE DEF i, g
<1>8. TagsUnique'
  <2>0. /\ ServedThen(i) = Served(i) \cup {r} /\ r \notin Served(i)
        /\ \A s \in Slot : s # i => ServedThen(s) = Served(s)
    <3>1. \A q \in Req : (task'[q].st # "new" /\ task'[q].req_idx = i)
                            <=> (q = r \/ (task[q].st # "new" /\ task[q].req_idx = i))
      BY <1>3 DEF i
    <3>2. \A s \in Slot : s # i => \A q \in Req :
            (task'[q].st # "new" /\ task'[q].req_idx = s)
              <=> (task[q].st # "new" /\ task[q].req_idx = s)
      BY <1>3 DEF i
    <3> QED BY <1>3, <3>1, <3>2 DEF Served, ServedThen
  <2>1. /\ n \in Nat /\ TagMod \in Nat /\ Cardinality(ServedThen(i)) = n + 1
        /\ IsFiniteSet(ServedThen(i)) /\ 2 * (n + 1) < TagMod
    <3>1. n \in Nat /\ Cardinality(ServedThen(i)) = n + 1 /\ IsFiniteSet(ServedThen(i))
      BY <1>1, <1>3, <2>0, ServedFacts
    <3>2. 2 * Cardinality(ServedThen(i)) < TagMod
      BY <1>3 DEF TagsSuffice, Served, ServedThen
    <3> QED BY <3>1, <3>2, Consts
  <2> DEFINE t == reqq.elements[i].tag
  <2>2. t \in Nat /\ t % 2 = 0 /\ t <= 2 * n
    BY <1>1, <1>3, TableFacts DEF Tag, TagsUnique
  <2>3. g = t + 1
    BY <1>3, <2>1, <2>2 DEF bump
  <2> HIDE DEF t, n
  <2>4. ASSUME NEW q \in Started
        PROVE  /\ task[q].req_tag \in Nat
               /\ task[q].req_tag <= reqq'.elements[task[q].req_idx].tag
               /\ task[q].req_idx = i => task[q].req_tag # g
    <3>1. /\ task[q].req_tag \in Nat
          /\ task[q].req_tag <= reqq.elements[task[q].req_idx].tag
      BY <1>1, <1>3, OneName DEF TagsUnique, SlotOf, Tag, SlotThen
    <3>2. CASE task[q].req_idx = i
      <4>1. task[q].req_tag <= t
        BY <3>1, <3>2 DEF t
      <4> QED BY <1>3, <2>2, <2>3, <3>1, <3>2, <4>1
    <3>3. CASE task[q].req_idx # i
      BY <1>3, <1>7, <3>1, <3>3
    <3> QED BY <3>2, <3>3
  <2>5. ASSUME NEW s \in Slot
        PROVE  LET u == reqq'.elements[s].tag
                   c == Cardinality(ServedThen(s))
               IN  IsFiniteSet(ServedThen(s)) /\ u <= 2 * c /\ (u % 2 = 1 => u < 2 * c)
    <3>1. CASE s = i
      BY <1>3, <2>1, <2>2, <2>3, <3>1
    <3>2. CASE s # i
      <4>1. reqq'.elements[s].tag = reqq.elements[s].tag /\ ServedThen(s) = Served(s)
        BY <1>3, <2>0, <3>2
      <4> QED BY <1>1, <1>3, <4>1 DEF TagsUnique
    <3> QED BY <3>1, <3>2
  <2>6. \A q \in Started' : task'[q].req_tag <= reqq'.elements[task'[q].req_idx].tag
    <3>1. task'[r].req_tag <= reqq'.elements[task'[r].req_idx].tag
      BY <1>3, <2>2, <2>3 DEF i, g
    <3> QED BY <1>5, <1>6, <2>4, <3>1
  <2>7. \A p, q \in Started' : /\ task'[p].req_idx = task'[q].req_idx
                               /\ task'[p].req_tag = task'[q].req_tag
                               => p = q
    BY <1>1, <1>5, <1>6, <2>4 DEF TagsUnique, i, g
  <2> QED BY <2>1, <2>5, <2>6, <2>7 DEF TagsUnique, SlotOf, SlotThen, Served, ServedThen
<1>9. Announced'
  <2> SUFFICES ASSUME NEW k \in DOMAIN north', north'[k].cmd = "ReqCreated"
               PROVE  LET q == north'[k].own IN
                      /\ \A l \in DOMAIN north' : l # k /\ north'[l].own = q =>
                           l > k /\ north'[l].cmd \notin {"ReqCreated", "ReqClientQuota"}
                      /\ \A l \in DOMAIN south : south[l].own # q
                      /\ \A s \in Slot : sess[s].open => sess[s].own # q
                      /\ rx[q] = << >> /\ task'[q].write_out = 0
                      /\ SlotThen(q).trigger = q => SlotThen(q).request_tx = q
    BY <1>3 DEF Announced, SlotOf, SlotThen
  <2>1. CASE k \in DOMAIN north
    <3> DEFINE q == north[k].own
    <3>1. q \in Started /\ north'[k] = north[k]
      BY <1>4, <2>1, MessageOwners
    <3>2. /\ \A l \in DOMAIN north : l # k /\ north[l].own = q =>
               l > k /\ north[l].cmd \notin {"ReqCreated", "ReqClientQuota"}
          /\ \A l \in DOMAIN south : south[l].own # q
          /\ \A s \in Slot : sess[s].open => sess[s].own # q
          /\ rx[q] = << >> /\ task[q].write_out = 0
          /\ SlotOf(q).trigger = q => SlotOf(q).request_tx = q
      BY <1>1, <2>1, <3>1 DEF Announced
    <3> HIDE DEF q
    <3>3. \A l \in DOMAIN north' : l # k /\ north'[l].own = q =>
               l > k /\ north'[l].cmd \notin {"ReqCreated", "ReqClientQuota"}
      BY <1>2, <1>4, <1>5, <3>1, <3>2
    <3>4. SlotThen(q).trigger = q => SlotThen(q).request_tx = q
      BY <1>7, <3>1, <3>2
    <3> QED BY <1>5, <3>1, <3>2, <3>3, <3>4 DEF q
  <2>2. CASE k \notin DOMAIN north
    <3>1. north'[k].own = r /\ k = Len(north) + 1
      BY <1>2, <1>4, <2>2
    <3>2. \A l \in DOMAIN north' : l # k => north'[l].own # r
      BY <1>4, <1>5, <3>1, MessageOwners
    <3>3. \A l \in DOMAIN south : south[l].own # r
      BY <1>5, MessageOwners
    <3>4. \A s \in Slot : sess[s].open => sess[s].own # r
      BY <1>5, SessionFacts
    <3>5. rx[r] = << >>
      BY <1>3 DEF IInv, TaskParts
    <3>6. SlotThen(r).request_tx = r
      BY <1>3 DEF SlotOf, i, SlotThen
    <3> QED BY <1>3, <3>1, <3>2, <3>3, <3>4, <3>5, <3>6
  <2> QED BY <2>1, <2>2
<1>10. Forgotten'
  BY <1>1, <1>3 DEF Forgotten
<1>11. \A s \in Slot : sess[s].open =>
         LET q == sess[s].own
         IN  /\ q \in Started
             /\ SlotThen(q).trigger = q \/ \E k \in DOMAIN north : CloseOf(q, k)
             /\ s = i => \E k \in DOMAIN north : CloseOf(q, k)
  <2> SUFFICES ASSUME NEW s \in Slot, sess[s].open
               PROVE  LET q == sess[s].own
                      IN  /\ q \in Started
                          /\ SlotThen(q).trigger = q \/ \E k \in DOMAIN north : CloseOf(q, k)
                          /\ s = i => \E k \in DOMAIN north : CloseOf(q, k)
    OBVIOUS
  <2> DEFINE q == sess[s].own
  <2>1. q \in Started /\ task[q].req_idx = s
    BY SessionFacts
  <2>2. SlotOf(q).trigger = q \/ \E k \in DOMAIN north : CloseOf(q, k)
    BY <1>1 DEF WillBeTold
  <2>3. SlotOf(q).trigger = q => s # i /\ SlotThen(q) = SlotOf(q)
    <3>1. SlotOf(q).trigger = q => s # i
      BY <1>7, <2>1
    <3> QED BY <1>3, <1>5, <2>1, <3>1 DEF SlotOf, SlotThen
  <2> QED BY <2>1, <2>2, <2>3
<1>12. \A q \in Req, k \in DOMAIN north : CloseOf(q, k) => CloseThen(q, k) /\ k \in DOMAIN north'
  BY <1>4 DEF CloseOf, CloseThen
<1>13. WillBeTold'
  <2>1. \A s \in Slot : sess[s].open =>
          SlotThen(sess[s].own).trigger = sess[s].own
            \/ \E k \in DOMAIN north' : CloseThen(sess[s].own, k)
    BY <1>11, <1>12, SessionFacts
  <2>2. ASSUME NEW k \in DOMAIN north', north'[k].cmd = "ReqCreated"
        PROVE  SlotThen(north'[k].own).trigger = north'[k].own
                 \/ \E l \in DOMAIN north' : k < l /\ CloseThen(north'[k].own, l)
    <3>1. CASE k \in DOMAIN north
      <4> DEFINE q == north[k].own
      <4>1. q \in Started /\ q \in Req /\ north'[k] = north[k]
        BY <1>4, <3>1, MessageOwners
      <4>2. SlotOf(q).trigger = q \/ \E l \in DOMAIN north : k < l /\ CloseOf(q, l)
        BY <1>1, <2>2, <3>1, <4>1 DEF WillBeTold
      <4>3. SlotOf(q).trigger = q => SlotThen(q) = SlotOf(q)
        <5>1. SlotOf(q).trigger = q => task[q].req_idx # i
          BY <1>7, <4>1
        <5> QED BY <1>3, <1>5, <1>7, <4>1, <5>1 DEF SlotOf, SlotThen
      <4> QED BY <1>12, <4>1, <4>2, <4>3
    <3>2. CASE k \notin DOMAIN north
      <4>1. north'[k].own = r
        BY <1>2, <1>4, <3>2
      <4>2. SlotThen(r).trigger = r
        BY <1>3 DEF SlotOf, i, SlotThen
      <4> QED BY <4>1, <4>2
    <3> QED BY <3>1, <3>2
  <2>3. sess' = sess
    BY <1>3
  <2> QED BY <2>1, <2>2, <2>3 DEF WillBeTold, SlotOf, SlotThen, CloseOf, CloseThen
<1>14. ToldInOrder'
  <2> SUFFICES ASSUME NEW k \in DOMAIN north', north'[k].cmd = "ReqCreated"
               PROVE  /\ \A j \in DOMAIN north' :
                           /\ j < k /\ north'[j].cmd = "ReqCreated"
                           /\ north'[j].req_idx = north'[k].req_idx
                           => \E l \in DOMAIN north' : j < l /\ l < k /\ CloseThen(north'[j].own, l)
                      /\ sess[north'[k].req_idx].open
                           => \E l \in DOMAIN north' : l < k /\ CloseThen(sess[north'[k].req_idx].own, l)
    BY <1>3 DEF ToldInOrder, CloseOf, CloseThen
  <2>1. CASE k \in DOMAIN north
    <3>1. ASSUME NEW j \in DOMAIN north', j < k, north'[j].cmd = "ReqCreated",
                 north'[j].req_idx = north'[k].req_idx
          PROVE  \E l \in DOMAIN north' : j < l /\ l < k /\ CloseThen(north'[j].own, l)
      <4>1. j \in DOMAIN north /\ north'[j] = north[j] /\ north'[k] = north[k] /\ north[j].own \in Req
        BY <1>4, <2>1, <3>1, MessageOwners
      <4> QED BY <1>1, <1>12, <2>1, <3>1, <4>1 DEF ToldInOrder
    <3>2. ASSUME sess[north'[k].req_idx].open
          PROVE  \E l \in DOMAIN north' : l < k /\ CloseThen(sess[north'[k].req_idx].own, l)
      <4>1. north'[k] = north[k] /\ north[k].req_idx \in Slot
        BY <1>4, <2>1, MessageOwners, MsgFacts
      <4>2. sess[north[k].req_idx].own \in Req
        BY <3>2, <4>1, SessionFacts
      <4> QED BY <1>1, <1>12, <2>1, <3>2, <4>1, <4>2 DEF ToldInOrder
    <3> QED BY <3>1, <3>2
  <2>2. CASE k \notin DOMAIN north
    <3>1. k = Len(north) + 1 /\ north'[k].req_idx = i /\ \A l \in DOMAIN north : l < k
      BY <1>2, <1>4, <2>2
    <3>2. ASSUME NEW j \in DOMAIN north', j < k, north'[j].cmd = "ReqCreated",
                 north'[j].req_idx = i
          PROVE  \E l \in DOMAIN north' : j < l /\ l < k /\ CloseThen(north'[j].own, l)
      <4> DEFINE q == north[j].own
      <4>1. j \in DOMAIN north /\ north'[j] = north[j]
        BY <1>4, <3>1, <3>2
      <4>2. q \in Started /\ q \in Req /\ task[q].req_idx = i
        BY <3>2, <4>1, MessageOwners DEF Names
      <4>3. \E l \in DOMAIN north : j < l /\ CloseOf(q, l)
        BY <1>1, <1>7, <3>2, <4>1, <4>2 DEF WillBeTold
      <4> QED BY <1>12, <3>1, <4>1, <4>2, <4>3
    <3>3. sess[i].open => \E l \in DOMAIN north' : l < k /\ CloseThen(sess[i].own, l)
      BY <1>3, <1>11, <1>12, <3>1, SessionFacts
    <3> QED BY <3>1, <3>2, <3>3
  <2> QED BY <2>1, <2>2
<1>15. DataFirst'
  <2>1. ASSUME NEW s \in Slot, sess[s].open
        PROVE  LET q == sess[s].own IN
               IF sess[s].server_fin
                 THEN SlotThen(q).trigger = q /\ SlotThen(q).request_tx # q =>
                        \A k \in DOMAIN south : south[k].own = q => south[k].cmd # "ReqData"
                 ELSE /\ SlotThen(q).trigger = q => SlotThen(q).request_tx = q
                      /\ \A k \in DOMAIN south : south[k].own = q => south[k].cmd # "ReqServerFinished"
    <3>1. sess[s].own \in Started
      BY <2>1, SessionFacts
    <3> QED BY <1>1, <1>7, <2>1, <3>1 DEF DataFirst
  <2> QED BY <1>1, <1>3, <2>1 DEF DataFirst, SlotOf, SlotThen
<1>16. ReportsWhole'
  BY <1>1, <1>2, <1>4 DEF ReportsWhole
<1>17. QuotaKept'
  <2> SUFFICES ASSUME NEW s \in Slot, sess[s].open, task'[sess[s].own].sending
               PROVE  sess[s].credit + Cardinality(DataThen(sess[s].own)) + Len(rx[sess[s].own])
                        + task'[sess[s].own].write_out
                        + (Quota \div 2) * Cardinality(ReportsThen(sess[s].own)) = Quota
    BY <1>3 DEF QuotaKept, DataOf, DataThen, ReportsOf, ReportsThen
  <2> DEFINE q == sess[s].own
  <2>1. q \in Started /\ task'[q] = task[q]
    BY <1>5, SessionFacts
  <2>2. DataThen(q) = DataOf(q)
    BY <1>3 DEF DataOf, DataThen
  <2>3. ReportsThen(q) = ReportsOf(q)
    BY <1>2, <1>4 DEF ReportsOf, ReportsThen
  <2> QED BY <1>1, <2>1, <2>2, <2>3 DEF QuotaKept
<1> QED BY <1>8, <1>9, <1>10, <1>13, <1>14, <1>15, <1>16, <1>17 DEF TInv

\* DataOf and ReportsOf as Hits.
DataMsgs(r) == {m \in Msg : m.cmd = "ReqData" /\ m.own = r}
ReportMsgs(r) == {m \in Msg : m.cmd = "ReqClientQuota" /\ m.own = r}

LEMMA CountFacts ==
    ASSUME IInv, NEW r \in Req
    PROVE  /\ DataOf(r) = Hits(south, DataMsgs(r)) /\ ReportsOf(r) = Hits(north, ReportMsgs(r))
           /\ Cardinality(DataOf(r)) \in Nat /\ Cardinality(ReportsOf(r)) \in Nat
           /\ (Quota \div 2) * Cardinality(ReportsOf(r)) \in Int
           /\ (Quota \div 2) * (Cardinality(ReportsOf(r)) + 1)
                = (Quota \div 2) * Cardinality(ReportsOf(r)) + Quota \div 2
           /\ Len(rx[r]) \in Nat /\ rx[r] \in Seq(Msg) /\ task[r].write_out \in Nat
<1>1. north \in Seq(Msg) /\ south \in Seq(Msg) /\ rx[r] \in Seq(Msg) /\ task[r] \in Task
  BY DEF IInv, TypeOK
<1>2. DataOf(r) = Hits(south, DataMsgs(r)) /\ ReportsOf(r) = Hits(north, ReportMsgs(r))
  BY <1>1 DEF DataOf, ReportsOf, Hits, DataMsgs, ReportMsgs
<1>3. Cardinality(DataOf(r)) \in Nat /\ Cardinality(ReportsOf(r)) \in Nat
  BY <1>1, <1>2, HitsFinite
<1>4. \A h, n \in Nat : h * n \in Int /\ h * (n + 1) = h * n + h
  OBVIOUS
<1>5. task[r].write_out \in Nat
  BY <1>1 DEF Task
<1>6. /\ (Quota \div 2) * Cardinality(ReportsOf(r)) \in Int
      /\ (Quota \div 2) * (Cardinality(ReportsOf(r)) + 1)
           = (Quota \div 2) * Cardinality(ReportsOf(r)) + Quota \div 2
  <2>1. Quota \div 2 \in Nat
    BY Consts
  <2> QED BY <1>3, <1>4, <2>1
<1>7. Len(rx[r]) \in Nat
  BY <1>1
<1> QED BY <1>1, <1>2, <1>3, <1>5, <1>6, <1>7

\* Messages that move from one account to another.
LEMMA Moved ==
    \A c, x \in Int : \A d, a, w, b, v, h \in Nat :
      /\ b + v = a + w => c + d + b + v + x = c + d + a + w + x
      /\ b + v + h = a + w => c + d + b + v + (x + h) = c + d + a + w + x
  OBVIOUS

LEMMA SpeaksCounts ==
    ASSUME IInv, NEW r \in Req, NEW t, NEW ms, Speaks(r, t, ms)
    PROVE  Len(rx'[r]) \in Nat /\ t.write_out \in Nat
<1>1. rx'[r] \in Seq(Msg) /\ t \in Task
  BY DEF Speaks
<1> QED BY <1>1 DEF Task

LEMMA ReportSent ==
    ASSUME IInv, alive, NEW r \in Req, NEW t, NEW ms, Speaks(r, t, ms),
           Len(ms) = 1, ms[1].cmd = "ReqClientQuota"
    PROVE  Cardinality(ReportsThen(r)) = Cardinality(ReportsOf(r)) + 1
<1> DEFINE m == ms[1]
<1>1. /\ ms \in Seq(Msg) /\ north' = north \o ms /\ north \in Seq(Msg) /\ 1 \in DOMAIN ms
  BY DEF Speaks, Sent, IInv, TypeOK
<1>2. m \in Msg /\ m \in ReportMsgs(r)
  <2>1. m \in Msg
    BY <1>1, Elements
  <2>2. m.own = r
    BY <1>1 DEF Speaks, Says
  <2> QED BY <2>1, <2>2 DEF ReportMsgs
<1>3. north' = Append(north, m)
  <2>1. ms = << m >>
    BY <1>1
  <2> HIDE DEF m
  <2>2. north \o << m >> = Append(north, m)
    BY <1>1, <1>2
  <2> QED BY <1>1, <2>1, <2>2
<1> HIDE DEF m
<1>4. ReportsThen(r) = Hits(north', ReportMsgs(r))
  <2>1. north' \in Seq(Msg)
    BY <1>1, <1>2, <1>3, AppendFacts
  <2> QED BY <2>1 DEF ReportsThen, Hits, ReportMsgs
<1>5. Cardinality(ReportsOf(r)) \in Nat /\ ReportsOf(r) = Hits(north, ReportMsgs(r))
  BY CountFacts
<1> QED BY <1>1, <1>2, <1>3, <1>4, <1>5, HitsAppend

\* A task that speaks says nothing that the server would not expect, and when it
\* leaves its slot the close is under way.
LEMMA SpeaksTInv ==
    ASSUME IInv, TInv, TagsSuffice, NEW r \in Req, NEW t, NEW ms, Speaks(r, t, ms)
    PROVE  TInv'
<1>1. /\ TagsUnique /\ Announced /\ Forgotten /\ WillBeTold /\ ToldInOrder
      /\ DataFirst /\ ReportsWhole /\ QuotaKept
      /\ UNCHANGED << alive, south, sess >>
  BY DEF TInv, Speaks
<1> DEFINE i == task[r].req_idx
<1>2. /\ task'[r] = t /\ r \in Started
      /\ \A q \in Req : q # r => task'[q] = task[q]
      /\ \A q \in Req : /\ task'[q].st = "new" <=> task[q].st = "new"
                        /\ task'[q].req_idx = task[q].req_idx
                        /\ task'[q].req_tag = task[q].req_tag
      /\ i \in Slot /\ task[r].req_tag \in Tag /\ task[r].req_tag % 2 = 1
  BY SpokenTable DEF Speaks, Started, IInv, TaskParts
<1>3. /\ north' \in Seq(Msg) /\ north \in Seq(Msg)
      /\ DOMAIN north \subseteq DOMAIN north'
      /\ \A k \in DOMAIN north : north'[k] = north[k]
      /\ \A k \in DOMAIN north' : k \notin DOMAIN north =>
           /\ alive /\ k - Len(north) \in DOMAIN ms /\ north'[k] = ms[k - Len(north)]
           /\ north'[k].own = r
      /\ \A k \in DOMAIN north, l \in DOMAIN north' : l \notin DOMAIN north => k < l
  BY SpokenNorth
<1>4. \A k \in DOMAIN ms : /\ ms[k].cmd # "ReqCreated"
                           /\ ms[k].cmd = "ReqClientQuota" => ms[k].n = Quota \div 2
  BY DEF Speaks, Says
<1>5. Started' = Started
  BY <1>2 DEF Started
<1>6. \/ /\ alive /\ GivenBack(i, task[r].req_tag)
         /\ \E k \in DOMAIN ms : ms[k].cmd = "ReqClientClosed"
      \/ reqq' = reqq
  BY SpokenTable
<1>7. TagsUnique'
  <2>1. CASE alive /\ GivenBack(i, task[r].req_tag)
    BY <1>1, <1>2, <1>5, <2>1, TagsGivenBack
  <2>2. CASE reqq' = reqq
    BY <1>1, <1>2, <1>5, <2>2, OneName, TagsSame
  <2> QED BY <1>6, <2>1, <2>2
\* The slot of another request is as before, and that of r too unless it was given back.
<1>8. ASSUME NEW q \in Started
      PROVE  /\ q \in Req /\ task[q].req_idx \in Slot
             /\ SlotThen(q) = SlotOf(q) \/ SlotThen(q).trigger # q
             /\ SlotOf(q).trigger = q =>
                  \/ SlotThen(q) = SlotOf(q)
                  \/ \E k \in DOMAIN north' : k \notin DOMAIN north /\ CloseThen(q, k)
  <2>1. q \in Req /\ task[q].req_idx \in Slot
    BY <1>1, OneName DEF Started
  <2>2. CASE reqq' = reqq
    BY <1>2, <2>1, <2>2 DEF SlotOf, SlotThen
  <2>3. CASE /\ alive /\ GivenBack(i, task[r].req_tag)
             /\ \E k \in DOMAIN ms : ms[k].cmd = "ReqClientClosed"
    <3>1. CASE task[q].req_idx # i
      BY <1>2, <2>1, <2>3, <3>1 DEF SlotOf, SlotThen, GivenBack
    <3>2. CASE task[q].req_idx = i
      <4>1. SlotThen(q).trigger # q
        BY <1>2, <2>1, <2>3, <3>2, Consts DEF SlotThen, GivenBack
      <4>2. SlotOf(q).trigger = q => q = r
        BY <1>1, <1>2, <2>1, <2>3, <3>2, OneName DEF SlotOf, GivenBack, TagsUnique
      <4>3. \E k \in DOMAIN north' : k \notin DOMAIN north /\ CloseThen(r, k)
        <5>1. PICK k \in DOMAIN ms : ms[k].cmd = "ReqClientClosed" /\ ms[k].own = r
          BY <2>3 DEF Speaks, Says
        <5>2. north' = north \o ms /\ ms \in Seq(Msg)
          BY <2>3 DEF Speaks, Sent
        <5>3. /\ Len(north) + k \in DOMAIN north' /\ Len(north) + k \notin DOMAIN north
              /\ north'[Len(north) + k] = ms[k]
          BY <1>3, <5>2, ConcatFacts
        <5> QED BY <5>1, <5>3 DEF CloseThen
      <4> QED BY <2>1, <4>1, <4>2, <4>3
    <3> QED BY <3>1, <3>2
  <2> QED BY <1>6, <2>2, <2>3
<1>9. \A q \in Req, k \in DOMAIN north : CloseOf(q, k) => CloseThen(q, k) /\ k \in DOMAIN north'
  BY <1>3 DEF CloseOf, CloseThen
<1>10. \A k \in DOMAIN north' : north'[k].cmd = "ReqCreated" =>
         /\ k \in DOMAIN north /\ north'[k] = north[k] /\ north[k].own \in Started
         /\ north[k].own \in Req /\ north[k].req_idx \in Slot
  BY <1>3, <1>4, MessageOwners, MsgFacts
<1> HIDE DEF i
<1>11. Announced'
  <2> SUFFICES ASSUME NEW k \in DOMAIN north', north'[k].cmd = "ReqCreated"
               PROVE  LET q == north'[k].own IN
                      /\ \A l \in DOMAIN north' : l # k /\ north'[l].own = q =>
                           l > k /\ north'[l].cmd \notin {"ReqCreated", "ReqClientQuota"}
                      /\ \A l \in DOMAIN south : south[l].own # q
                      /\ \A s \in Slot : sess[s].open => sess[s].own # q
                      /\ rx'[q] = << >> /\ task'[q].write_out = 0
                      /\ SlotThen(q).trigger = q => SlotThen(q).request_tx = q
    BY <1>1 DEF Announced, SlotOf, SlotThen
  <2> DEFINE q == north[k].own
  <2>1. /\ k \in DOMAIN north /\ north'[k] = north[k] /\ q \in Started /\ q \in Req
    BY <1>10
  <2>2. /\ \A l \in DOMAIN north : l # k /\ north[l].own = q =>
             l > k /\ north[l].cmd \notin {"ReqCreated", "ReqClientQuota"}
        /\ \A l \in DOMAIN south : south[l].own # q
        /\ \A s \in Slot : sess[s].open => sess[s].own # q
        /\ rx[q] = << >> /\ task[q].write_out = 0
        /\ SlotOf(q).trigger = q => SlotOf(q).request_tx = q
    BY <1>1, <2>1 DEF Announced
  <2> HIDE DEF q
  <2>3. q = r => /\ rx'[q] = << >> /\ task'[q].write_out = 0
                 /\ \A l \in DOMAIN ms : ms[l].cmd # "ReqClientQuota"
    BY <1>2, <2>2 DEF Speaks, Holding, NoReport
  <2>4. rx'[q] = << >> /\ task'[q].write_out = 0
    BY <1>2, <2>1, <2>2, <2>3 DEF Speaks
  <2>5. \A l \in DOMAIN north' : l # k /\ north'[l].own = q =>
             l > k /\ north'[l].cmd \notin {"ReqCreated", "ReqClientQuota"}
    <3> SUFFICES ASSUME NEW l \in DOMAIN north', l # k, north'[l].own = q
                 PROVE  l > k /\ north'[l].cmd \notin {"ReqCreated", "ReqClientQuota"}
      OBVIOUS
    <3>1. CASE l \in DOMAIN north
      BY <1>3, <2>2, <3>1
    <3>2. CASE l \notin DOMAIN north
      <4>1. /\ l - Len(north) \in DOMAIN ms /\ north'[l] = ms[l - Len(north)] /\ q = r
            /\ k < l
        BY <1>3, <2>1, <3>2
      <4>2. k \in Int /\ l \in Int
        BY <1>3, <2>1
      <4> QED BY <1>4, <2>3, <4>1, <4>2
    <3> QED BY <3>1, <3>2
  <2>6. SlotThen(q).trigger = q => SlotThen(q).request_tx = q
    BY <1>8, <2>1, <2>2
  <2> QED BY <2>1, <2>2, <2>4, <2>5, <2>6 DEF q
<1>12. Forgotten'
  BY <1>1 DEF Forgotten
<1>13. WillBeTold'
  <2>1. ASSUME NEW s \in Slot, sess[s].open
        PROVE  SlotThen(sess[s].own).trigger = sess[s].own
                 \/ \E k \in DOMAIN north' : CloseThen(sess[s].own, k)
    <3> DEFINE q == sess[s].own
    <3>1. q \in Started /\ q \in Req
      BY <2>1, SessionFacts
    <3>2. SlotOf(q).trigger = q \/ \E k \in DOMAIN north : CloseOf(q, k)
      BY <1>1, <2>1 DEF WillBeTold
    <3> QED BY <1>8, <1>9, <3>1, <3>2
  <2>2. ASSUME NEW k \in DOMAIN north', north'[k].cmd = "ReqCreated"
        PROVE  SlotThen(north'[k].own).trigger = north'[k].own
                 \/ \E l \in DOMAIN north' : k < l /\ CloseThen(north'[k].own, l)
    <3> DEFINE q == north[k].own
    <3>1. k \in DOMAIN north /\ north'[k] = north[k] /\ q \in Started /\ q \in Req
      BY <1>10, <2>2
    <3>2. SlotOf(q).trigger = q \/ \E l \in DOMAIN north : k < l /\ CloseOf(q, l)
      BY <1>1, <2>2, <3>1 DEF WillBeTold
    <3> HIDE DEF q
    <3>3. CASE SlotOf(q).trigger = q
      <4>1. CASE SlotThen(q) = SlotOf(q)
        BY <3>1, <3>3, <4>1 DEF q
      <4>2. CASE \E l \in DOMAIN north' : l \notin DOMAIN north /\ CloseThen(q, l)
        BY <1>3, <3>1, <4>2 DEF q
      <4> QED BY <1>8, <3>1, <3>3, <4>1, <4>2
    <3>4. CASE \E l \in DOMAIN north : k < l /\ CloseOf(q, l)
      BY <1>9, <3>1, <3>4 DEF q
    <3> QED BY <3>2, <3>3, <3>4
  <2> QED BY <1>1, <2>1, <2>2 DEF WillBeTold, SlotOf, SlotThen, CloseOf, CloseThen
<1>14. ToldInOrder'
  <2> SUFFICES ASSUME NEW k \in DOMAIN north', north'[k].cmd = "ReqCreated"
               PROVE  /\ \A j \in DOMAIN north' :
                           /\ j < k /\ north'[j].cmd = "ReqCreated"
                           /\ north'[j].req_idx = north'[k].req_idx
                           => \E l \in DOMAIN north' : j < l /\ l < k /\ CloseThen(north'[j].own, l)
                      /\ sess[north'[k].req_idx].open
                           => \E l \in DOMAIN north' : l < k /\ CloseThen(sess[north'[k].req_idx].own, l)
    BY <1>1 DEF ToldInOrder, CloseOf, CloseThen
  <2>1. k \in DOMAIN north /\ north'[k] = north[k] /\ north[k].req_idx \in Slot
    BY <1>10
  <2>2. ASSUME NEW j \in DOMAIN north', j < k, north'[j].cmd = "ReqCreated",
               north'[j].req_idx = north'[k].req_idx
        PROVE  \E l \in DOMAIN north' : j < l /\ l < k /\ CloseThen(north'[j].own, l)
    <3>1. j \in DOMAIN north /\ north'[j] = north[j] /\ north[j].own \in Req
      BY <1>10, <2>2
    <3> QED BY <1>1, <1>9, <2>1, <2>2, <3>1 DEF ToldInOrder
  <2>3. ASSUME sess[north[k].req_idx].open
        PROVE  \E l \in DOMAIN north' : l < k /\ CloseThen(sess[north[k].req_idx].own, l)
    <3>1. sess[north[k].req_idx].own \in Req
      BY <2>1, <2>3, SessionFacts
    <3> QED BY <1>1, <1>9, <2>1, <2>3, <3>1 DEF ToldInOrder
  <2> QED BY <2>1, <2>2, <2>3
<1>15. DataFirst'
  <2>1. ASSUME NEW s \in Slot, sess[s].open
        PROVE  LET q == sess[s].own IN
               IF sess[s].server_fin
                 THEN SlotThen(q).trigger = q /\ SlotThen(q).request_tx # q =>
                        \A k \in DOMAIN south : south[k].own = q => south[k].cmd # "ReqData"
                 ELSE /\ SlotThen(q).trigger = q => SlotThen(q).request_tx = q
                      /\ \A k \in DOMAIN south : south[k].own = q => south[k].cmd # "ReqServerFinished"
    <3>1. sess[s].own \in Started
      BY <2>1, SessionFacts
    <3> QED BY <1>1, <1>8, <2>1, <3>1 DEF DataFirst
  <2> QED BY <1>1, <2>1 DEF DataFirst, SlotOf, SlotThen
<1>16. ReportsWhole'
  <2> SUFFICES ASSUME NEW k \in DOMAIN north', north'[k].cmd = "ReqClientQuota"
               PROVE  north'[k].n = Quota \div 2
    BY DEF ReportsWhole
  <2>1. CASE k \in DOMAIN north
    BY <1>1, <1>3, <2>1 DEF ReportsWhole
  <2>2. CASE k \notin DOMAIN north
    BY <1>3, <1>4, <2>2
  <2> QED BY <2>1, <2>2
<1>17. QuotaKept'
  <2> SUFFICES ASSUME NEW s \in Slot, sess[s].open, task'[sess[s].own].sending
               PROVE  sess[s].credit + Cardinality(DataThen(sess[s].own)) + Len(rx'[sess[s].own])
                        + task'[sess[s].own].write_out
                        + (Quota \div 2) * Cardinality(ReportsThen(sess[s].own)) = Quota
    BY <1>1 DEF QuotaKept, DataOf, DataThen, ReportsOf, ReportsThen
  <2> DEFINE q == sess[s].own
             D == Cardinality(DataOf(q))
             R == Cardinality(ReportsOf(q))
             H == Quota \div 2
  <2>1. q \in Started /\ q \in Req /\ alive /\ sess[s].credit \in Int
    BY SessionFacts
  <2>2. DataThen(q) = DataOf(q)
    BY <1>1 DEF DataOf, DataThen
  <2>3. task[q].sending
    BY <1>2, <2>1 DEF Speaks
  <2>4. sess[s].credit + D + Len(rx[q]) + task[q].write_out + H * R = Quota
    BY <1>1, <2>3 DEF QuotaKept
  <2> SUFFICES sess[s].credit + D + Len(rx'[q]) + task'[q].write_out
                 + H * Cardinality(ReportsThen(q)) = Quota
    BY <2>2
  <2>5. CASE q # r
    <3>1. ReportsThen(q) = ReportsOf(q)
      BY <1>3, <2>5 DEF ReportsOf, ReportsThen
    <3>2. rx'[q] = rx[q] /\ task'[q] = task[q]
      BY <1>2, <2>1, <2>5 DEF Speaks
    <3> QED BY <2>4, <3>1, <3>2
  <2>6. CASE q = r
    <3>1. t.sending
      BY <1>2, <2>6
    <3>2. CASE NoReport(ms) /\ Len(rx'[r]) + t.write_out = Len(rx[r]) + task[r].write_out
      <4>1. ReportsThen(q) = ReportsOf(q)
        BY <1>3, <3>2 DEF ReportsOf, ReportsThen, NoReport
      <4>2. /\ Len(rx[r]) \in Nat /\ Len(rx'[r]) \in Nat /\ task[r].write_out \in Nat
            /\ t.write_out \in Nat /\ D \in Nat /\ R \in Nat /\ H * R \in Int
        BY <2>1, <2>6, CountFacts, SpeaksCounts, Consts
      <4>3. task'[q].write_out = t.write_out /\ Cardinality(ReportsThen(q)) = R
        BY <1>2, <2>6, <4>1
      <4>4. sess[s].credit \in Int
        BY <2>1
      <4> HIDE DEF D, R, H, q
      <4>6. sess[s].credit + D + Len(rx[r]) + task[r].write_out + H * R = Quota
        BY <2>4, <2>6
      <4>7. Len(rx'[r]) + t.write_out = Len(rx[r]) + task[r].write_out
        BY <3>2
      <4> DEFINE c == sess[s].credit
                 a == Len(rx[r])
                 b == Len(rx'[r])
                 v == task[r].write_out
                 w == t.write_out
                 x == H * R
      <4>8. c + D + a + v + x = Quota /\ b + w = a + v
        BY <4>6, <4>7
      <4>9. c \in Int /\ D \in Nat /\ a \in Nat /\ b \in Nat /\ v \in Nat /\ w \in Nat /\ x \in Int /\ H \in Nat
        BY <4>2, <4>4, Consts DEF H
      <4>10. H * R = x
        BY <4>2
      <4> HIDE DEF a, b, c, v, w, x
      <4>11. c + D + b + w + (x) = Quota
        BY <4>8, <4>9
      <4>5. c + D + b + w + H * R = Quota
        BY <4>10, <4>11
      <4> QED BY <2>6, <4>3, <4>5 DEF b, c, w
    <3>3. CASE /\ Len(ms) = 1 /\ ms[1].cmd = "ReqClientQuota"
               /\ Len(rx'[r]) + t.write_out + H = Len(rx[r]) + task[r].write_out
      <4>1. Cardinality(ReportsThen(q)) = R + 1
        BY <2>1, <2>6, <3>3, ReportSent
      <4>2. /\ Len(rx[r]) \in Nat /\ Len(rx'[r]) \in Nat /\ task[r].write_out \in Nat
            /\ t.write_out \in Nat /\ D \in Nat /\ R \in Nat /\ H * R \in Int /\ H \in Nat
            /\ H * (R + 1) = H * R + H
        BY <2>1, <2>6, CountFacts, SpeaksCounts, Consts
      <4>3. task'[q].write_out = t.write_out
        BY <1>2, <2>6
      <4>4. sess[s].credit \in Int
        BY <2>1
      <4> HIDE DEF D, R, H, q
      <4>6. sess[s].credit + D + Len(rx[r]) + task[r].write_out + H * R = Quota
        BY <2>4, <2>6
      <4>7. Len(rx'[r]) + t.write_out + H = Len(rx[r]) + task[r].write_out
        BY <3>3
      <4> DEFINE c == sess[s].credit
                 a == Len(rx[r])
                 b == Len(rx'[r])
                 v == task[r].write_out
                 w == t.write_out
                 x == H * R
      <4>8. c + D + a + v + x = Quota /\ b + w + H = a + v
        BY <4>6, <4>7
      <4>9. c \in Int /\ D \in Nat /\ a \in Nat /\ b \in Nat /\ v \in Nat /\ w \in Nat /\ x \in Int /\ H \in Nat
        BY <4>2, <4>4, Consts DEF H
      <4>10. H * (R + 1) = x + H
        BY <4>2
      <4> HIDE DEF a, b, c, v, w, x
      <4>11. c + D + b + w + (x + H) = Quota
        BY <4>8, <4>9
      <4>5. c + D + b + w + H * (R + 1) = Quota
        BY <4>10, <4>11
      <4> QED BY <2>6, <4>1, <4>3, <4>5 DEF b, c, w
    <3> QED BY <3>1, <3>2, <3>3 DEF Speaks, Holding
  <2> QED BY <2>5, <2>6
<1> QED BY <1>7, <1>11, <1>12, <1>13, <1>14, <1>15, <1>16, <1>17 DEF TInv

\* QuotaKept in the next state.
LEMMA QuotaThen ==
    ASSUME \A x \in Slot :
             sess'[x].open /\ task'[sess'[x].own].sending =>
               sess'[x].credit + Cardinality(DataThen(sess'[x].own)) + Len(rx'[sess'[x].own])
                 + task'[sess'[x].own].write_out
                 + (Quota \div 2) * Cardinality(ReportsThen(sess'[x].own)) = Quota
    PROVE  QuotaKept'
  BY DEF QuotaKept, DataOf, DataThen, ReportsOf, ReportsThen

\* What the server says of a session is of the one request that owns it.
LEMMA RepliesTInv ==
    ASSUME IInv, TInv, NEW s \in Slot, NEW m, NEW e, Replies(s, m, e)
    PROVE  TInv'
<1>1. /\ TagsUnique /\ Announced /\ Forgotten /\ WillBeTold /\ ToldInOrder
      /\ DataFirst /\ ReportsWhole /\ QuotaKept
  BY DEF TInv
<1>2. /\ UNCHANGED << alive, reqq, req_count, task, rx, north >>
      /\ sess[s].open /\ m \in Msg /\ south' = Append(south, m) /\ m.own = sess[s].own
  BY DEF Replies, clientSide
<1>3. /\ DOMAIN south = 1 .. Len(south) /\ Len(south) \in Nat
      /\ DOMAIN south' = 1 .. Len(south) + 1 /\ south' \in Seq(Msg)
      /\ \A k \in DOMAIN south : south'[k] = south[k]
      /\ south'[Len(south) + 1] = m
  BY <1>2, MessageOwners, AppendFacts
<1>4. sess'[s] = e /\ \A x \in Slot : x # s => sess'[x] = sess[x]
  BY DEF Replies, IInv, TypeOK
<1> DEFINE r == sess[s].own
<1>5. r \in Req /\ r \in Started /\ sess[s].credit \in Int
  BY <1>2, SessionFacts
<1>6. \A x \in Slot : sess[x].open /\ x # s => sess[x].own # r
  BY <1>2, SessionFacts
<1>7. \A x \in Slot : sess'[x].open => sess[x].open /\ sess'[x].own = sess[x].own
  BY <1>2, <1>4 DEF Replies
<1>8. TagsUnique' /\ ReportsWhole' /\ WillBeTold' /\ ToldInOrder'
  <2>1. TagsUnique' /\ ReportsWhole'
    BY <1>1, <1>2 DEF TagsUnique, ReportsWhole, Started, Served, SlotOf
  <2>2. WillBeTold'
    BY <1>1, <1>2, <1>7 DEF WillBeTold, CloseOf, SlotOf
  <2>3. \A k \in DOMAIN north : north[k].req_idx \in Slot
    BY MessageOwners, MsgFacts
  <2>4. ToldInOrder'
    BY <1>1, <1>2, <1>7, <2>3 DEF ToldInOrder, CloseOf
  <2> QED BY <2>1, <2>2, <2>4
<1>9. Announced'
  <2>1. \A k \in DOMAIN north : north[k].cmd = "ReqCreated" => north[k].own # r
    BY <1>1, <1>2 DEF Announced
  <2>2. ASSUME NEW k \in DOMAIN north, north[k].cmd = "ReqCreated"
        PROVE  /\ \A l \in DOMAIN south' : south'[l].own # north[k].own
               /\ \A x \in Slot : sess'[x].open => sess'[x].own # north[k].own
    BY <1>1, <1>2, <1>3, <1>7, <2>1, <2>2 DEF Announced
  <2> QED BY <1>1, <1>2, <2>2 DEF Announced, SlotOf
<1>10. Forgotten'
  <2> SUFFICES ASSUME NEW k \in DOMAIN south', south'[k].cmd = "ReqServerClosed",
                      NEW x \in Slot, sess'[x].open
               PROVE  sess'[x].own # south'[k].own
    BY DEF Forgotten
  <2>1. CASE k \in DOMAIN south
    BY <1>1, <1>3, <1>7, <2>1 DEF Forgotten
  <2>2. CASE k \notin DOMAIN south
    <3>1. south'[k] = m
      BY <1>3, <2>2
    <3>2. x # s
      BY <1>4, <3>1 DEF Replies
    <3> QED BY <1>2, <1>6, <1>7, <3>1, <3>2
  <2> QED BY <2>1, <2>2
<1>11. DataFirst'
  <2>1. ASSUME NEW k \in DOMAIN south', NEW l \in DOMAIN south',
               k < l, south'[k].own = south'[l].own,
               south'[k].cmd \in {"ReqServerFinished", "ReqServerClosed"}
        PROVE  south'[l].cmd # "ReqData"
    <3>1. k \in DOMAIN south /\ south'[k] = south[k]
      BY <1>3, <2>1
    <3>2. CASE l \in DOMAIN south
      BY <1>1, <1>3, <2>1, <3>1, <3>2 DEF DataFirst
    <3>3. CASE l \notin DOMAIN south
      <4>1. south'[l] = m
        BY <1>3, <3>3
      <4>2. south[k].cmd # "ReqServerClosed"
        BY <1>1, <1>2, <2>1, <3>1, <4>1 DEF Forgotten
      <4>3. sess[s].server_fin
        BY <1>1, <1>2, <2>1, <3>1, <4>1, <4>2 DEF DataFirst
      <4> QED BY <4>1, <4>3 DEF Replies
    <3> QED BY <3>2, <3>3
  <2>2. ASSUME NEW x \in Slot, sess'[x].open
        PROVE  LET q == sess'[x].own IN
               IF sess'[x].server_fin
                 THEN SlotOf(q).trigger = q /\ SlotOf(q).request_tx # q =>
                        \A k \in DOMAIN south' : south'[k].own = q => south'[k].cmd # "ReqData"
                 ELSE /\ SlotOf(q).trigger = q => SlotOf(q).request_tx = q
                      /\ \A k \in DOMAIN south' : south'[k].own = q =>
                           south'[k].cmd # "ReqServerFinished"
    <3>1. CASE x # s
      <4>1. sess'[x] = sess[x] /\ sess[x].own # r
        BY <1>4, <1>6, <2>2, <3>1
      <4>2. \A k \in DOMAIN south' : south'[k].own = sess[x].own =>
              k \in DOMAIN south /\ south'[k] = south[k]
        BY <1>2, <1>3, <4>1
      <4> QED BY <1>1, <2>2, <4>1, <4>2 DEF DataFirst
    <3>2. CASE x = s
      <4>1. /\ sess'[x] = e /\ e.open /\ e.own = r /\ ~sess[s].server_fin
            /\ e.server_fin = (m.cmd = "ReqServerFinished")
        BY <1>4, <2>2, <3>2 DEF Replies, Session
      <4>2. /\ SlotOf(r).trigger = r => SlotOf(r).request_tx = r
            /\ \A k \in DOMAIN south : south[k].own = r => south[k].cmd # "ReqServerFinished"
        BY <1>1, <1>2, <4>1 DEF DataFirst
      <4>3. CASE m.cmd = "ReqServerFinished"
        BY <4>1, <4>2, <4>3
      <4>4. CASE m.cmd # "ReqServerFinished"
        <5>1. \A k \in DOMAIN south' : south'[k].own = r => south'[k].cmd # "ReqServerFinished"
          BY <1>3, <4>2, <4>4
        <5> QED BY <4>1, <4>2, <4>4, <5>1
      <4> QED BY <4>3, <4>4
    <3> QED BY <3>1, <3>2
  <2>3. \A q : SlotOf(q)' = SlotOf(q)
    BY <1>2 DEF SlotOf
  <2> QED BY <2>1, <2>2, <2>3 DEF DataFirst
<1>12. QuotaKept'
  <2> SUFFICES ASSUME NEW x \in Slot, sess'[x].open, task[sess[x].own].sending
               PROVE  sess'[x].credit + Cardinality(DataThen(sess[x].own)) + Len(rx[sess[x].own])
                        + task[sess[x].own].write_out
                        + (Quota \div 2) * Cardinality(ReportsOf(sess[x].own)) = Quota
    <3>1. \A q : ReportsThen(q) = ReportsOf(q)
      BY <1>2 DEF ReportsThen, ReportsOf
    <3> QED BY <1>2, <1>7, <3>1, QuotaThen
  <2> DEFINE q == sess[x].own
             c == sess[x].credit
             D == Cardinality(DataOf(q))
             a == Len(rx[q])
             w == task[q].write_out
             h == (Quota \div 2) * Cardinality(ReportsOf(q))
  <2>1. sess[x].open /\ q \in Req /\ c \in Int
    BY <1>7, SessionFacts
  <2>2. c + D + a + w + h = Quota
    BY <1>1, <2>1 DEF QuotaKept
  <2>3. D \in Nat /\ a \in Nat /\ w \in Nat /\ h \in Int /\ DataOf(q) = Hits(south, DataMsgs(q))
    BY <2>1, CountFacts
  <2>4. DataThen(q) = Hits(south', DataMsgs(q))
    BY <1>3 DEF DataThen, Hits, DataMsgs
  <2>5. Cardinality(DataThen(q)) = D + (IF m \in DataMsgs(q) THEN 1 ELSE 0)
    BY <1>2, <2>3, <2>4, MessageOwners, HitsAppend
  <2>6. CASE m \in DataMsgs(q)
    <3>1. m.cmd = "ReqData" /\ q = r
      BY <1>2, <2>6 DEF DataMsgs
    <3>2. x = s
      BY <1>6, <2>1, <3>1
    <3>3. sess'[x].credit = c - 1
      BY <1>4, <3>1, <3>2 DEF Replies
    <3>4. Cardinality(DataThen(q)) = D + 1
      BY <2>5, <2>6
    <3> HIDE DEF c, D, a, w, h
    <3> SUFFICES (c - 1) + (D + 1) + a + w + h = Quota
      BY <3>3, <3>4 DEF a, w, h
    <3> QED BY <2>1, <2>2, <2>3
  <2>7. CASE m \notin DataMsgs(q)
    <3>1. Cardinality(DataThen(q)) = D
      BY <2>3, <2>5, <2>7
    <3>2. sess'[x].credit = c
      <4>1. CASE x = s
        BY <1>2, <1>4, <2>7, <4>1 DEF Replies, DataMsgs
      <4>2. CASE x # s
        BY <1>4, <4>2
      <4> QED BY <4>1, <4>2
    <3> QED BY <2>2, <3>1, <3>2
  <2> QED BY <2>6, <2>7
<1> QED BY <1>1, <1>8, <1>9, <1>10, <1>11, <1>12 DEF TInv

\* What the server reads of a request comes in the order in which it was meant: the
\* slot is open before it is used and closed before it is opened again.
LEMMA ReceivesTInv ==
    ASSUME IInv, TInv, ServerReceives
    PROVE  TInv'
<1>1. /\ TagsUnique /\ Announced /\ Forgotten /\ WillBeTold /\ ToldInOrder
      /\ DataFirst /\ ReportsWhole /\ QuotaKept
  BY DEF TInv
<1> DEFINE m == Head(north)
           s == m.req_idx
<1>2. /\ north # << >> /\ north' = Tail(north) /\ north \in Seq(Msg) /\ m \in Msg
      /\ UNCHANGED << alive, reqq, req_count, task, rx, south, client >>
      /\ \A x \in Slot : x # s => sess'[x] = sess[x]
      /\ Opens(m) \/ Shuts(m) \/ Keeps(m)
      /\ s \in Slot
  BY ReceivesFacts, MsgFacts
<1>3. /\ m = north[1] /\ 1 \in DOMAIN north /\ north' \in Seq(Msg)
      /\ DOMAIN north = 1 .. Len(north) /\ Len(north) \in Nat
      /\ DOMAIN north' = 1 .. Len(north) - 1
      /\ \A k \in DOMAIN north' : k + 1 \in DOMAIN north /\ north'[k] = north[k + 1]
      /\ \A k \in DOMAIN north : k # 1 => k - 1 \in DOMAIN north' /\ north'[k - 1] = north[k]
  BY <1>2, TailFacts
<1>4. Names(m) /\ m.own \in Req
  BY <1>3, MessageOwners
<1> HIDE DEF m
\* What Announced says of a session that opens.
<1>5. ASSUME Opens(m)
      PROVE  /\ sess'[s].open /\ sess'[s].own = m.own /\ sess'[s].credit = Quota
             /\ ~sess'[s].server_fin /\ m.cmd = "ReqCreated"
             /\ \A l \in DOMAIN north : l # 1 /\ north[l].own = m.own =>
                  north[l].cmd \notin {"ReqCreated", "ReqClientQuota"}
             /\ \A l \in DOMAIN south : south[l].own # m.own
             /\ rx[m.own] = << >> /\ task[m.own].write_out = 0
             /\ SlotOf(m.own).trigger = m.own => SlotOf(m.own).request_tx = m.own
  BY <1>1, <1>3, <1>5 DEF Opens, Announced
\* The other sessions stay what they are, and the last word of none was read.
<1>6. ASSUME NEW x \in Slot, sess'[x].open, ~(Opens(m) /\ x = s)
      PROVE  /\ sess[x].open /\ sess'[x].own = sess[x].own
             /\ sess'[x].server_fin = sess[x].server_fin
             /\ ~CloseOf(sess[x].own, 1)
             /\ sess'[x].credit = IF m \in ReportMsgs(sess[x].own) THEN sess[x].credit + m.n
                                                                   ELSE sess[x].credit
  <2>1. sess[x].open /\ sess'[x].own = sess[x].own /\ sess'[x].server_fin = sess[x].server_fin
    BY <1>2, <1>6 DEF Shuts, Keeps
  <2>2. m.own = sess[x].own <=> x = s /\ Matches(m)
    BY <1>1, <1>2, <1>4, <2>1, OneName DEF Matches
  <2>3. ~CloseOf(sess[x].own, 1)
    BY <1>2, <1>3, <1>6, <2>2 DEF CloseOf, Opens, Shuts, Keeps
  <2>4. m \in ReportMsgs(sess[x].own) <=> m.cmd = "ReqClientQuota" /\ x = s /\ Matches(m)
    BY <1>2, <2>2 DEF ReportMsgs
  <2>5. sess'[x].credit = IF m \in ReportMsgs(sess[x].own) THEN sess[x].credit + m.n
                                                           ELSE sess[x].credit
    <3>1. CASE x = s
      BY <1>2, <1>6, <2>4, <3>1 DEF Shuts, Keeps
    <3>2. CASE x # s
      BY <1>2, <2>4, <3>2
    <3> QED BY <3>1, <3>2
  <2> QED BY <2>1, <2>3, <2>5
<1>7. \A r, l : l \in DOMAIN north /\ l # 1 /\ CloseOf(r, l) =>
                  l - 1 \in DOMAIN north' /\ CloseThen(r, l - 1)
  BY <1>3 DEF CloseOf, CloseThen
<1>8. \A r : SlotThen(r) = SlotOf(r)
  BY <1>2 DEF SlotThen, SlotOf
<1>9. TagsUnique' /\ ReportsWhole'
  <2>1. TagsUnique'
    BY <1>1, <1>2 DEF TagsUnique, Started, Served, SlotOf
  <2> QED BY <1>1, <1>3, <2>1 DEF ReportsWhole
<1>10. Announced'
  <2> SUFFICES ASSUME NEW k \in DOMAIN north', north'[k].cmd = "ReqCreated"
               PROVE  LET q == north'[k].own IN
                      /\ \A l \in DOMAIN north' : l # k /\ north'[l].own = q =>
                           l > k /\ north'[l].cmd \notin {"ReqCreated", "ReqClientQuota"}
                      /\ \A l \in DOMAIN south : south[l].own # q
                      /\ \A x \in Slot : sess'[x].open => sess'[x].own # q
                      /\ rx[q] = << >> /\ task[q].write_out = 0
                      /\ SlotThen(q).trigger = q => SlotThen(q).request_tx = q
    BY <1>2 DEF Announced, SlotOf, SlotThen
  <2> DEFINE q == north[k + 1].own
  <2>1. /\ k + 1 \in DOMAIN north /\ north'[k] = north[k + 1] /\ k + 1 # 1
        /\ k \in Nat /\ north[k + 1].cmd = "ReqCreated"
    BY <1>3
  <2>2. /\ \A l \in DOMAIN north : l # k + 1 /\ north[l].own = q =>
             l > k + 1 /\ north[l].cmd \notin {"ReqCreated", "ReqClientQuota"}
        /\ \A l \in DOMAIN south : south[l].own # q
        /\ \A x \in Slot : sess[x].open => sess[x].own # q
        /\ rx[q] = << >> /\ task[q].write_out = 0
        /\ SlotOf(q).trigger = q => SlotOf(q).request_tx = q
    BY <1>1, <2>1 DEF Announced
  <2> HIDE DEF q
  <2>3. m.own # q
    BY <1>3, <2>1, <2>2
  <2>4. \A x \in Slot : sess'[x].open => sess'[x].own # q
    BY <1>5, <1>6, <2>2, <2>3
  <2>5. \A l \in DOMAIN north' : l # k /\ north'[l].own = q =>
          l > k /\ north'[l].cmd \notin {"ReqCreated", "ReqClientQuota"}
    BY <1>3, <2>1, <2>2
  <2>6. north'[k].own = q
    BY <2>1 DEF q
  <2> QED BY <1>8, <2>2, <2>4, <2>5, <2>6
<1>11. Forgotten'
  BY <1>1, <1>2, <1>5, <1>6 DEF Forgotten
<1>12. WillBeTold'
  <2>1. ASSUME NEW x \in Slot, sess'[x].open
        PROVE  SlotThen(sess'[x].own).trigger = sess'[x].own
                 \/ \E k \in DOMAIN north' : CloseThen(sess'[x].own, k)
    <3>1. CASE Opens(m) /\ x = s
      <4>1. SlotOf(m.own).trigger = m.own \/ \E l \in DOMAIN north : 1 < l /\ CloseOf(m.own, l)
        BY <1>1, <1>3, <1>5, <3>1 DEF WillBeTold
      <4> QED BY <1>5, <1>7, <1>8, <3>1, <4>1
    <3>2. CASE ~(Opens(m) /\ x = s)
      <4>1. sess[x].open /\ sess'[x].own = sess[x].own /\ ~CloseOf(sess[x].own, 1)
        BY <1>6, <2>1, <3>2
      <4>2. SlotOf(sess[x].own).trigger = sess[x].own
              \/ \E k \in DOMAIN north : CloseOf(sess[x].own, k)
        BY <1>1, <4>1 DEF WillBeTold
      <4> QED BY <1>7, <1>8, <4>1, <4>2
    <3> QED BY <3>1, <3>2
  <2>2. ASSUME NEW k \in DOMAIN north', north'[k].cmd = "ReqCreated"
        PROVE  SlotThen(north'[k].own).trigger = north'[k].own
                 \/ \E l \in DOMAIN north' : k < l /\ CloseThen(north'[k].own, l)
    <3> DEFINE q == north[k + 1].own
    <3>1. k + 1 \in DOMAIN north /\ north'[k] = north[k + 1] /\ k \in Nat
      BY <1>3
    <3>2. SlotOf(q).trigger = q \/ \E l \in DOMAIN north : k + 1 < l /\ CloseOf(q, l)
      BY <1>1, <2>2, <3>1 DEF WillBeTold
    <3>3. ASSUME NEW l \in DOMAIN north, k + 1 < l, CloseOf(q, l)
          PROVE  l - 1 \in DOMAIN north' /\ k < l - 1 /\ CloseThen(q, l - 1)
      BY <1>3, <1>7, <3>1, <3>3
    <3> HIDE DEF q
    <3>4. north'[k].own = q
      BY <3>1 DEF q
    <3> QED BY <1>8, <3>2, <3>3, <3>4
  <2> QED BY <1>2, <2>1, <2>2 DEF WillBeTold, SlotOf, SlotThen, CloseOf, CloseThen
<1>13. ToldInOrder'
  <2> SUFFICES ASSUME NEW k \in DOMAIN north', north'[k].cmd = "ReqCreated"
               PROVE  /\ \A j \in DOMAIN north' :
                           /\ j < k /\ north'[j].cmd = "ReqCreated"
                           /\ north'[j].req_idx = north'[k].req_idx
                           => \E l \in DOMAIN north' : j < l /\ l < k /\ CloseThen(north'[j].own, l)
                      /\ sess'[north'[k].req_idx].open
                           => \E l \in DOMAIN north' :
                                l < k /\ CloseThen(sess'[north'[k].req_idx].own, l)
    BY DEF ToldInOrder, CloseOf, CloseThen
  <2> DEFINE x == north[k + 1].req_idx
  <2>1. /\ k + 1 \in DOMAIN north /\ north'[k] = north[k + 1] /\ k \in Nat /\ 1 < k + 1
        /\ x \in Slot /\ north[k + 1].cmd = "ReqCreated"
    BY <1>3, MessageOwners, MsgFacts
  <2>2. ASSUME NEW j \in DOMAIN north', j < k, north'[j].cmd = "ReqCreated",
               north'[j].req_idx = north'[k].req_idx
        PROVE  \E l \in DOMAIN north' : j < l /\ l < k /\ CloseThen(north'[j].own, l)
    <3>1. j + 1 \in DOMAIN north /\ north'[j] = north[j + 1] /\ j \in Nat /\ j + 1 < k + 1
      BY <1>3, <2>1, <2>2
    <3>2. PICK l \in DOMAIN north : j + 1 < l /\ l < k + 1 /\ CloseOf(north[j + 1].own, l)
      BY <1>1, <2>1, <2>2, <3>1 DEF ToldInOrder
    <3>3. l - 1 \in DOMAIN north' /\ j < l - 1 /\ l - 1 < k /\ CloseThen(north[j + 1].own, l - 1)
      BY <1>3, <1>7, <2>1, <3>1, <3>2
    <3> QED BY <3>1, <3>3
  <2>3. ASSUME sess'[x].open
        PROVE  \E l \in DOMAIN north' : l < k /\ CloseThen(sess'[x].own, l)
    <3>1. PICK l \in DOMAIN north : l < k + 1 /\ l # 1 /\ CloseOf(sess'[x].own, l)
      <4>1. CASE Opens(m) /\ x = s
        <5>1. north[1].cmd = "ReqCreated" /\ north[1].req_idx = x /\ sess'[x].own = north[1].own
          BY <1>3, <1>5, <4>1
        <5>2. \E l \in DOMAIN north : 1 < l /\ l < k + 1 /\ CloseOf(north[1].own, l)
          BY <1>1, <1>3, <2>1, <5>1 DEF ToldInOrder
        <5> QED BY <5>1, <5>2
      <4>2. CASE ~(Opens(m) /\ x = s)
        <5>1. sess[x].open /\ sess'[x].own = sess[x].own /\ ~CloseOf(sess[x].own, 1)
          BY <1>6, <2>1, <2>3, <4>2
        <5>2. \E l \in DOMAIN north : l < k + 1 /\ CloseOf(sess[x].own, l)
          BY <1>1, <2>1, <5>1 DEF ToldInOrder
        <5> QED BY <5>1, <5>2
      <4> QED BY <4>1, <4>2
    <3>2. l - 1 \in DOMAIN north' /\ l - 1 < k /\ CloseThen(sess'[x].own, l - 1)
      BY <1>3, <1>7, <2>1, <3>1
    <3> QED BY <3>2
  <2> QED BY <2>1, <2>2, <2>3
<1>14. DataFirst'
  <2>1. ASSUME NEW x \in Slot, sess'[x].open
        PROVE  LET q == sess'[x].own IN
               IF sess'[x].server_fin
                 THEN SlotThen(q).trigger = q /\ SlotThen(q).request_tx # q =>
                        \A k \in DOMAIN south : south[k].own = q => south[k].cmd # "ReqData"
                 ELSE /\ SlotThen(q).trigger = q => SlotThen(q).request_tx = q
                      /\ \A k \in DOMAIN south : south[k].own = q =>
                           south[k].cmd # "ReqServerFinished"
    <3>1. CASE Opens(m) /\ x = s
      BY <1>5, <1>8, <3>1
    <3>2. CASE ~(Opens(m) /\ x = s)
      <4>1. /\ sess[x].open /\ sess'[x].own = sess[x].own
            /\ sess'[x].server_fin = sess[x].server_fin
        BY <1>6, <2>1, <3>2
      <4> QED BY <1>1, <1>8, <4>1 DEF DataFirst
    <3> QED BY <3>1, <3>2
  <2>2. \A q : SlotOf(q)' = SlotThen(q)
    BY DEF SlotOf, SlotThen
  <2> QED BY <1>1, <1>2, <2>1, <2>2 DEF DataFirst
<1>15. QuotaKept'
  <2> SUFFICES ASSUME NEW x \in Slot, sess'[x].open, task[sess'[x].own].sending
               PROVE  sess'[x].credit + Cardinality(DataOf(sess'[x].own)) + Len(rx[sess'[x].own])
                        + task[sess'[x].own].write_out
                        + (Quota \div 2) * Cardinality(ReportsThen(sess'[x].own)) = Quota
    <3>1. \A q : DataThen(q) = DataOf(q)
      BY <1>2 DEF DataThen, DataOf
    <3> QED BY <1>2, <3>1, QuotaThen
  <2> DEFINE q == sess'[x].own
             c == sess[x].credit
             D == Cardinality(DataOf(q))
             R == Cardinality(ReportsOf(q))
             a == Len(rx[q])
             w == task[q].write_out
             H == Quota \div 2
  <2>1. ReportsThen(q) = Hits(north', ReportMsgs(q))
    BY <1>3 DEF ReportsThen, Hits, ReportMsgs
  <2>2. CASE Opens(m) /\ x = s
    <3>1. q = m.own /\ a = 0 /\ w = 0 /\ sess'[x].credit = Quota
      BY <1>5, <2>2
    <3>2. DataOf(q) = {}
      BY <1>5, <2>2, <3>1 DEF DataOf
    <3>3. ReportsThen(q) = {}
      <4> SUFFICES ASSUME NEW k \in DOMAIN north', north'[k].cmd = "ReqClientQuota",
                          north'[k].own = q
                   PROVE  FALSE
        BY DEF ReportsThen
      <4>1. k + 1 \in DOMAIN north /\ k + 1 # 1 /\ north'[k] = north[k + 1]
        BY <1>3
      <4> QED BY <1>5, <2>2, <3>1, <4>1
    <3>4. H * 0 = 0 /\ Quota \in Nat /\ Cardinality({}) = 0
      BY Consts, FS_EmptySet
    <3> HIDE DEF q, a, w, H
    <3> SUFFICES sess'[x].credit + Cardinality(DataOf(q)) + a + w + H * Cardinality(ReportsThen(q)) = Quota
      BY DEF q, a, w, H
    <3> QED BY <3>1, <3>2, <3>3, <3>4
  <2>3. CASE ~(Opens(m) /\ x = s)
    <3>1. /\ sess[x].open /\ q = sess[x].own /\ q \in Req /\ c \in Int
          /\ sess'[x].credit = IF m \in ReportMsgs(q) THEN c + m.n ELSE c
      BY <1>6, <2>3, SessionFacts
    <3>2. c + D + a + w + H * R = Quota
      BY <1>1, <3>1 DEF QuotaKept
    <3>3. /\ D \in Nat /\ R \in Nat /\ a \in Nat /\ w \in Nat /\ H \in Nat
          /\ ReportsOf(q) = Hits(north, ReportMsgs(q))
      BY <3>1, CountFacts, Consts
    <3> DEFINE T == Cardinality(ReportsThen(q))
    <3>4. R = T + (IF m \in ReportMsgs(q) THEN 1 ELSE 0) /\ T \in Nat
      <4>1. m = Head(north)
        BY DEF m
      <4>2. R = Cardinality(Hits(Tail(north), ReportMsgs(q)))
                + (IF Head(north) \in ReportMsgs(q) THEN 1 ELSE 0)
        BY <1>2, <3>3, HitsTail
      <4>3. T = Cardinality(Hits(Tail(north), ReportMsgs(q))) /\ T \in Nat
        BY <1>2, <1>3, <2>1, HitsFinite
      <4> QED BY <4>1, <4>2, <4>3
    <3>5. \A h, n \in Nat : h * n \in Int /\ h * (n + 1) = h * n + h
      OBVIOUS
    <3>6. H * T \in Int /\ H * (T + 1) = H * T + H
      BY <3>3, <3>4, <3>5
    <3>7. m \in ReportMsgs(q) => m.n = H
      BY <1>1, <1>3 DEF ReportMsgs, ReportsWhole
    <3> HIDE DEF q, c, D, R, a, w, H, T
    <3> SUFFICES sess'[x].credit + D + a + w + H * T = Quota
      BY DEF q, D, a, w, H, T
    <3>8. CASE m \in ReportMsgs(q)
      <4>1. sess'[x].credit = c + H /\ c + D + a + w + (H * T + H) = Quota
        BY <3>1, <3>2, <3>4, <3>6, <3>7, <3>8
      <4> DEFINE y == H * T
      <4>2. y \in Int /\ c + D + a + w + (y + H) = Quota
        BY <3>6, <4>1
      <4> HIDE DEF y
      <4>3. (c + H) + D + a + w + y = Quota
        BY <3>1, <3>3, <4>2
      <4> QED BY <4>1, <4>3 DEF y
    <3>9. CASE m \notin ReportMsgs(q)
      <4>1. R = T /\ sess'[x].credit = c
        BY <3>1, <3>4, <3>9
      <4> QED BY <3>2, <4>1
    <3> QED BY <3>8, <3>9
  <2> QED BY <2>2, <2>3
<1> QED BY <1>9, <1>10, <1>11, <1>12, <1>13, <1>14, <1>15 DEF TInv

\* What the tunnel does with a message concerns the request that owns it and no
\* other, and it loses none that the quota counts.
LEMMA DeliverTInv ==
    ASSUME IInv, TInv, TagsSuffice, on_tunnel_msg
    PROVE  TInv'
<1>1. /\ TagsUnique /\ Announced /\ Forgotten /\ WillBeTold /\ ToldInOrder
      /\ DataFirst /\ ReportsWhole /\ QuotaKept
  BY DEF TInv
<1> DEFINE m == Head(south)
           i == m.req_idx
           o == m.own
<1>2. /\ alive /\ south # << >> /\ south' = Tail(south) /\ south \in Seq(Msg)
      /\ m \in Msg /\ Names(m)
      /\ UNCHANGED << alive, task, north, client, sess >>
      /\ rx' \in [Req -> Seq(Msg)]
      /\ Delivers(m) \/ Drops(m) \/ Takes(m)
  BY DeliverFacts
<1>3. /\ m = south[1] /\ 1 \in DOMAIN south /\ south' \in Seq(Msg)
      /\ DOMAIN south = 1 .. Len(south) /\ Len(south) \in Nat
      /\ DOMAIN south' = 1 .. Len(south) - 1
      /\ \A k \in DOMAIN south' : k + 1 \in DOMAIN south /\ south'[k] = south[k + 1]
      /\ \A k \in DOMAIN south : k # 1 => k - 1 \in DOMAIN south' /\ south'[k - 1] = south[k]
  BY <1>2, TailFacts
<1>4. /\ o \in Started /\ o \in Req /\ i \in Slot /\ m.req_tag \in Tag
      /\ i = task[o].req_idx /\ m.req_tag = task[o].req_tag /\ m.req_tag % 2 = 1
  BY <1>2, MsgFacts DEF Names, Started, IInv, TaskParts
<1>5. Started' = Started
  BY <1>2 DEF Started
<1> HIDE DEF m
\* The slot is still that of the owner when the tags are the same.
<1>6. reqq.elements[i].tag = m.req_tag => reqq.elements[i].trigger = o
  BY <1>1, <1>2, <1>4, OneName DEF SlotOf
<1>7. rx' = IF m.cmd = "ReqData" /\ Reachable(m) THEN [rx EXCEPT ![o] = Append(@, m)] ELSE rx
  <2>1. Reachable(m) => reqq.elements[i].request_tx = o
    BY <1>2, <1>4, <1>6, TableFacts DEF Reachable
  <2>2. CASE Delivers(m)
    BY <2>1, <2>2 DEF Delivers
  <2>3. CASE Drops(m) \/ Takes(m)
    <3>1. m.cmd # "ReqData" /\ rx' = rx
      BY <2>3 DEF Drops, Takes
    <3> QED BY <3>1
  <2> QED BY <1>2, <2>2, <2>3
<1>8. \A q \in Req : q # o => rx'[q] = rx[q]
  BY <1>7 DEF IInv, TypeOK
<1>9. \/ reqq' = reqq
      \/ Drops(m) /\ reqq.elements[i].tag = m.req_tag
      \/ Takes(m) /\ reqq.elements[i].tag = m.req_tag
  <2>1. CASE Delivers(m)
    BY <2>1 DEF Delivers
  <2>2. CASE Drops(m)
    BY <2>2 DEF Drops
  <2>3. CASE Takes(m)
    BY <2>3 DEF Takes
  <2> QED BY <1>2, <2>1, <2>2, <2>3
<1>10. ASSUME NEW q \in Started
      PROVE  /\ q \in Req
             /\ SlotThen(q).trigger = q => SlotOf(q).trigger = q
             /\ SlotOf(q).trigger = q =>
                  SlotThen(q).trigger = q \/ (m.cmd = "ReqServerClosed" /\ q = o)
             /\ SlotThen(q).trigger = q /\ ~(m.cmd = "ReqServerFinished" /\ q = o) =>
                  SlotThen(q).request_tx = SlotOf(q).request_tx
  <2>1. q \in Req /\ task[q].req_idx \in Slot /\ q # NoReq
    BY <1>1, OneName, Consts DEF Started
  <2> DEFINE x == task[q].req_idx
  <2>2. SlotThen(q) = reqq'.elements[x] /\ SlotOf(q) = reqq.elements[x]
    BY <1>2 DEF SlotThen, SlotOf
  <2>3. CASE reqq' = reqq
    BY <2>1, <2>2, <2>3
  <2>4. CASE Drops(m) /\ reqq.elements[i].tag = m.req_tag
    <3>1. CASE x = i
      BY <1>6, <2>1, <2>2, <2>4, <3>1 DEF Drops
    <3>2. CASE x # i
      BY <2>1, <2>2, <2>4, <3>2 DEF Drops
    <3> QED BY <3>1, <3>2
  <2>5. CASE Takes(m) /\ reqq.elements[i].tag = m.req_tag
    <3>1. CASE x = i
      BY <1>6, <2>1, <2>2, <2>5, <3>1 DEF Takes, GivenBack
    <3>2. CASE x # i
      BY <2>1, <2>2, <2>5, <3>2 DEF Takes, GivenBack
    <3> QED BY <3>1, <3>2
  <2> QED BY <1>9, <2>3, <2>4, <2>5
<1>11. TagsUnique'
  <2>1. CASE GivenBack(i, m.req_tag)
    BY <1>1, <1>2, <1>4, <1>5, <2>1, TagsGivenBack
  <2>2. CASE ~GivenBack(i, m.req_tag)
    <3>1. \A x \in Slot : reqq'.elements[x].tag = reqq.elements[x].tag
      <4>1. CASE Drops(m) /\ reqq.elements[i].tag = m.req_tag
        BY <4>1 DEF Drops
      <4>2. CASE Takes(m) /\ reqq.elements[i].tag = m.req_tag
        BY <2>2, <4>2 DEF Takes
      <4> QED BY <1>9, <4>1, <4>2
    <3> QED BY <1>1, <1>2, <1>5, <3>1, OneName, TagsSame
  <2> QED BY <2>1, <2>2
<1>12. ReportsWhole' /\ ToldInOrder'
  <2>1. ReportsWhole'
    BY <1>1, <1>2 DEF ReportsWhole
  <2>2. ToldInOrder'
    BY <1>1, <1>2 DEF ToldInOrder, CloseOf
  <2> QED BY <2>1, <2>2
<1>13. \A k \in DOMAIN north : /\ north[k].own \in Started
                               /\ north[k].cmd = "ReqCreated" => north[k].own # o
  BY <1>1, <1>3, MessageOwners DEF Announced
<1>14. Announced'
  <2> SUFFICES ASSUME NEW k \in DOMAIN north, north[k].cmd = "ReqCreated"
               PROVE  LET q == north[k].own IN
                      /\ \A l \in DOMAIN north : l # k /\ north[l].own = q =>
                           l > k /\ north[l].cmd \notin {"ReqCreated", "ReqClientQuota"}
                      /\ \A l \in DOMAIN south' : south'[l].own # q
                      /\ \A x \in Slot : sess[x].open => sess[x].own # q
                      /\ rx'[q] = << >> /\ task[q].write_out = 0
                      /\ SlotThen(q).trigger = q => SlotThen(q).request_tx = q
    BY <1>2 DEF Announced, SlotOf, SlotThen
  <2> DEFINE q == north[k].own
  <2>1. /\ \A l \in DOMAIN north : l # k /\ north[l].own = q =>
             l > k /\ north[l].cmd \notin {"ReqCreated", "ReqClientQuota"}
        /\ \A l \in DOMAIN south : south[l].own # q
        /\ \A x \in Slot : sess[x].open => sess[x].own # q
        /\ rx[q] = << >> /\ task[q].write_out = 0
        /\ SlotOf(q).trigger = q => SlotOf(q).request_tx = q
    BY <1>1 DEF Announced
  <2>2. q \in Started /\ q # o
    BY <1>13
  <2> HIDE DEF q
  <2>3. \A l \in DOMAIN south' : south'[l].own # q
    BY <1>3, <2>1
  <2>4. q \in Req /\ (SlotThen(q).trigger = q => SlotThen(q).request_tx = q)
    BY <1>10, <2>1, <2>2
  <2>5. rx'[q] = << >>
    BY <1>8, <2>1, <2>2, <2>4
  <2> QED BY <2>1, <2>3, <2>4, <2>5 DEF q
<1>15. Forgotten'
  <2> SUFFICES ASSUME NEW k \in DOMAIN south', south'[k].cmd = "ReqServerClosed",
                      NEW x \in Slot, sess[x].open
               PROVE  sess[x].own # south'[k].own
    BY <1>2 DEF Forgotten
  <2>1. k + 1 \in DOMAIN south /\ south'[k] = south[k + 1]
    BY <1>3
  <2> QED BY <1>1, <2>1 DEF Forgotten
<1>16. WillBeTold'
  <2>1. ASSUME NEW x \in Slot, sess[x].open
        PROVE  SlotThen(sess[x].own).trigger = sess[x].own
                 \/ \E k \in DOMAIN north : CloseOf(sess[x].own, k)
    <3>1. sess[x].own \in Started
      BY <2>1, SessionFacts
    <3>2. ~(m.cmd = "ReqServerClosed" /\ sess[x].own = o)
      BY <1>1, <1>3, <2>1 DEF Forgotten
    <3> QED BY <1>1, <1>10, <2>1, <3>1, <3>2 DEF WillBeTold
  <2>2. ASSUME NEW k \in DOMAIN north, north[k].cmd = "ReqCreated"
        PROVE  SlotThen(north[k].own).trigger = north[k].own
                 \/ \E l \in DOMAIN north : k < l /\ CloseOf(north[k].own, l)
    BY <1>1, <1>10, <1>13, <2>2 DEF WillBeTold
  <2>3. \A q : SlotOf(q)' = SlotThen(q)
    BY DEF SlotOf, SlotThen
  <2> QED BY <1>2, <2>1, <2>2, <2>3 DEF WillBeTold, CloseOf
<1>17. DataFirst'
  <2>1. ASSUME NEW k \in DOMAIN south', NEW l \in DOMAIN south',
               k < l, south'[k].own = south'[l].own,
               south'[k].cmd \in {"ReqServerFinished", "ReqServerClosed"}
        PROVE  south'[l].cmd # "ReqData"
    <3>1. /\ k + 1 \in DOMAIN south /\ south'[k] = south[k + 1]
          /\ l + 1 \in DOMAIN south /\ south'[l] = south[l + 1] /\ k + 1 < l + 1
      BY <1>3, <2>1
    <3> QED BY <1>1, <2>1, <3>1 DEF DataFirst
  <2>2. ASSUME NEW x \in Slot, sess[x].open
        PROVE  LET q == sess[x].own IN
               IF sess[x].server_fin
                 THEN SlotThen(q).trigger = q /\ SlotThen(q).request_tx # q =>
                        \A k \in DOMAIN south' : south'[k].own = q => south'[k].cmd # "ReqData"
                 ELSE /\ SlotThen(q).trigger = q => SlotThen(q).request_tx = q
                      /\ \A k \in DOMAIN south' : south'[k].own = q =>
                           south'[k].cmd # "ReqServerFinished"
    <3> DEFINE q == sess[x].own
    <3>1. q \in Started
      BY <2>2, SessionFacts
    <3>2. CASE sess[x].server_fin
      <4> SUFFICES ASSUME SlotThen(q).trigger = q, SlotThen(q).request_tx # q,
                          NEW k \in DOMAIN south', south'[k].own = q
                   PROVE  south'[k].cmd # "ReqData"
        BY <3>2
      <4>1. /\ k + 1 \in DOMAIN south /\ south'[k] = south[k + 1] /\ 1 < k + 1
        BY <1>3
      <4>2. CASE m.cmd = "ReqServerFinished" /\ q = o
        BY <1>1, <1>3, <4>1, <4>2 DEF DataFirst
      <4>3. CASE ~(m.cmd = "ReqServerFinished" /\ q = o)
        <5>1. SlotOf(q).trigger = q /\ SlotOf(q).request_tx # q
          BY <1>10, <3>1, <4>3
        <5> QED BY <1>1, <2>2, <3>2, <4>1, <5>1 DEF DataFirst
      <4> QED BY <4>2, <4>3
    <3>3. CASE ~sess[x].server_fin
      <4>1. /\ SlotOf(q).trigger = q => SlotOf(q).request_tx = q
            /\ \A k \in DOMAIN south : south[k].own = q => south[k].cmd # "ReqServerFinished"
        BY <1>1, <2>2, <3>3 DEF DataFirst
      <4>2. ~(m.cmd = "ReqServerFinished" /\ q = o)
        BY <1>3, <4>1
      <4>3. SlotThen(q).trigger = q => SlotThen(q).request_tx = q
        BY <1>10, <3>1, <4>1, <4>2
      <4>4. \A k \in DOMAIN south' : south'[k].own = q => south'[k].cmd # "ReqServerFinished"
        BY <1>3, <4>1
      <4> QED BY <3>3, <4>3, <4>4
    <3> QED BY <3>2, <3>3
  <2>3. \A q : SlotOf(q)' = SlotThen(q)
    BY DEF SlotOf, SlotThen
  <2> QED BY <1>2, <2>1, <2>2, <2>3 DEF DataFirst
<1>18. QuotaKept'
  <2> SUFFICES ASSUME NEW x \in Slot, sess[x].open, task[sess[x].own].sending
               PROVE  sess[x].credit + Cardinality(DataThen(sess[x].own)) + Len(rx'[sess[x].own])
                        + task[sess[x].own].write_out
                        + (Quota \div 2) * Cardinality(ReportsOf(sess[x].own)) = Quota
    <3>1. \A q : ReportsThen(q) = ReportsOf(q)
      BY <1>2 DEF ReportsThen, ReportsOf
    <3> QED BY <1>2, <3>1, QuotaThen
  <2> DEFINE q == sess[x].own
             c == sess[x].credit
             D == Cardinality(DataOf(q))
             T == Cardinality(DataThen(q))
             a == Len(rx[q])
             w == task[q].write_out
             h == (Quota \div 2) * Cardinality(ReportsOf(q))
  <2>1. q \in Req /\ q \in Started /\ c \in Int
    BY SessionFacts
  <2>2. c + D + a + w + h = Quota
    BY <1>1 DEF QuotaKept
  <2>3. D \in Nat /\ a \in Nat /\ w \in Nat /\ h \in Int /\ DataOf(q) = Hits(south, DataMsgs(q))
        /\ rx[q] \in Seq(Msg)
    BY <2>1, CountFacts
  <2>4. DataThen(q) = Hits(south', DataMsgs(q))
    BY <1>3 DEF DataThen, Hits, DataMsgs
  <2>5. D = T + (IF m \in DataMsgs(q) THEN 1 ELSE 0) /\ T \in Nat
    <3>1. m = Head(south)
      BY DEF m
    <3>2. D = Cardinality(Hits(Tail(south), DataMsgs(q)))
              + (IF Head(south) \in DataMsgs(q) THEN 1 ELSE 0)
      BY <1>2, <2>3, HitsTail
    <3>3. T = Cardinality(Hits(Tail(south), DataMsgs(q))) /\ T \in Nat
      BY <1>2, <1>3, <2>4, HitsFinite
    <3> QED BY <3>1, <3>2, <3>3
  <2>6. CASE m \in DataMsgs(q)
    <3>1. m.cmd = "ReqData" /\ q = o
      BY <2>6 DEF DataMsgs
    <3>2. SlotOf(q).trigger = q
      <4>1. task[q].st = "open"
        BY <2>1 DEF IInv, TaskParts
      <4>2. ~ \E k \in DOMAIN north : CloseOf(q, k)
        BY <4>1 DEF IInv, EndsMeant, CloseOf
      <4> QED BY <1>1, <4>2 DEF WillBeTold
    <3>3. SlotOf(q).request_tx = q
      <4>1. \E k \in DOMAIN south : south[k].own = q /\ south[k].cmd = "ReqData"
        BY <1>3, <3>1
      <4> QED BY <1>1, <3>2, <4>1 DEF DataFirst
    <3>4. Reachable(m)
      BY <1>1, <1>4, <2>1, <3>1, <3>2, <3>3, OneName, Consts DEF Reachable, SlotOf
    <3>5. rx'[q] = Append(rx[q], m)
      BY <1>4, <1>7, <3>1, <3>4 DEF IInv, TypeOK
    <3>6. Len(rx'[q]) = a + 1
      BY <1>2, <2>3, <3>5, AppendFacts
    <3>7. D = T + 1 /\ T \in Nat
      BY <2>5, <2>6
    <3> HIDE DEF c, D, T, a, w, h
    <3> SUFFICES c + T + (a + 1) + w + h = Quota
      BY <3>6 DEF c, T, a, w, h
    <3>8. c + (T + 1) + a + w + h = Quota
      BY <2>2, <3>7
    <3>9. c \in Int /\ T \in Nat /\ a \in Nat /\ w \in Nat /\ h \in Int
      BY <2>1, <2>3, <3>7
    <3> QED BY <3>8, <3>9
  <2>7. CASE m \notin DataMsgs(q)
    <3>1. T = D
      BY <2>3, <2>5, <2>7
    <3>2. rx'[q] = rx[q]
      <4>1. CASE q = o
        BY <1>2, <1>7, <2>7, <4>1 DEF DataMsgs
      <4>2. CASE q # o
        BY <1>8, <2>1, <4>2
      <4> QED BY <4>1, <4>2
    <3> QED BY <2>2, <3>1, <3>2
  <2> QED BY <2>6, <2>7
<1> QED BY <1>11, <1>12, <1>14, <1>15, <1>16, <1>17, <1>18 DEF TInv

\* The end of the connection leaves nothing to be wrong about.
LEMMA ClosedTInv ==
    ASSUME IInv, TInv, on_closed
    PROVE  TInv'
<1>1. /\ alive' = FALSE /\ north' = << >> /\ south' = << >> /\ UNCHANGED << task, rx >>
      /\ \A s \in Slot : ~sess'[s].open
  BY DEF on_closed, NoSession
<1>2. TagsUnique'
  BY <1>1 DEF TInv, TagsUnique, Started
<1> QED BY <1>1, <1>2 DEF TInv, Announced, Forgotten, WillBeTold, ToldInOrder, DataFirst,
                          ReportsWhole, QuotaKept

LEMMA NextTInv == TagsSuffice /\ TagsSuffice' /\ IInv /\ TInv /\ [Next]_vars => TInv'
<1> SUFFICES ASSUME TagsSuffice, TagsSuffice', IInv, TInv, [Next]_vars PROVE TInv'
  OBVIOUS
<1>1. ASSUME UNCHANGED << alive, reqq, req_count, task, rx, north, south, sess >>
      PROVE  TInv'
  <2>1. TagsUnique' /\ Announced' /\ Forgotten'
    BY <1>1 DEF TInv, TagsUnique, Started, Served, Announced, Forgotten, SlotOf
  <2>2. WillBeTold' /\ ToldInOrder'
    BY <1>1 DEF TInv, WillBeTold, ToldInOrder, CloseOf, SlotOf
  <2>3. DataFirst' /\ ReportsWhole'
    BY <1>1 DEF TInv, DataFirst, ReportsWhole, SlotOf
  <2>4. QuotaKept'
    <3>1. \A q : DataThen(q) = DataOf(q) /\ ReportsThen(q) = ReportsOf(q)
      BY <1>1 DEF DataOf, DataThen, ReportsOf, ReportsThen
    <3> QED BY <1>1, <3>1, QuotaThen DEF TInv, QuotaKept
  <2> QED BY <2>1, <2>2, <2>3, <2>4 DEF TInv
<1>2. ASSUME UNCHANGED vars PROVE TInv'
  BY <1>1, <1>2 DEF vars, clientSide
<1>3. ASSUME NEW r \in Req, ClientEnds(r) PROVE TInv'
  BY <1>1, <1>3, ClientEndsIInv
<1> QED BY <1>2, <1>3, StepKinds, CreatedTInv, SpeaksTInv, RepliesTInv, ReceivesTInv,
           DeliverTInv, ClosedTInv

\* The second inductive invariant, as long as no slot serves more requests than
\* there are tags for.
THEOREM TagsInvariance == Spec /\ []TagsSuffice => []TInv
<1> QED BY NextTInv, Invariance, InitTInv, PTL DEF Spec

\* A tunnel that serves few requests in its life has tags enough in every slot.
THEOREM FewRequests ==
    ASSUME IsFiniteSet(Req), 2 * Cardinality(Req) < TagMod
    PROVE  Spec => []TagsSuffice
<1>1. TagsSuffice
  <2> SUFFICES ASSUME NEW s \in Slot
               PROVE  2 * Cardinality(Served(s)) < TagMod
    BY DEF TagsSuffice
  <2>1. Served(s) \subseteq Req
    BY DEF Served
  <2>2. /\ Cardinality(Served(s)) \in Nat /\ Cardinality(Req) \in Nat
        /\ Cardinality(Served(s)) <= Cardinality(Req)
    BY <2>1, FS_Subset, FS_CardinalityType
  <2> QED BY <2>2, Consts
<1> QED BY <1>1, PTL

\* Whichever end closed the last request of a slot, and even if both did, the
\* server reads of the close before it reads of the next request (SlotFreeAtServer).
THEOREM SlotsLetGo == Spec /\ []TagsSuffice => []SlotFreeAtServer
<1>1. ASSUME IInv, TInv
      PROVE  SlotFreeAtServer
  <2> SUFFICES ASSUME NEW k \in DOMAIN north, north[k].cmd = "ReqCreated",
                      sess[north[k].req_idx].open
               PROVE  \E l \in 1 .. k - 1 :
                        /\ north[l].cmd = "ReqClientClosed"
                        /\ north[l].req_idx = north[k].req_idx
                        /\ north[l].req_tag = sess[north[k].req_idx].req_tag
    BY DEF SlotFreeAtServer
  <2> DEFINE s == north[k].req_idx
  <2>1. /\ north \in Seq(Msg) /\ s \in Slot
        /\ DOMAIN north = 1 .. Len(north) /\ Len(north) \in Nat
    BY <1>1, MessageOwners, MsgFacts
  <2>2. PICK l \in DOMAIN north : l < k /\ CloseOf(sess[s].own, l)
    BY <1>1, <2>1 DEF TInv, ToldInOrder
  <2>3. north[l].req_idx = s /\ north[l].req_tag = sess[s].req_tag
    BY <1>1, <2>1, <2>2, MessageOwners, OneName DEF TInv, CloseOf
  <2>4. l \in 1 .. k - 1
    BY <2>1, <2>2
  <2> QED BY <2>2, <2>3, <2>4 DEF CloseOf
<1>2. IInv /\ TInv => SlotFreeAtServer
  BY <1>1
<1> QED BY <1>2, Invariance, TagsInvariance, PTL

\* While a request task writes, the whole quota of its session is accounted for: in
\* the server's hands, on its way, in rx, written, or reported (QuotaConserved).
THEOREM QuotaIsConserved == Spec /\ []TagsSuffice => []QuotaConserved
<1>1. ASSUME IInv, TInv
      PROVE  QuotaConserved
  <2>1. ASSUME NEW s \in Slot, sess[s].open
        PROVE  Data(s) = DataOf(sess[s].own) /\ Reports(s) = ReportsOf(sess[s].own)
    BY <1>1, <2>1, MessageOwners, OneName DEF TInv, Data, DataOf, Reports, ReportsOf
  <2> SUFFICES ASSUME NEW s \in Slot, sess[s].open, task[sess[s].own].sending
               PROVE  sess[s].credit + Cardinality(Data(s)) + Len(rx[sess[s].own])
                        + task[sess[s].own].write_out
                        + (Quota \div 2) * Cardinality(Reports(s)) = Quota
    BY DEF QuotaConserved
  <2> QED BY <1>1, <2>1 DEF TInv, QuotaKept
<1>2. IInv /\ TInv => QuotaConserved
  BY <1>1
<1> QED BY <1>2, Invariance, TagsInvariance, PTL

-----------------------------------------------------------------------------
(***************************************************************************)
(* PInv holds and is preserved, if the tags suffice: what the client was   *)
(* given, what its channel holds, what is on the wire and what the server  *)
(* has sent are one run of numbers.  DataOf is a set of places on the wire *)
(* and Rank the place among them, so that no sequence has to be filtered.  *)
(***************************************************************************)

\* What a set holds up to k: its size is the rank of k in the set.
Upto(D, k) == {l \in D : l <= k}

\* Ranks grow with the places, and each rank is that of a place.
LEMMA RankFacts ==
    ASSUME NEW D \in SUBSET Nat, IsFiniteSet(D)
    PROVE  /\ Cardinality(D) \in Nat
           /\ \A k \in Nat : IsFiniteSet(Upto(D, k)) /\ Cardinality(Upto(D, k)) \in Nat
           /\ \A k \in D : Cardinality(Upto(D, k)) \in 1 .. Cardinality(D)
           /\ \A j \in 1 .. Cardinality(D) : \E k \in D : Cardinality(Upto(D, k)) = j
<1> DEFINE n == Cardinality(D)
           f == [k \in D |-> Cardinality(Upto(D, k))]
<1>1. n \in Nat
  BY FS_CardinalityType
<1>2. ASSUME NEW k \in Nat
      PROVE  /\ IsFiniteSet(Upto(D, k)) /\ Cardinality(Upto(D, k)) \in Nat
             /\ Cardinality(Upto(D, k)) <= n
  <2>1. Upto(D, k) \in SUBSET D
    BY DEF Upto
  <2> QED BY <2>1, FS_Subset, FS_CardinalityType
<1>3. ASSUME NEW k \in D
      PROVE  Cardinality(Upto(D, k)) \in 1 .. n
  <2>1. k \in Upto(D, k) /\ k \in Nat
    BY DEF Upto
  <2>2. Cardinality(Upto(D, k)) # 0
    BY <1>2, <2>1, FS_EmptySet
  <2> QED BY <1>1, <1>2, <2>1, <2>2
<1>4. ASSUME NEW k \in D, NEW l \in D, k < l
      PROVE  Cardinality(Upto(D, k)) # Cardinality(Upto(D, l))
  <2>1. Upto(D, k) \in SUBSET Upto(D, l)
    <3>1. k \in Nat /\ l \in Nat /\ \A x \in D : x \in Nat
      OBVIOUS
    <3>2. \A x \in D : x <= k => x <= l
      BY <1>4, <3>1
    <3> QED BY <3>2 DEF Upto
  <2>2. l \in Upto(D, l) /\ l \notin Upto(D, k)
    BY <1>4 DEF Upto
  <2>3. IsFiniteSet(Upto(D, l))
    BY <1>2
  <2> QED BY <2>1, <2>2, <2>3, FS_Subset
<1>5. f \in Injection(D, 1 .. n)
  <2>1. f \in [D -> 1 .. n]
    BY <1>3
  <2>2. ASSUME NEW k \in D, NEW l \in D, f[k] = f[l]
        PROVE  k = l
    <3>1. k \in Nat /\ l \in Nat
      OBVIOUS
    <3> QED BY <1>4, <2>2, <3>1
  <2> QED BY <2>1, <2>2 DEF Injection, IsInjective
<1>6. IsFiniteSet(1 .. n) /\ Cardinality(1 .. n) = n
  BY <1>1, FS_Interval
<1>7. f \in Surjection(D, 1 .. n)
  <2> HIDE DEF f
  <2> QED BY <1>5, <1>6, FS_Injection
<1>8. \A j \in 1 .. n : \E k \in D : f[k] = j
  BY <1>7 DEF Surjection
<1> QED BY <1>1, <1>2, <1>3, <1>8

\* A set of places without its first place, which may belong to it or not, moves
\* down by one.
Shifted(D) == {k \in Nat \ {0} : k + 1 \in D}

LEMMA ShiftFacts ==
    ASSUME NEW D \in SUBSET (Nat \ {0}), IsFiniteSet(D)
    PROVE  /\ Cardinality(D) \in Nat /\ Cardinality(Shifted(D)) \in Nat
           /\ Cardinality(D) = Cardinality(Shifted(D)) + (IF 1 \in D THEN 1 ELSE 0)
<1> DEFINE A == Shifted(D)
           B == D \ {1}
           f == [k \in B |-> k - 1]
<1>1. IsFiniteSet(B) /\ Cardinality(D) \in Nat /\ Cardinality(B) \in Nat
      /\ Cardinality(D) = Cardinality(B) + (IF 1 \in D THEN 1 ELSE 0)
  <2>1. CASE 1 \in D
    <3>1. IsFiniteSet(B) /\ Cardinality(B) = Cardinality(D) - 1
      BY <2>1, FS_RemoveElement
    <3>2. Cardinality(D) \in Nat /\ Cardinality(B) \in Nat
      BY <3>1, FS_CardinalityType
    <3> HIDE DEF B
    <3> QED BY <2>1, <3>1, <3>2
  <2>2. CASE 1 \notin D
    <3>1. B = D
      BY <2>2
    <3>2. Cardinality(D) \in Nat
      BY FS_CardinalityType
    <3> HIDE DEF B
    <3> QED BY <2>2, <3>1, <3>2
  <2> QED BY <2>1, <2>2
<1>2. f \in Bijection(B, A)
  <2>1. f \in [B -> A]
    BY DEF Shifted
  <2>2. \A a, b \in B : f[a] = f[b] => a = b
    OBVIOUS
  <2>3. \A a \in A : \E b \in B : f[b] = a
    <3> SUFFICES ASSUME NEW a \in A PROVE a + 1 \in B /\ f[a + 1] = a
      OBVIOUS
    <3> QED BY DEF Shifted
  <2> QED BY <2>1, <2>2, <2>3 DEF Bijection, Injection, Surjection, IsInjective
<1>3. Cardinality(A) = Cardinality(B)
  BY <1>1, <1>2, FS_Bijection DEF ExistsBijection
<1> QED BY <1>1, <1>3

\* DataOf, Rank and Connected in the next state.
RankThen(r, k) == Cardinality({l \in DataThen(r) : l <= k})
ConnectedThen(r) == alive' /\ task'[r].sending /\ SlotThen(r).request_tx = r

LEMMA DataFacts ==
    ASSUME IInv, NEW r \in Req
    PROVE  /\ DataOf(r) \in SUBSET (Nat \ {0}) /\ IsFiniteSet(DataOf(r))
           /\ Cardinality(DataOf(r)) \in Nat
           /\ \A k : Rank(r, k) = Cardinality(Upto(DataOf(r), k))
           /\ \A k \in Nat : Rank(r, k) \in Nat
           /\ \A k \in DataOf(r) : k \in DOMAIN south /\ south[k] \in Msg
                                   /\ Rank(r, k) \in 1 .. Cardinality(DataOf(r))
           /\ \A j \in 1 .. Cardinality(DataOf(r)) : \E k \in DataOf(r) : Rank(r, k) = j
<1>1. south \in Seq(Msg) /\ DOMAIN south = 1 .. Len(south) /\ Len(south) \in Nat
  BY DEF IInv, TypeOK
<1>2. DataOf(r) \in SUBSET (Nat \ {0}) /\ DataOf(r) \in SUBSET Nat
  BY <1>1 DEF DataOf
<1>3. IsFiniteSet(DataOf(r))
  BY <1>1, CountFacts, HitsFinite
<1>4. \A k : Rank(r, k) = Cardinality(Upto(DataOf(r), k))
  BY DEF Rank, Upto
<1>5. \A k \in DataOf(r) : k \in DOMAIN south /\ south[k] \in Msg
  BY <1>1, Elements DEF DataOf
<1> QED BY <1>2, <1>3, <1>4, <1>5, RankFacts

LEMMA DataAppend ==
    ASSUME IInv, NEW r \in Req, NEW m \in Msg, south' = Append(south, m)
    PROVE  /\ m \notin DataMsgs(r) =>
                /\ DataThen(r) = DataOf(r)
                /\ \A k \in DataOf(r) : south'[k] = south[k] /\ RankThen(r, k) = Rank(r, k)
           /\ m \in DataMsgs(r) =>
                /\ DataThen(r) = DataOf(r) \cup {Len(south) + 1}
                /\ Cardinality(DataThen(r)) = Cardinality(DataOf(r)) + 1
                /\ south'[Len(south) + 1] = m
                /\ RankThen(r, Len(south) + 1) = Cardinality(DataOf(r)) + 1
                /\ \A k \in DataOf(r) : south'[k] = south[k] /\ RankThen(r, k) = Rank(r, k)
<1> DEFINE e == Len(south) + 1
<1>1. /\ south \in Seq(Msg) /\ DOMAIN south = 1 .. Len(south) /\ Len(south) \in Nat
      /\ DOMAIN south' = 1 .. Len(south) + 1
      /\ \A k \in DOMAIN south : south'[k] = south[k]
      /\ south'[e] = m
  BY AppendFacts DEF IInv, TypeOK
<1>2. \A k \in DataOf(r) : south'[k] = south[k] /\ k < e /\ k \in Nat
  BY <1>1 DEF DataOf
<1>3. CASE m \notin DataMsgs(r)
  <2>1. DataThen(r) = DataOf(r)
    <3>1. \A k \in DOMAIN south' : k \in DataThen(r) <=> k \in DataOf(r)
      BY <1>1, <1>3 DEF DataOf, DataThen, DataMsgs
    <3> QED BY <1>1, <3>1 DEF DataOf, DataThen
  <2> QED BY <1>2, <1>3, <2>1 DEF Rank, RankThen
<1>4. CASE m \in DataMsgs(r)
  <2>1. DataThen(r) = DataOf(r) \cup {e}
    <3>1. \A k \in DOMAIN south' : k \in DataThen(r) <=> k \in DataOf(r) \/ k = e
      BY <1>1, <1>4 DEF DataOf, DataThen, DataMsgs
    <3> QED BY <1>1, <3>1 DEF DataOf, DataThen
  <2>2. e \notin DataOf(r)
    BY <1>1, <1>2
  <2>3. Cardinality(DataThen(r)) = Cardinality(DataOf(r)) + 1
    BY <2>1, <2>2, DataFacts, FS_AddElement
  <2>4. {l \in DataThen(r) : l <= e} = DataThen(r)
    BY <1>1, <1>2, <2>1
  <2>5. \A k \in DataOf(r) : {l \in DataThen(r) : l <= k} = {l \in DataOf(r) : l <= k}
    BY <1>1, <1>2, <2>1
  <2> QED BY <1>1, <1>2, <1>4, <2>1, <2>3, <2>4, <2>5 DEF Rank, RankThen
<1> QED BY <1>3, <1>4

LEMMA DataTail ==
    ASSUME IInv, NEW r \in Req, south # << >>, south' = Tail(south)
    PROVE  /\ 1 \in DataOf(r) <=> Head(south) \in DataMsgs(r)
           /\ 1 \in DataOf(r) => Rank(r, 1) = 1
           /\ Cardinality(DataThen(r)) \in Nat
           /\ Cardinality(DataOf(r)) = Cardinality(DataThen(r)) + (IF 1 \in DataOf(r) THEN 1 ELSE 0)
           /\ \A k \in DataThen(r) :
                /\ k + 1 \in DataOf(r) /\ south'[k] = south[k + 1] /\ RankThen(r, k) \in Nat
                /\ Rank(r, k + 1) = RankThen(r, k) + (IF 1 \in DataOf(r) THEN 1 ELSE 0)
<1>1. /\ south \in Seq(Msg) /\ Head(south) = south[1] /\ Len(south) \in Nat
      /\ 1 \in DOMAIN south /\ Head(south) \in Msg
      /\ DOMAIN south = 1 .. Len(south) /\ DOMAIN south' = 1 .. Len(south) - 1
      /\ \A k \in DOMAIN south' : k + 1 \in DOMAIN south /\ south'[k] = south[k + 1]
      /\ \A k \in DOMAIN south : k # 1 => k - 1 \in DOMAIN south' /\ south'[k - 1] = south[k]
  BY TailFacts DEF IInv, TypeOK
<1>2. 1 \in DataOf(r) <=> Head(south) \in DataMsgs(r)
  BY <1>1 DEF DataOf, DataMsgs
<1>3. DataThen(r) = Shifted(DataOf(r))
  <2>1. \A k \in DataThen(r) : k \in Nat \ {0} /\ k + 1 \in DataOf(r)
    BY <1>1 DEF DataThen, DataOf
  <2>2. \A k \in Nat \ {0} : k + 1 \in DataOf(r) => k \in DataThen(r)
    <3> SUFFICES ASSUME NEW k \in Nat \ {0}, k + 1 \in DataOf(r) PROVE k \in DataThen(r)
      OBVIOUS
    <3>1. k + 1 \in DOMAIN south /\ k + 1 # 1 /\ (k + 1) - 1 = k
      BY DEF DataOf
    <3>2. k \in DOMAIN south' /\ south'[k] = south[k + 1]
      BY <1>1, <3>1
    <3> QED BY <3>2 DEF DataOf, DataThen
  <2> QED BY <2>1, <2>2 DEF Shifted
<1>4. /\ Cardinality(DataThen(r)) \in Nat
      /\ Cardinality(DataOf(r)) = Cardinality(DataThen(r)) + (IF 1 \in DataOf(r) THEN 1 ELSE 0)
  BY <1>3, DataFacts, ShiftFacts
<1>5. ASSUME NEW k \in DataThen(r)
      PROVE  /\ k + 1 \in DataOf(r) /\ south'[k] = south[k + 1] /\ RankThen(r, k) \in Nat
             /\ Rank(r, k + 1) = RankThen(r, k) + (IF 1 \in DataOf(r) THEN 1 ELSE 0)
  <2>1. k + 1 \in DataOf(r) /\ k \in Nat \ {0} /\ k \in DOMAIN south'
    BY <1>3 DEF Shifted, DataThen
  <2> DEFINE U == Upto(DataOf(r), k + 1)
  <2>2. U \in SUBSET (Nat \ {0}) /\ IsFiniteSet(U) /\ (1 \in U <=> 1 \in DataOf(r))
    <3>1. DataOf(r) \in SUBSET Nat /\ DataOf(r) \in SUBSET (Nat \ {0}) /\ IsFiniteSet(DataOf(r))
      BY DataFacts
    <3>2. IsFiniteSet(U)
      BY <2>1, <3>1, RankFacts
    <3> QED BY <2>1, <3>1, <3>2 DEF Upto
  <2>3. {l \in DataThen(r) : l <= k} = Shifted(U)
    BY <1>3, <2>1 DEF Shifted, Upto
  <2>4. Cardinality(U) = Cardinality(Shifted(U)) + (IF 1 \in U THEN 1 ELSE 0)
        /\ Cardinality(Shifted(U)) \in Nat
    BY <2>2, ShiftFacts
  <2>5. Rank(r, k + 1) = Cardinality(U) /\ RankThen(r, k) = Cardinality(Shifted(U))
    BY <2>3 DEF Rank, RankThen, Upto
  <2> QED BY <1>1, <2>1, <2>2, <2>4, <2>5
<1>6. ASSUME 1 \in DataOf(r)
      PROVE  Rank(r, 1) = 1
  <2>1. Upto(DataOf(r), 1) = {1}
    <3>1. DataOf(r) \in SUBSET (Nat \ {0})
      BY DataFacts
    <3> QED BY <1>6, <3>1 DEF Upto
  <2>2. Cardinality({1}) = 1
    BY FS_Singleton
  <2> QED BY <2>1, <2>2 DEF Rank, Upto
<1> QED BY <1>2, <1>4, <1>5, <1>6

\* PInv in the next state.
LEMMA PInvThen ==
    ASSUME \A r \in Req : \A j \in DOMAIN rx'[r] :
             rx'[r][j].own = r /\ rx'[r][j].n = client'[r].got + j,
           \A r \in Req : ConnectedThen(r) =>
             \A k \in DataThen(r) : south'[k].n = client'[r].got + Len(rx'[r]) + RankThen(r, k),
           \A s \in Slot :
             sess'[s].open /\ ConnectedThen(sess'[s].own) =>
               sess'[s].sent = client'[sess'[s].own].got + Len(rx'[sess'[s].own])
                                 + Cardinality(DataThen(sess'[s].own)),
           \A r \in Req : task'[r].st = "new" => client'[r].got = 0,
           \A k \in DOMAIN north' :
             north'[k].cmd = "ReqCreated" => client'[north'[k].own].got = 0
    PROVE  PInv'
<1>1. ChannelNumbered'
  BY DEF ChannelNumbered
<1>2. WireNumbered'
  BY DEF WireNumbered, Connected, ConnectedThen, SlotOf, SlotThen, DataOf, DataThen, Rank, RankThen
<1>3. ServerNumbered'
  BY DEF ServerNumbered, Connected, ConnectedThen, SlotOf, SlotThen, DataOf, DataThen
<1>4. NothingYet'
  BY DEF NothingYet
<1> QED BY <1>1, <1>2, <1>3, <1>4 DEF PInv

LEMMA InitPInv == Init => PInv
<1> SUFFICES ASSUME Init PROVE PInv
  OBVIOUS
<1>1. north = << >> /\ south = << >> /\ task \in [Req -> Task]
  BY InitIInv DEF Init, IInv, TypeOK
<1>2. \A r \in Req : client[r].got = 0 /\ rx[r] = << >> /\ DataOf(r) = {}
  BY <1>1 DEF Init, DataOf
<1>3. \A s \in Slot : ~sess[s].open
  BY DEF Init, NoSession
<1> QED BY <1>1, <1>2, <1>3 DEF PInv, ChannelNumbered, WireNumbered, ServerNumbered, NothingYet

\* A channel that has its sender is that of the task that holds its slot.
LEMMA ConnectedFacts ==
    ASSUME IInv, NEW r \in Req, Connected(r)
    PROVE  /\ alive /\ task[r].st = "open" /\ task[r].sending /\ r \in Started
           /\ task[r].req_idx \in Slot
           /\ SlotOf(r).request_tx = r /\ SlotOf(r).trigger = r
           /\ SlotOf(r).tag = task[r].req_tag
<1>1. alive /\ task[r].sending /\ SlotOf(r).request_tx = r
  BY DEF Connected
<1>2. task[r].st = "open" /\ task[r].req_idx \in Slot /\ r # NoReq
  BY <1>1, Consts DEF IInv, TypeOK, Task, TaskParts
<1>3. SlotOf(r).trigger = r
  BY <1>1, <1>2, TableFacts DEF SlotOf
<1> QED BY <1>1, <1>2, <1>3 DEF IInv, Held, SlotOf, Started

\* A task that speaks can only disconnect itself.
LEMMA TalkConnected ==
    ASSUME IInv, TagsUnique, NEW r \in Req, NEW t, NEW ms, Speaks(r, t, ms)
    PROVE  /\ \A q \in Req : q # r => (ConnectedThen(q) <=> Connected(q))
           /\ ConnectedThen(r) => t.sending
           /\ ConnectedThen(r) => Connected(r)
           /\ t.sending /\ Connected(r) => ConnectedThen(r)
<1> DEFINE i == task[r].req_idx
<1>1. /\ alive' = alive /\ task'[r] = t /\ i \in Slot /\ task[r].req_tag \in Tag
      /\ (t.sending => task[r].sending /\ t.st # "done")
      /\ \A q \in Req : q # r => task'[q] = task[q]
      /\ \A q \in Req : task'[q].req_idx = task[q].req_idx
  BY SpokenTable DEF Speaks
<1>2. CASE reqq' = reqq
  <2>1. \A q \in Req : SlotThen(q) = SlotOf(q)
    BY <1>1, <1>2 DEF SlotThen, SlotOf
  <2> QED BY <1>1, <2>1 DEF Connected, ConnectedThen
<1>3. CASE alive /\ t.st = "done" /\ GivenBack(i, task[r].req_tag)
  <2>1. ~ConnectedThen(r) /\ ~t.sending
    BY <1>1, <1>3 DEF ConnectedThen
  <2>2. ASSUME NEW q \in Req, q # r
        PROVE  ConnectedThen(q) <=> Connected(q)
    <3>1. CASE task[q].req_idx = i
      <4>1. ~ConnectedThen(q)
        BY <1>1, <1>3, <3>1, Consts DEF ConnectedThen, SlotThen, GivenBack
      <4>2. ~Connected(q)
        <5> SUFFICES ASSUME Connected(q) PROVE FALSE
          OBVIOUS
        <5>1. q \in Started /\ task[q].req_tag = task[r].req_tag
          BY <1>3, <3>1, ConnectedFacts DEF SlotOf, GivenBack
        <5>2. r \in Started
          BY DEF Speaks, Started
        <5> QED BY <2>2, <3>1, <5>1, <5>2 DEF TagsUnique
      <4> QED BY <4>1, <4>2
    <3>2. CASE task[q].req_idx # i
      <4>1. task[q].req_idx \in Slot
        BY DEF IInv, TypeOK, Task
      <4>2. SlotThen(q) = SlotOf(q)
        BY <1>1, <1>3, <2>2, <3>2, <4>1 DEF SlotThen, SlotOf, GivenBack
      <4> QED BY <1>1, <2>2, <4>2 DEF Connected, ConnectedThen
    <3> QED BY <3>1, <3>2
  <2> QED BY <2>1, <2>2
<1> QED BY <1>2, <1>3, SpokenTable

\* What a step of a task means for the streams: nothing, or a message for the client,
\* or the end of the stream of a client that reset its connection.
Quiet ==
    /\ rx' = rx
    /\ \A q \in Req : client'[q].got = client[q].got /\ client'[q].st = client[q].st
    /\ \A q \in Req : ConnectedThen(q) <=> Connected(q)

Writes(r) ==
    /\ rx[r] # << >> /\ client[r].st # "rst"
    /\ rx' = [rx EXCEPT ![r] = Tail(@)]
    /\ client' = [client EXCEPT ![r].got = @ + 1]
    /\ \A q \in Req : ConnectedThen(q) <=> Connected(q)

Fails(r) ==
    /\ client[r].st = "rst" /\ client' = client
    /\ rx' = [rx EXCEPT ![r] = << >>]
    /\ ~ConnectedThen(r)
    /\ \A q \in Req : q # r => (ConnectedThen(q) <=> Connected(q))

LEMMA EndHalfSending ==
    ASSUME task \in [Req -> Task], NEW r \in Req, NEW t \in Task, NEW ms, EndHalf(r, t, ms)
    PROVE  task'[r].sending = t.sending
<1>1. CASE t.sending \/ t.receiving
  BY <1>1 DEF EndHalf
<1>2. CASE ~(t.sending \/ t.receiving)
  <2>1. task' = [task EXCEPT ![r] = [t EXCEPT !.st = "done", !.write_out = 0]]
    BY <1>2 DEF EndHalf
  <2> QED BY <2>1 DEF Task
<1> QED BY <1>1, <1>2

LEMMA TalkStream ==
    ASSUME IInv, TagsUnique, NEW r \in Req, TaskSteps(r)
    PROVE  Quiet \/ Writes(r) \/ Fails(r)
<1> USE DEF clientSide
<1>1. PICK t \in Task, ms \in Seq(Msg) : Speaks(r, t, ms)
  BY Talk
<1>2. /\ task \in [Req -> Task] /\ task[r] \in Task /\ rx \in [Req -> Seq(Msg)]
      /\ client \in [Req -> Client] /\ task'[r] = t /\ task[r].sending \in BOOLEAN
  BY <1>1, SpokenTable DEF IInv, TypeOK, Task
<1>3. /\ \A q \in Req : q # r => (ConnectedThen(q) <=> Connected(q))
      /\ ConnectedThen(r) => t.sending
      /\ ConnectedThen(r) => Connected(r)
      /\ t.sending /\ Connected(r) => ConnectedThen(r)
      /\ Connected(r) => task[r].sending
  BY <1>1, TalkConnected DEF Connected
<1>4. CASE on_request_msg(r)
  <2>1. client' = [client EXCEPT ![r].sent = @ + 1] /\ rx' = rx /\ task' = task
    BY <1>4 DEF on_request_msg
  <2>2. \A q \in Req : client'[q].got = client[q].got /\ client'[q].st = client[q].st
    BY <1>2, <2>1 DEF Client
  <2> QED BY <1>2, <1>3, <2>1, <2>2 DEF Quiet
<1>5. CASE ReceiveEnds(r)
  <2>1. rx' = rx /\ client' = client
    BY <1>5 DEF ReceiveEnds
  <2>2. task'[r].sending = task[r].sending
    <3> DEFINE u == [task[r] EXCEPT !.receiving = FALSE]
    <3>1. u \in Task /\ u.sending = task[r].sending
      BY <1>2 DEF Task
    <3>2. EndHalf(r, u, << Message("ReqClientFinished", r, 0) >>)
      BY <1>5 DEF ReceiveEnds
    <3> HIDE DEF u
    <3> QED BY <1>2, <3>1, <3>2, EndHalfSending
  <2> QED BY <1>2, <1>3, <2>1, <2>2 DEF Quiet
<1>6. CASE WriteOut(r)
  <2>1. /\ rx[r] # << >> /\ client[r].st # "rst"
        /\ rx' = [rx EXCEPT ![r] = Tail(@)]
        /\ client' = [client EXCEPT ![r].got = @ + 1]
        /\ task' = [task EXCEPT ![r].write_out = Counted(r)]
    BY <1>6 DEF WriteOut
  <2>2. task'[r].sending = task[r].sending
    BY <1>2, <2>1 DEF Task
  <2> QED BY <1>2, <1>3, <2>1, <2>2 DEF Writes
<1>7. CASE SendDrained(r)
  <2>1. rx' = rx /\ client' = client /\ SlotOf(r).request_tx # r
    BY <1>7 DEF SendDrained
  <2>2. ~Connected(r)
    BY <2>1 DEF Connected
  <2> QED BY <1>3, <2>1, <2>2 DEF Quiet
<1>8. CASE SendFails(r)
  <2>1. /\ client[r].st = "rst" /\ client' = client /\ rx' = [rx EXCEPT ![r] = << >>]
    BY <1>8 DEF SendFails
  <2>2. ~task'[r].sending
    <3> DEFINE u == [task[r] EXCEPT !.sending = FALSE, !.write_out = Counted(r)]
    <3>1. u \in Task /\ ~u.sending
      BY <1>2, CountedFacts DEF Task
    <3>2. EndHalf(r, u, QuotaMsgs(r))
      BY <1>8 DEF SendFails
    <3> HIDE DEF u
    <3> QED BY <1>2, <3>1, <3>2, EndHalfSending
  <2> QED BY <1>2, <1>3, <2>1, <2>2 DEF Fails
<1> QED BY <1>4, <1>5, <1>6, <1>7, <1>8 DEF TaskSteps

LEMMA TalkPInv ==
    ASSUME IInv, TInv, PInv, NEW r \in Req, TaskSteps(r)
    PROVE  PInv'
<1>1. PICK t \in Task, ms \in Seq(Msg) : Speaks(r, t, ms)
  BY Talk
<1>2. TagsUnique /\ Announced /\ ChannelNumbered /\ WireNumbered /\ ServerNumbered /\ NothingYet
  BY DEF TInv, PInv
<1>3. /\ south' = south /\ sess' = sess /\ task[r].st = "open"
      /\ \A q \in Req : task'[q].st = "new" <=> task[q].st = "new"
  BY <1>1, SpokenTable DEF Speaks
<1>4. \A q \in Req : DataThen(q) = DataOf(q) /\ \A k : RankThen(q, k) = Rank(q, k)
  BY <1>3 DEF DataOf, DataThen, Rank, RankThen
<1>5. ASSUME NEW k \in DOMAIN north', north'[k].cmd = "ReqCreated"
      PROVE  k \in DOMAIN north /\ north'[k] = north[k] /\ north[k].own \in Req
             /\ client[north[k].own].got = 0 /\ rx[north[k].own] = << >>
  <2>1. k \in DOMAIN north
    <3> SUFFICES ASSUME k \notin DOMAIN north PROVE FALSE
      OBVIOUS
    <3>1. k - Len(north) \in DOMAIN ms /\ north'[k] = ms[k - Len(north)]
      BY <1>1, SpokenNorth
    <3> QED BY <1>1, <1>5, <3>1 DEF Speaks, Says
  <2>2. north'[k] = north[k]
    BY <1>1, <2>1, SpokenNorth
  <2> QED BY <1>2, <1>5, <2>1, <2>2, MessageOwners DEF NothingYet, Announced
<1>6. ASSUME NEW s \in Slot, sess[s].open
      PROVE  sess[s].own \in Req
  BY <1>6, SessionFacts
<1>7. /\ rx \in [Req -> Seq(Msg)] /\ client \in [Req -> Client]
      /\ \A q \in Req : client[q].got \in Nat /\ Len(rx[q]) \in Nat /\ rx[q] \in Seq(Msg)
  BY DEF IInv, TypeOK, Client
<1>8. CASE Quiet
  <2>1. \A q \in Req : /\ rx'[q] = rx[q] /\ client'[q].got = client[q].got
                       /\ ConnectedThen(q) <=> Connected(q)
    BY <1>8 DEF Quiet
  <2>2. \A q \in Req : \A j \in DOMAIN rx'[q] :
          rx'[q][j].own = q /\ rx'[q][j].n = client'[q].got + j
    BY <1>2, <2>1 DEF ChannelNumbered
  <2>3. \A q \in Req : ConnectedThen(q) =>
          \A k \in DataThen(q) : south'[k].n = client'[q].got + Len(rx'[q]) + RankThen(q, k)
    BY <1>2, <1>3, <1>4, <2>1 DEF WireNumbered
  <2>4. \A s \in Slot :
          sess'[s].open /\ ConnectedThen(sess'[s].own) =>
            sess'[s].sent = client'[sess'[s].own].got + Len(rx'[sess'[s].own])
                              + Cardinality(DataThen(sess'[s].own))
    BY <1>2, <1>3, <1>4, <1>6, <2>1 DEF ServerNumbered
  <2>5. /\ \A q \in Req : task'[q].st = "new" => client'[q].got = 0
        /\ \A k \in DOMAIN north' : north'[k].cmd = "ReqCreated" => client'[north'[k].own].got = 0
    BY <1>2, <1>3, <1>5, <2>1 DEF NothingYet
  <2> QED BY <2>2, <2>3, <2>4, <2>5, PInvThen
<1>9. CASE Writes(r)
  <2>1. /\ rx'[r] = Tail(rx[r]) /\ client'[r].got = client[r].got + 1
        /\ Len(rx'[r]) = Len(rx[r]) - 1 /\ rx[r] # << >>
        /\ \A j \in DOMAIN rx'[r] : j + 1 \in DOMAIN rx[r] /\ rx'[r][j] = rx[r][j + 1] /\ j \in Nat
    BY <1>7, <1>9, TailFacts DEF Writes, Client
  <2>2. \A q \in Req : /\ q # r => rx'[q] = rx[q] /\ client'[q].got = client[q].got
                       /\ ConnectedThen(q) <=> Connected(q)
                       /\ client'[q].got + Len(rx'[q]) = client[q].got + Len(rx[q])
    <3>1. \A q \in Req : /\ q # r => rx'[q] = rx[q] /\ client'[q].got = client[q].got
                         /\ ConnectedThen(q) <=> Connected(q)
      BY <1>7, <1>9 DEF Writes
    <3>2. client'[r].got + Len(rx'[r]) = client[r].got + Len(rx[r])
      BY <1>7, <2>1
    <3> QED BY <3>1, <3>2
  <2>3. \A q \in Req : \A j \in DOMAIN rx'[q] :
          rx'[q][j].own = q /\ rx'[q][j].n = client'[q].got + j
    <3>1. \A j \in DOMAIN rx'[r] : rx'[r][j].own = r /\ rx'[r][j].n = client'[r].got + j
      <4> SUFFICES ASSUME NEW j \in DOMAIN rx'[r]
                   PROVE  rx'[r][j].own = r /\ rx'[r][j].n = client'[r].got + j
        OBVIOUS
      <4>1. j + 1 \in DOMAIN rx[r] /\ rx'[r][j] = rx[r][j + 1] /\ j \in Nat
        BY <2>1
      <4>2. rx[r][j + 1].own = r /\ rx[r][j + 1].n = client[r].got + (j + 1)
        BY <1>2, <4>1 DEF ChannelNumbered
      <4>3. \A c \in Nat : c + (j + 1) = (c + 1) + j
        BY <4>1
      <4>4. client[r].got + (j + 1) = client'[r].got + j
        BY <1>7, <2>1, <4>3
      <4> QED BY <4>1, <4>2, <4>4
    <3> QED BY <1>2, <2>2, <3>1 DEF ChannelNumbered
  <2>4. \A q \in Req : ConnectedThen(q) =>
          \A k \in DataThen(q) : south'[k].n = client'[q].got + Len(rx'[q]) + RankThen(q, k)
    BY <1>2, <1>3, <1>4, <2>2 DEF WireNumbered
  <2>5. \A s \in Slot :
          sess'[s].open /\ ConnectedThen(sess'[s].own) =>
            sess'[s].sent = client'[sess'[s].own].got + Len(rx'[sess'[s].own])
                              + Cardinality(DataThen(sess'[s].own))
    BY <1>2, <1>3, <1>4, <1>6, <2>2 DEF ServerNumbered
  <2>6. \A q \in Req : task'[q].st = "new" => client'[q].got = 0
    BY <1>2, <1>3, <2>2 DEF NothingYet
  <2>7. \A k \in DOMAIN north' : north'[k].cmd = "ReqCreated" => client'[north'[k].own].got = 0
    BY <1>5, <2>1, <2>2
  <2> QED BY <2>3, <2>4, <2>5, <2>6, <2>7, PInvThen
<1>10. CASE Fails(r)
  <2>1. /\ client' = client /\ rx'[r] = << >> /\ ~ConnectedThen(r)
        /\ \A q \in Req : q # r => rx'[q] = rx[q] /\ (ConnectedThen(q) <=> Connected(q))
    BY <1>7, <1>10 DEF Fails
  <2>2. \A q \in Req : \A j \in DOMAIN rx'[q] :
          rx'[q][j].own = q /\ rx'[q][j].n = client'[q].got + j
    BY <1>2, <2>1 DEF ChannelNumbered
  <2>3. \A q \in Req : ConnectedThen(q) =>
          \A k \in DataThen(q) : south'[k].n = client'[q].got + Len(rx'[q]) + RankThen(q, k)
    BY <1>2, <1>3, <1>4, <2>1 DEF WireNumbered
  <2>4. \A s \in Slot :
          sess'[s].open /\ ConnectedThen(sess'[s].own) =>
            sess'[s].sent = client'[sess'[s].own].got + Len(rx'[sess'[s].own])
                              + Cardinality(DataThen(sess'[s].own))
    BY <1>2, <1>3, <1>4, <1>6, <2>1 DEF ServerNumbered
  <2>5. /\ \A q \in Req : task'[q].st = "new" => client'[q].got = 0
        /\ \A k \in DOMAIN north' : north'[k].cmd = "ReqCreated" => client'[north'[k].own].got = 0
    BY <1>2, <1>3, <1>5, <2>1 DEF NothingYet
  <2> QED BY <2>2, <2>3, <2>4, <2>5, PInvThen
<1> QED BY <1>2, <1>8, <1>9, <1>10, TalkStream

\* A new request gets a channel that nothing is on its way to.
LEMMA CreatedStream ==
    ASSUME IInv, NEW r \in Req, on_request_created(r)
    PROVE  /\ alive /\ task[r].st = "new" /\ task'[r].st # "new"
           /\ UNCHANGED << alive, south, rx, client, sess >>
           /\ rx[r] = << >> /\ DataOf(r) = {} /\ ConnectedThen(r) /\ ~Connected(r)
           /\ \A s \in Slot : sess[s].open => sess[s].own \in Req /\ sess[s].own # r
           /\ \A q \in Req : q # r => task'[q] = task[q] /\ (ConnectedThen(q) <=> Connected(q))
<1> DEFINE i == task'[r].req_idx
<1>1. /\ alive /\ task[r].st = "new" /\ UNCHANGED << alive, south, rx, client, sess >>
      /\ task'[r].st = "open" /\ task'[r].sending /\ i \in Slot
      /\ \A q \in Req : q # r => task'[q] = task[q]
      /\ reqq.elements[i].trigger = NoReq /\ reqq'.elements[i].request_tx = r
      /\ \A x \in Slot : x # i => reqq'.elements[x] = reqq.elements[x]
  BY CreatedFacts
<1>2. ConnectedThen(r)
  BY <1>1 DEF ConnectedThen, SlotThen
<1>3. rx[r] = << >> /\ ~Connected(r)
  BY <1>1, ConnectedFacts DEF IInv, TaskParts
<1>4. DataOf(r) = {}
  BY <1>1, MessageOwners DEF DataOf, Started
<1>5. \A s \in Slot : sess[s].open => sess[s].own \in Req /\ sess[s].own # r
  BY <1>1, SessionFacts
<1>6. ASSUME NEW q \in Req, q # r
      PROVE  ConnectedThen(q) <=> Connected(q)
  <2>1. task[q].req_idx \in Slot /\ task'[q] = task[q]
    BY <1>1, <1>6 DEF IInv, TypeOK, Task
  <2>2. CASE task[q].req_idx = i
    <3>1. SlotOf(q).request_tx = NoReq
      BY <1>1, <2>2, TableFacts DEF SlotOf
    <3> QED BY <1>1, <1>6, <2>1, <2>2, <3>1, Consts DEF Connected, ConnectedThen, SlotThen
  <2>3. CASE task[q].req_idx # i
    BY <1>1, <2>1, <2>3 DEF Connected, ConnectedThen, SlotOf, SlotThen
  <2> QED BY <2>2, <2>3
<1> QED BY <1>1, <1>2, <1>3, <1>4, <1>5, <1>6

LEMMA CreatedPInv ==
    ASSUME IInv, PInv, NEW r \in Req, on_request_created(r)
    PROVE  PInv'
<1>1. ChannelNumbered /\ WireNumbered /\ ServerNumbered /\ NothingYet
  BY DEF PInv
<1>2. /\ UNCHANGED << south, rx, client, sess >> /\ task[r].st = "new" /\ task'[r].st # "new"
      /\ DataOf(r) = {}
      /\ \A s \in Slot : sess[s].open => sess[s].own \in Req /\ sess[s].own # r
      /\ \A q \in Req : q # r => task'[q] = task[q] /\ (ConnectedThen(q) <=> Connected(q))
  BY CreatedStream
<1>3. \A q \in Req : DataThen(q) = DataOf(q) /\ \A k : RankThen(q, k) = Rank(q, k)
  BY <1>2 DEF DataOf, DataThen, Rank, RankThen
<1>4. \A q \in Req : \A j \in DOMAIN rx'[q] : rx'[q][j].own = q /\ rx'[q][j].n = client'[q].got + j
  BY <1>1, <1>2 DEF ChannelNumbered
<1>5. \A q \in Req : ConnectedThen(q) =>
        \A k \in DataThen(q) : south'[k].n = client'[q].got + Len(rx'[q]) + RankThen(q, k)
  BY <1>1, <1>2, <1>3 DEF WireNumbered
<1>6. \A s \in Slot :
        sess'[s].open /\ ConnectedThen(sess'[s].own) =>
          sess'[s].sent = client'[sess'[s].own].got + Len(rx'[sess'[s].own])
                            + Cardinality(DataThen(sess'[s].own))
  BY <1>1, <1>2, <1>3 DEF ServerNumbered
<1>7. \A q \in Req : task'[q].st = "new" => client'[q].got = 0
  BY <1>1, <1>2 DEF NothingYet
<1>8. \A k \in DOMAIN north' : north'[k].cmd = "ReqCreated" => client'[north'[k].own].got = 0
  <2>1. PICK m \in Msg : north' = Append(north, m) /\ m.own = r
    BY CreatedFacts
  <2>2. /\ DOMAIN north = 1 .. Len(north) /\ Len(north) \in Nat
        /\ DOMAIN north' = 1 .. Len(north) + 1
        /\ \A k \in DOMAIN north : north'[k] = north[k]
        /\ north'[Len(north) + 1] = m
    BY <2>1, MessageOwners, AppendFacts
  <2> QED BY <1>1, <1>2, <2>1, <2>2 DEF NothingYet
<1> QED BY <1>4, <1>5, <1>6, <1>7, <1>8, PInvThen

\* The channels stay when only messages move.
LEMMA ConnectedSame ==
    ASSUME UNCHANGED << alive, reqq, task >>
    PROVE  \A q : ConnectedThen(q) <=> Connected(q)
  BY DEF Connected, ConnectedThen, SlotOf, SlotThen

LEMMA RepliesPInv ==
    ASSUME IInv, PInv, NEW s \in Slot, NEW m, NEW e, Replies(s, m, e)
    PROVE  PInv'
<1> DEFINE o == sess[s].own
           z == Len(south) + 1
<1>1. ChannelNumbered /\ WireNumbered /\ ServerNumbered /\ NothingYet
  BY DEF PInv
<1>2. /\ UNCHANGED << alive, reqq, req_count, task, rx, north, client >>
      /\ sess[s].open /\ m \in Msg /\ south' = Append(south, m) /\ m.own = o
  BY DEF Replies, clientSide
<1>3. /\ o \in Req /\ \A x \in Slot : sess[x].open /\ x # s => sess[x].own # o
      /\ \A x \in Slot : sess[x].open => sess[x].own \in Req
  BY <1>2, SessionFacts
<1>4. sess'[s] = e /\ \A x \in Slot : x # s => sess'[x] = sess[x]
  BY DEF Replies, IInv, TypeOK
<1>5. \A q : ConnectedThen(q) <=> Connected(q)
  BY <1>2, ConnectedSame
<1>6. /\ \A q \in Req : m \notin DataMsgs(q) =>
           /\ DataThen(q) = DataOf(q)
           /\ \A k \in DataOf(q) : south'[k] = south[k] /\ RankThen(q, k) = Rank(q, k)
      /\ \A q \in Req : m \in DataMsgs(q) =>
           /\ DataThen(q) = DataOf(q) \cup {z}
           /\ Cardinality(DataThen(q)) = Cardinality(DataOf(q)) + 1
           /\ south'[z] = m /\ RankThen(q, z) = Cardinality(DataOf(q)) + 1
           /\ \A k \in DataOf(q) : south'[k] = south[k] /\ RankThen(q, k) = Rank(q, k)
  BY <1>2, DataAppend
<1>7. \A q \in Req : client[q].got + Len(rx[q]) + Cardinality(DataOf(q)) + 1
                       = client[q].got + Len(rx[q]) + (Cardinality(DataOf(q)) + 1)
  <2>1. \A a, b, c \in Nat : a + b + c + 1 = a + b + (c + 1)
    OBVIOUS
  <2>2. \A q \in Req : client[q].got \in Nat /\ Len(rx[q]) \in Nat
    BY DEF IInv, TypeOK, Client
  <2>3. \A q \in Req : Cardinality(DataOf(q)) \in Nat
    BY DataFacts
  <2> QED BY <2>1, <2>2, <2>3
<1>8. \A q \in Req : m \in DataMsgs(q) =>
        q = o /\ e.open /\ e.own = o /\ m.n = sess[s].sent + 1 /\ e.sent = sess[s].sent + 1
  BY <1>2 DEF DataMsgs, Replies
<1>9. m \notin DataMsgs(o) /\ e.open => e.own = o /\ e.sent = sess[s].sent
  BY <1>2 DEF DataMsgs, Replies
<1> HIDE DEF o, z
<1>10. Connected(o) => sess[s].sent = client[o].got + Len(rx[o]) + Cardinality(DataOf(o))
  BY <1>1, <1>2 DEF ServerNumbered, o
<1>11. \A q \in Req : \A j \in DOMAIN rx'[q] : rx'[q][j].own = q /\ rx'[q][j].n = client'[q].got + j
  BY <1>1, <1>2 DEF ChannelNumbered
<1>12. ASSUME NEW q \in Req, ConnectedThen(q), NEW k \in DataThen(q)
       PROVE  south'[k].n = client'[q].got + Len(rx'[q]) + RankThen(q, k)
  <2>1. CASE k \in DataOf(q)
    <3>1. south'[k] = south[k] /\ RankThen(q, k) = Rank(q, k)
      BY <1>6, <2>1
    <3> QED BY <1>1, <1>2, <1>5, <1>12, <2>1, <3>1 DEF WireNumbered
  <2>2. CASE k \notin DataOf(q)
    <3>1. m \in DataMsgs(q) /\ k = z /\ south'[k] = m /\ RankThen(q, k) = Cardinality(DataOf(q)) + 1
      BY <1>6, <1>12, <2>2
    <3>2. q = o /\ m.n = client[q].got + Len(rx[q]) + Cardinality(DataOf(q)) + 1
      BY <1>5, <1>8, <1>10, <1>12, <3>1
    <3> QED BY <1>2, <1>7, <3>1, <3>2
  <2> QED BY <2>1, <2>2
<1>13. ASSUME NEW x \in Slot, sess'[x].open, ConnectedThen(sess'[x].own)
       PROVE  sess'[x].sent = client'[sess'[x].own].got + Len(rx'[sess'[x].own])
                                + Cardinality(DataThen(sess'[x].own))
  <2>1. CASE x # s
    <3> DEFINE q == sess[x].own
    <3>1. sess'[x] = sess[x] /\ q \in Req /\ q # o /\ sess[x].open
      BY <1>3, <1>4, <1>13, <2>1
    <3>2. DataThen(q) = DataOf(q)
      BY <1>6, <1>8, <3>1
    <3> QED BY <1>1, <1>2, <1>5, <1>13, <3>1, <3>2 DEF ServerNumbered
  <2>2. CASE x = s
    <3>1. e.open /\ e.own = o /\ sess'[x] = e
      BY <1>4, <1>8, <1>9, <1>3, <1>13, <2>2
    <3>2. sess[s].sent = client[o].got + Len(rx[o]) + Cardinality(DataOf(o))
      BY <1>5, <1>10, <1>13, <3>1
    <3>3. CASE m \in DataMsgs(o)
      <4>1. e.sent = sess[s].sent + 1 /\ Cardinality(DataThen(o)) = Cardinality(DataOf(o)) + 1
        BY <1>3, <1>6, <1>8, <3>3
      <4> QED BY <1>2, <1>3, <1>7, <3>1, <3>2, <4>1
    <3>4. CASE m \notin DataMsgs(o)
      BY <1>2, <1>3, <1>6, <1>9, <3>1, <3>2, <3>4
    <3> QED BY <3>3, <3>4
  <2> QED BY <2>1, <2>2
<1>14. /\ \A q \in Req : task'[q].st = "new" => client'[q].got = 0
       /\ \A k \in DOMAIN north' : north'[k].cmd = "ReqCreated" => client'[north'[k].own].got = 0
  BY <1>1, <1>2 DEF NothingYet
<1> QED BY <1>11, <1>12, <1>13, <1>14, PInvThen

LEMMA ReceivesPInv ==
    ASSUME IInv, TInv, PInv, ServerReceives
    PROVE  PInv'
<1>1. Announced /\ ChannelNumbered /\ WireNumbered /\ ServerNumbered /\ NothingYet
  BY DEF TInv, PInv
<1> DEFINE m == Head(north)
           s == m.req_idx
<1>2. /\ north # << >> /\ north' = Tail(north) /\ north \in Seq(Msg) /\ m \in Msg
      /\ UNCHANGED << alive, reqq, req_count, task, rx, south, client >>
      /\ \A x \in Slot : x # s => sess'[x] = sess[x]
      /\ Opens(m) \/ Shuts(m) \/ Keeps(m)
  BY ReceivesFacts
<1>3. /\ m = north[1] /\ 1 \in DOMAIN north
      /\ \A k \in DOMAIN north' : k + 1 \in DOMAIN north /\ north'[k] = north[k + 1]
  BY <1>2, TailFacts
<1>4. s \in Slot /\ m.own \in Req
  BY <1>2, MsgFacts
<1> HIDE DEF m
<1>5. \A q : ConnectedThen(q) <=> Connected(q)
  BY <1>2, ConnectedSame
<1>6. \A q \in Req : DataThen(q) = DataOf(q) /\ \A k : RankThen(q, k) = Rank(q, k)
  BY <1>2 DEF DataOf, DataThen, Rank, RankThen
<1>7. \A q \in Req : \A j \in DOMAIN rx'[q] : rx'[q][j].own = q /\ rx'[q][j].n = client'[q].got + j
  BY <1>1, <1>2 DEF ChannelNumbered
<1>8. \A q \in Req : ConnectedThen(q) =>
        \A k \in DataThen(q) : south'[k].n = client'[q].got + Len(rx'[q]) + RankThen(q, k)
  BY <1>1, <1>2, <1>5, <1>6 DEF WireNumbered
<1>9. ASSUME NEW x \in Slot, sess'[x].open, ConnectedThen(sess'[x].own)
      PROVE  sess'[x].sent = client'[sess'[x].own].got + Len(rx'[sess'[x].own])
                               + Cardinality(DataThen(sess'[x].own))
  <2>1. CASE Opens(m) /\ x = s
    <3> DEFINE q == m.own
    <3>1. sess'[x].own = q /\ sess'[x].sent = 0 /\ m.cmd = "ReqCreated"
      BY <2>1 DEF Opens
    <3>2. rx[q] = << >> /\ client[q].got = 0 /\ \A l \in DOMAIN south : south[l].own # q
      BY <1>1, <1>3, <3>1 DEF Announced, NothingYet
    <3>3. DataThen(q) = {} /\ Cardinality({}) = 0 /\ Len(rx[q]) = 0
      BY <1>2, <3>2, FS_EmptySet DEF DataThen
    <3> QED BY <1>2, <3>1, <3>2, <3>3
  <2>2. CASE ~(Opens(m) /\ x = s)
    <3>1. sess[x].open /\ sess'[x].own = sess[x].own /\ sess'[x].sent = sess[x].sent
      BY <1>2, <1>9, <2>2 DEF Shuts, Keeps
    <3>2. sess[x].own \in Req
      BY <3>1, SessionFacts
    <3> QED BY <1>1, <1>2, <1>5, <1>6, <1>9, <3>1, <3>2 DEF ServerNumbered
  <2> QED BY <2>1, <2>2
<1>10. /\ \A q \in Req : task'[q].st = "new" => client'[q].got = 0
       /\ \A k \in DOMAIN north' : north'[k].cmd = "ReqCreated" => client'[north'[k].own].got = 0
  BY <1>1, <1>2, <1>3 DEF NothingYet
<1> QED BY <1>7, <1>8, <1>9, <1>10, PInvThen

\* What the tunnel delivers reaches the channel of its owner or none, and an end
\* leaves the channels of all others alone.
LEMMA DeliverStream ==
    ASSUME IInv, TagsUnique, on_tunnel_msg, NEW m, m = Head(south), NEW o, o = m.own
    PROVE  /\ alive /\ south # << >> /\ south' = Tail(south) /\ m \in Msg /\ o \in Req
           /\ m = south[1] /\ 1 \in DOMAIN south
           /\ UNCHANGED << alive, task, north, client, sess >>
           /\ \A q \in Req : /\ q # o => rx'[q] = rx[q] /\ (ConnectedThen(q) <=> Connected(q))
                             /\ ConnectedThen(q) => Connected(q)
           /\ \/ /\ m.cmd = "ReqData"
                 /\ ConnectedThen(o) <=> Connected(o)
                 /\ rx'[o] = IF Connected(o) THEN Append(rx[o], m) ELSE rx[o]
              \/ /\ m.cmd \in {"ReqServerFinished", "ReqServerClosed"}
                 /\ rx'[o] = rx[o]
<1> DEFINE i == m.req_idx
<1>1. /\ alive /\ south # << >> /\ south' = Tail(south) /\ south \in Seq(Msg)
      /\ m \in Msg /\ Names(m)
      /\ UNCHANGED << alive, task, north, client, sess >>
      /\ Delivers(m) \/ Drops(m) \/ Takes(m)
  BY DeliverFacts
<1>2. m = south[1] /\ 1 \in DOMAIN south
  BY <1>1, TailFacts
<1>3. /\ o \in Started /\ o \in Req /\ i \in Slot
      /\ i = task[o].req_idx /\ m.req_tag = task[o].req_tag
  BY <1>1, MsgFacts DEF Names, Started
<1>4. reqq.elements[i].tag = m.req_tag => reqq.elements[i].trigger = o
  BY <1>1, <1>3, OneName DEF SlotOf
<1>5. rx \in [Req -> Seq(Msg)]
  BY DEF IInv, TypeOK
\* Another request in the slot of o is not connected once o holds it.
<1>6. ASSUME NEW q \in Req, q # o, task[q].req_idx = i, reqq.elements[i].tag = m.req_tag
      PROVE  ~Connected(q)
  BY <1>1, <1>3, <1>4, <1>6, ConnectedFacts DEF SlotOf
<1>7. CASE Delivers(m)
  <2>1. m.cmd = "ReqData" /\ reqq' = reqq
    BY <1>7 DEF Delivers
  <2>2. \A q \in Req : ConnectedThen(q) <=> Connected(q)
    BY <1>1, <2>1, ConnectedSame
  <2>3. CASE Reachable(m)
    <3>1. /\ reqq.elements[i].request_tx = o /\ task[o].sending
      BY <1>1, <1>3, <1>4, <2>3, TableFacts DEF Reachable
    <3>2. Connected(o)
      BY <1>1, <1>3, <3>1 DEF Connected, SlotOf
    <3>3. rx' = [rx EXCEPT ![o] = Append(@, m)]
      BY <1>7, <2>3, <3>1 DEF Delivers
    <3> QED BY <1>1, <1>2, <1>3, <1>5, <2>1, <2>2, <3>2, <3>3
  <2>4. CASE ~Reachable(m)
    <3>1. rx' = rx
      BY <1>7, <2>4 DEF Delivers
    <3>2. ~Connected(o)
      <4> SUFFICES ASSUME Connected(o) PROVE FALSE
        OBVIOUS
      <4>1. /\ SlotOf(o).request_tx = o /\ SlotOf(o).tag = task[o].req_tag /\ task[o].sending
        BY <1>3, ConnectedFacts
      <4> QED BY <1>3, <2>4, <4>1, Consts DEF Reachable, SlotOf
    <3> QED BY <1>1, <1>2, <1>3, <2>1, <2>2, <3>1, <3>2
  <2> QED BY <2>3, <2>4
<1>8. CASE Drops(m) \/ Takes(m)
  <2>1. m.cmd \in {"ReqServerFinished", "ReqServerClosed"} /\ rx' = rx
    BY <1>8 DEF Drops, Takes
  <2>2. \/ reqq' = reqq
        \/ /\ reqq.elements[i].tag = m.req_tag /\ reqq'.elements[i].request_tx = NoReq
           /\ \A x \in Slot : x # i => reqq'.elements[x] = reqq.elements[x]
    BY <1>8 DEF Drops, Takes, GivenBack
  <2>3. CASE reqq' = reqq
    <3>1. \A q \in Req : ConnectedThen(q) <=> Connected(q)
      BY <1>1, <2>3, ConnectedSame
    <3> QED BY <1>1, <1>2, <1>3, <2>1, <3>1
  <2>4. CASE /\ reqq.elements[i].tag = m.req_tag /\ reqq'.elements[i].request_tx = NoReq
             /\ \A x \in Slot : x # i => reqq'.elements[x] = reqq.elements[x]
    <3>1. ASSUME NEW q \in Req
          PROVE  /\ q # o => (ConnectedThen(q) <=> Connected(q))
                 /\ ConnectedThen(q) => Connected(q)
      <4>1. CASE task[q].req_idx = i
        <5>1. ~ConnectedThen(q)
          BY <1>1, <2>4, <4>1, Consts DEF ConnectedThen, SlotThen
        <5> QED BY <1>6, <2>4, <4>1, <5>1
      <4>2. CASE task[q].req_idx # i
        <5>1. task[q].req_idx \in Slot
          BY DEF IInv, TypeOK, Task
        <5> QED BY <1>1, <2>4, <4>2, <5>1 DEF Connected, ConnectedThen, SlotOf, SlotThen
      <4> QED BY <4>1, <4>2
    <3> QED BY <1>1, <1>2, <1>3, <2>1, <3>1
  <2> QED BY <2>2, <2>3, <2>4
<1> QED BY <1>1, <1>7, <1>8

LEMMA DeliverPInv ==
    ASSUME IInv, TInv, PInv, on_tunnel_msg
    PROVE  PInv'
<1> DEFINE m == Head(south)
           o == m.own
           d(q) == IF 1 \in DataOf(q) THEN 1 ELSE 0
<1>1. TagsUnique /\ ChannelNumbered /\ WireNumbered /\ ServerNumbered /\ NothingYet
  BY DEF TInv, PInv
<1>2. /\ south # << >> /\ south' = Tail(south) /\ m \in Msg /\ o \in Req
      /\ m = south[1] /\ 1 \in DOMAIN south
      /\ UNCHANGED << alive, task, north, client, sess >>
      /\ \A q \in Req : /\ q # o => rx'[q] = rx[q] /\ (ConnectedThen(q) <=> Connected(q))
                        /\ ConnectedThen(q) => Connected(q)
      /\ \/ /\ m.cmd = "ReqData"
            /\ ConnectedThen(o) <=> Connected(o)
            /\ rx'[o] = IF Connected(o) THEN Append(rx[o], m) ELSE rx[o]
         \/ /\ m.cmd \in {"ReqServerFinished", "ReqServerClosed"}
            /\ rx'[o] = rx[o]
  BY <1>1, DeliverStream
<1>3. \A q \in Req : 1 \in DataOf(q) <=> m.cmd = "ReqData" /\ q = o
  BY <1>2 DEF DataOf
<1> HIDE DEF m, o
<1>4. ASSUME NEW q \in Req
      PROVE  /\ client[q].got \in Nat /\ rx[q] \in Seq(Msg) /\ Len(rx[q]) \in Nat
             /\ Cardinality(DataOf(q)) \in Nat /\ Cardinality(DataThen(q)) \in Nat
             /\ d(q) \in Nat
             /\ Cardinality(DataOf(q)) = Cardinality(DataThen(q)) + d(q)
             /\ 1 \in DataOf(q) => Rank(q, 1) = 1
             /\ \A k \in DataThen(q) :
                  /\ k + 1 \in DataOf(q) /\ south'[k] = south[k + 1] /\ RankThen(q, k) \in Nat
                  /\ Rank(q, k + 1) = RankThen(q, k) + d(q)
  <2>1. client[q].got \in Nat /\ rx[q] \in Seq(Msg) /\ Len(rx[q]) \in Nat
    BY DEF IInv, TypeOK, Client
  <2>2. Cardinality(DataOf(q)) \in Nat
    BY DataFacts
  <2> QED BY <1>2, <2>1, <2>2, DataTail
\* The channel takes what the wire gives.
<1>5. ASSUME NEW q \in Req, Connected(q)
      PROVE  /\ rx'[q] = IF 1 \in DataOf(q) THEN Append(rx[q], m) ELSE rx[q]
             /\ Len(rx'[q]) = Len(rx[q]) + d(q) /\ Len(rx'[q]) \in Nat
  <2>1. rx'[q] = IF 1 \in DataOf(q) THEN Append(rx[q], m) ELSE rx[q]
    BY <1>2, <1>3, <1>5
  <2>2. rx[q] \in Seq(Msg) /\ Len(rx[q]) \in Nat
    BY <1>4
  <2>3. Len(Append(rx[q], m)) = Len(rx[q]) + 1
    BY <1>2, <2>2, AppendFacts
  <2>4. CASE 1 \in DataOf(q)
    BY <2>1, <2>2, <2>3, <2>4
  <2>5. CASE 1 \notin DataOf(q)
    BY <2>1, <2>2, <2>5
  <2> QED BY <2>4, <2>5
<1>6. ASSUME NEW q \in Req, ~Connected(q)
      PROVE  rx'[q] = rx[q]
  BY <1>2, <1>6
<1>7. ASSUME NEW q \in Req, NEW j \in DOMAIN rx'[q]
      PROVE  rx'[q][j].own = q /\ rx'[q][j].n = client'[q].got + j
  <2>1. CASE rx'[q] = rx[q]
    BY <1>1, <1>2, <1>7, <2>1 DEF ChannelNumbered
  <2>2. CASE rx'[q] # rx[q]
    <3>1. Connected(q) /\ 1 \in DataOf(q) /\ q = o /\ rx'[q] = Append(rx[q], m)
      BY <1>3, <1>5, <1>6, <2>2
    <3>2. /\ DOMAIN rx[q] = 1 .. Len(rx[q]) /\ DOMAIN rx'[q] = 1 .. Len(rx[q]) + 1
          /\ \A l \in DOMAIN rx[q] : rx'[q][l] = rx[q][l]
          /\ rx'[q][Len(rx[q]) + 1] = m
      BY <1>2, <1>4, <3>1, AppendFacts
    <3>3. CASE j \in DOMAIN rx[q]
      BY <1>1, <1>2, <3>2, <3>3 DEF ChannelNumbered
    <3>4. CASE j \notin DOMAIN rx[q]
      <4>1. j = Len(rx[q]) + 1 /\ rx'[q][j] = m /\ m.own = q
        <5>1. Len(rx[q]) \in Nat
          BY <1>4
        <5> QED BY <1>7, <3>1, <3>2, <3>4, <5>1 DEF o
      <4>2. m.n = client[q].got + Len(rx[q]) + 1
        BY <1>1, <1>2, <1>4, <3>1 DEF WireNumbered
      <4>3. client[q].got + Len(rx[q]) + 1 = client[q].got + (Len(rx[q]) + 1)
        BY <1>4
      <4> QED BY <1>2, <4>1, <4>2, <4>3
    <3> QED BY <3>3, <3>4
  <2> QED BY <2>1, <2>2
<1>8. ASSUME NEW q \in Req, ConnectedThen(q), NEW k \in DataThen(q)
      PROVE  south'[k].n = client'[q].got + Len(rx'[q]) + RankThen(q, k)
  <2>1. Connected(q)
    BY <1>2, <1>8
  <2>2. /\ k + 1 \in DataOf(q) /\ south'[k] = south[k + 1] /\ RankThen(q, k) \in Nat
        /\ Rank(q, k + 1) = RankThen(q, k) + d(q)
    BY <1>4
  <2>3. south[k + 1].n = client[q].got + Len(rx[q]) + Rank(q, k + 1)
    BY <1>1, <2>1, <2>2 DEF WireNumbered
  <2>4. \A c, a, b, x \in Nat : c + a + (b + x) = c + (a + x) + b
    OBVIOUS
  <2>5. client[q].got + Len(rx[q]) + Rank(q, k + 1) = client[q].got + Len(rx'[q]) + RankThen(q, k)
    <3> HIDE DEF d
    <3>1. client[q].got \in Nat /\ Len(rx[q]) \in Nat /\ d(q) \in Nat /\ RankThen(q, k) \in Nat
      BY <1>4
    <3>2. Len(rx'[q]) = Len(rx[q]) + d(q) /\ Rank(q, k + 1) = RankThen(q, k) + d(q)
      BY <1>5, <2>1, <2>2
    <3> QED BY <2>4, <3>1, <3>2
  <2> QED BY <1>2, <2>2, <2>3, <2>5
<1>9. ASSUME NEW s \in Slot, sess'[s].open, ConnectedThen(sess'[s].own)
      PROVE  sess'[s].sent = client'[sess'[s].own].got + Len(rx'[sess'[s].own])
                               + Cardinality(DataThen(sess'[s].own))
  <2> DEFINE q == sess[s].own
  <2>1. sess'[s] = sess[s] /\ q \in Req /\ Connected(q)
    BY <1>2, <1>9, SessionFacts
  <2> HIDE DEF q
  <2>2. sess[s].sent = client[q].got + Len(rx[q]) + Cardinality(DataOf(q))
    BY <1>1, <1>9, <2>1 DEF ServerNumbered, q
  <2>3. \A c, a, b, x \in Nat : c + a + (b + x) = c + (a + x) + b
    OBVIOUS
  <2>4. client[q].got + Len(rx[q]) + Cardinality(DataOf(q))
          = client[q].got + Len(rx'[q]) + Cardinality(DataThen(q))
    <3> HIDE DEF d
    <3> QED BY <1>4, <1>5, <2>1, <2>3
  <2> QED BY <1>2, <2>1, <2>2, <2>4 DEF q
<1>10. /\ \A q \in Req : task'[q].st = "new" => client'[q].got = 0
       /\ \A k \in DOMAIN north' : north'[k].cmd = "ReqCreated" => client'[north'[k].own].got = 0
  BY <1>1, <1>2 DEF NothingYet
<1> QED BY <1>7, <1>8, <1>9, <1>10, PInvThen

LEMMA ClosedPInv ==
    ASSUME PInv, on_closed
    PROVE  PInv'
<1>1. /\ alive' = FALSE /\ north' = << >> /\ UNCHANGED << task, rx, client >>
      /\ \A q : ~ConnectedThen(q)
  BY DEF on_closed, ConnectedThen
<1>2. ChannelNumbered' /\ WireNumbered' /\ ServerNumbered' /\ NothingYet'
  BY <1>1 DEF PInv, ChannelNumbered, WireNumbered, ServerNumbered, NothingYet, Connected
<1> QED BY <1>2 DEF PInv

\* A client that ends its connection was given what it was given.
LEMMA ClientEndsStream ==
    ASSUME IInv, NEW r \in Req, ClientEnds(r)
    PROVE  /\ UNCHANGED << alive, reqq, req_count, task, rx, north, south, sess >>
           /\ \A q \in Req : /\ client'[q].got = client[q].got
                             /\ q # r => client'[q] = client[q]
           /\ client[r].st # "rst" /\ client'[r].st \in {"fin", "rst"}
<1>1. client \in [Req -> Client]
  BY DEF IInv, TypeOK
<1>2. PICK e \in {"fin", "rst"} : client[r].st # "rst" /\ client' = [client EXCEPT ![r].st = e]
  BY DEF ClientEnds
<1>3. \A q \in Req : /\ client'[q].got = client[q].got
                     /\ q # r => client'[q] = client[q]
  BY <1>1, <1>2 DEF Client
<1>4. client'[r].st = e
  BY <1>1, <1>2 DEF Client
<1> QED BY <1>2, <1>3, <1>4, ClientEndsIInv

LEMMA NextPInv == IInv /\ TInv /\ PInv /\ [Next]_vars => PInv'
<1> SUFFICES ASSUME IInv, TInv, PInv, [Next]_vars PROVE PInv'
  OBVIOUS
<1>1. ASSUME UNCHANGED << alive, reqq, req_count, task, rx, north, south, sess >>,
             \A q \in Req : client'[q].got = client[q].got
      PROVE  PInv'
  <2>1. ChannelNumbered /\ WireNumbered /\ ServerNumbered /\ NothingYet
    BY DEF PInv
  <2>2. \A q : /\ ConnectedThen(q) <=> Connected(q)
               /\ DataThen(q) = DataOf(q) /\ \A k : RankThen(q, k) = Rank(q, k)
    BY <1>1, ConnectedSame DEF DataOf, DataThen, Rank, RankThen
  <2>3. \A q \in Req : \A j \in DOMAIN rx'[q] :
          rx'[q][j].own = q /\ rx'[q][j].n = client'[q].got + j
    BY <1>1, <2>1 DEF ChannelNumbered
  <2>4. \A q \in Req : ConnectedThen(q) =>
          \A k \in DataThen(q) : south'[k].n = client'[q].got + Len(rx'[q]) + RankThen(q, k)
    BY <1>1, <2>1, <2>2 DEF WireNumbered
  <2>5. \A s \in Slot :
          sess'[s].open /\ ConnectedThen(sess'[s].own) =>
            sess'[s].sent = client'[sess'[s].own].got + Len(rx'[sess'[s].own])
                              + Cardinality(DataThen(sess'[s].own))
    BY <1>1, <2>1, <2>2, SessionFacts DEF ServerNumbered
  <2>6. /\ \A q \in Req : task'[q].st = "new" => client'[q].got = 0
        /\ \A k \in DOMAIN north' : north'[k].cmd = "ReqCreated" => client'[north'[k].own].got = 0
    BY <1>1, <2>1, MessageOwners DEF NothingYet
  <2> QED BY <2>3, <2>4, <2>5, <2>6, PInvThen
<1>2. ASSUME UNCHANGED vars PROVE PInv'
  BY <1>1, <1>2 DEF vars, clientSide
<1>3. ASSUME NEW r \in Req, ClientEnds(r) PROVE PInv'
  BY <1>1, <1>3, ClientEndsStream
<1>4. ASSUME NEW r \in Req, TaskNext(r) PROVE PInv'
  BY <1>4, CreatedPInv, TalkPInv DEF TaskNext, TaskSteps
<1>5. ASSUME NEW s \in Slot, ServerNext(s) PROVE PInv'
  BY <1>5, ServerFacts, RepliesPInv
<1> QED BY <1>2, <1>3, <1>4, <1>5, ReceivesPInv, DeliverPInv, ClosedPInv DEF Next

\* The third inductive invariant: the numbers of a stream have no gap (PInv).
THEOREM StreamsNumbered == Spec /\ []TagsSuffice => []PInv
<1> QED BY NextPInv, Invariance, TagsInvariance, InitPInv, PTL DEF Spec

-----------------------------------------------------------------------------
(***************************************************************************)
(* The tunnel implements a Session for every request.  What is in the pipe *)
(* of a request is a Line: the numbers that follow the one the client was  *)
(* given last, as many as Lie on their way (Shape, from PInv).  So a step  *)
(* is known by what it does to three things: the length of the line, what  *)
(* was given, and whether the request has Ended.                           *)
(***************************************************************************)

\* How many messages are on their way to r, and what their numbers are.
Lies(r) == Len(rx[r]) + (IF Connected(r) THEN Cardinality(DataOf(r)) ELSE 0)
LiesThen(r) == Len(rx'[r]) + (IF ConnectedThen(r) THEN Cardinality(DataThen(r)) ELSE 0)
Line(c, n) == [k \in 1 .. n |-> c + k]

Shape == \A r \in Req : Lies(r) \in Nat /\ InPipe(r) = Line(client[r].got, Lies(r))

LEMMA WireFacts ==
    ASSUME IInv, PInv, NEW r \in Req, Connected(r)
    PROVE  /\ Wire(r) \in Seq(Msg) /\ Len(Wire(r)) = Cardinality(DataOf(r))
           /\ \A j \in DOMAIN Wire(r) :
                Wire(r)[j].own = r /\ Wire(r)[j].n = client[r].got + Len(rx[r]) + j
<1> DEFINE n == Cardinality(DataOf(r))
           Place(j) == CHOOSE k \in DataOf(r) : Rank(r, k) = j
<1>1. n \in Nat
  BY DataFacts
<1>2. ASSUME NEW j \in 1 .. n
      PROVE  /\ Place(j) \in DataOf(r) /\ Rank(r, Place(j)) = j
             /\ south[Place(j)] \in Msg /\ south[Place(j)].own = r
             /\ south[Place(j)].n = client[r].got + Len(rx[r]) + j
  <2>1. \E k \in DataOf(r) : Rank(r, k) = j
    BY DataFacts
  <2>2. Place(j) \in DataOf(r) /\ Rank(r, Place(j)) = j
    BY <2>1
  <2> HIDE DEF Place
  <2>3. south[Place(j)] \in Msg /\ south[Place(j)].own = r
    BY <2>2, DataFacts DEF DataOf
  <2>4. south[Place(j)].n = client[r].got + Len(rx[r]) + j
    BY <2>2 DEF PInv, WireNumbered
  <2> QED BY <2>2, <2>3, <2>4
<1>3. Wire(r) = [j \in 1 .. n |-> south[Place(j)]]
  BY DEF Wire
<1> HIDE DEF n, Place
<1>4. Wire(r) \in Seq(Msg) /\ Len(Wire(r)) = n /\ DOMAIN Wire(r) = 1 .. n
  BY <1>1, <1>2, <1>3
<1> QED BY <1>2, <1>3, <1>4 DEF n

LEMMA PipeShape == IInv /\ PInv => Shape
<1> SUFFICES ASSUME IInv, PInv, NEW r \in Req
             PROVE  Lies(r) \in Nat /\ InPipe(r) = Line(client[r].got, Lies(r))
  BY DEF Shape
<1> DEFINE W == IF Connected(r) THEN Wire(r) ELSE << >>
           c == client[r].got
<1>1. rx[r] \in Seq(Msg) /\ Len(rx[r]) \in Nat /\ DOMAIN rx[r] = 1 .. Len(rx[r]) /\ c \in Nat
  BY DEF IInv, TypeOK, Client
<1>2. \A j \in DOMAIN rx[r] : rx[r][j].own = r /\ rx[r][j].n = c + j
  BY DEF PInv, ChannelNumbered
<1>3. /\ W \in Seq(Msg) /\ Lies(r) = Len(rx[r]) + Len(W) /\ Len(W) \in Nat
      /\ \A j \in DOMAIN W : W[j].own = r /\ W[j].n = c + Len(rx[r]) + j
  <2>1. CASE Connected(r)
    BY <1>1, <2>1, WireFacts DEF Lies
  <2>2. CASE ~Connected(r)
    <3>1. W = << >> /\ Lies(r) = Len(rx[r]) + 0
      BY <2>2 DEF Lies
    <3> HIDE DEF W
    <3> QED BY <1>1, <3>1
  <2> QED BY <2>1, <2>2
<1>4. OnWay(r) = rx[r] \o W
  BY DEF OnWay
<1> HIDE DEF W, c
<1>5. /\ DOMAIN OnWay(r) = 1 .. Lies(r)
      /\ \A k \in DOMAIN rx[r] : OnWay(r)[k] = rx[r][k]
      /\ \A k \in DOMAIN OnWay(r) : k \notin DOMAIN rx[r] =>
           k - Len(rx[r]) \in DOMAIN W /\ OnWay(r)[k] = W[k - Len(rx[r])]
  BY <1>1, <1>3, <1>4, ConcatFacts
<1>6. ASSUME NEW k \in 1 .. Lies(r)
      PROVE  OnWay(r)[k].own = r /\ OnWay(r)[k].n = c + k
  <2>1. CASE k \in DOMAIN rx[r]
    BY <1>2, <1>5, <2>1
  <2>2. CASE k \notin DOMAIN rx[r]
    <3>1. k - Len(rx[r]) \in DOMAIN W /\ OnWay(r)[k] = W[k - Len(rx[r])]
      BY <1>5, <2>2
    <3>2. OnWay(r)[k].own = r /\ OnWay(r)[k].n = c + Len(rx[r]) + (k - Len(rx[r]))
      BY <1>3, <3>1
    <3> QED BY <1>1, <3>2
  <2> QED BY <2>1, <2>2
<1>7. InPipe(r) = Line(c, Lies(r))
  BY <1>5, <1>6 DEF InPipe, Line
<1> QED BY <1>1, <1>3, <1>7 DEF c

LEMMA ShapeThen == IInv' /\ PInv' => Shape'
<1> QED BY PipeShape, PTL

\* What can happen to a line of numbers.
LEMMA LineFacts ==
    ASSUME NEW c \in Nat, NEW n \in Nat
    PROVE  /\ Line(c, n) \in Seq(Nat) /\ Len(Line(c, n)) = n
           /\ Line(c, n) = << >> <=> n = 0
           /\ Append(Line(c, n), c + Len(Line(c, n)) + 1) = Line(c, n + 1)
           /\ n # 0 => Head(Line(c, n)) = c + 1 /\ Tail(Line(c, n)) = Line(c + 1, n - 1)
           /\ \A k \in 0 .. n : SubSeq(Line(c, n), 1, k) = Line(c, k)
<1>1. Line(c, n) \in Seq(Nat) /\ Len(Line(c, n)) = n /\ (Line(c, n) = << >> <=> n = 0)
  BY DEF Line
<1>2. Append(Line(c, n), c + Len(Line(c, n)) + 1) = Line(c, n + 1)
  <2>1. Append(Line(c, n), c + n + 1) = [k \in 1 .. n + 1 |-> c + k]
    <3> DEFINE A == Append(Line(c, n), c + n + 1)
    <3>1. A \in Seq(Nat) /\ Len(A) = n + 1 /\ DOMAIN A = 1 .. n + 1
      BY <1>1
    <3>2. \A k \in 1 .. n + 1 : A[k] = c + k
      BY <1>1 DEF Line
    <3>3. A = [k \in 1 .. n + 1 |-> A[k]]
      BY <3>1
    <3> HIDE DEF A
    <3>4. A = [k \in 1 .. n + 1 |-> c + k]
      BY <3>2, <3>3
    <3> QED BY <3>4 DEF A
  <2> QED BY <1>1, <2>1 DEF Line
<1>3. n # 0 => Head(Line(c, n)) = c + 1 /\ Tail(Line(c, n)) = Line(c + 1, n - 1)
  <2> SUFFICES ASSUME n # 0
               PROVE  Head(Line(c, n)) = c + 1 /\ Tail(Line(c, n)) = Line(c + 1, n - 1)
    OBVIOUS
  <2> DEFINE T == Tail(Line(c, n))
  <2>1. Line(c, n) # << >>
    BY <1>1
  <2>2. /\ T \in Seq(Nat) /\ Head(Line(c, n)) = Line(c, n)[1] /\ DOMAIN T = 1 .. n - 1
        /\ \A k \in DOMAIN T : k + 1 \in DOMAIN Line(c, n) /\ T[k] = Line(c, n)[k + 1]
    BY <1>1, <2>1, TailFacts
  <2> HIDE DEF T
  <2>3. \A k \in 1 .. n - 1 : T[k] = (c + 1) + k
    <3> SUFFICES ASSUME NEW k \in 1 .. n - 1 PROVE T[k] = (c + 1) + k
      OBVIOUS
    <3>0. k + 1 \in 1 .. n
      OBVIOUS
    <3>1. T[k] = Line(c, n)[k + 1] /\ k + 1 \in 1 .. n
      BY <2>2, <3>0
    <3>2. Line(c, n)[k + 1] = c + (k + 1)
      BY <3>1 DEF Line
    <3>3. c + (k + 1) = (c + 1) + k
      OBVIOUS
    <3> QED BY <3>1, <3>2, <3>3
  <2>4. T = [k \in 1 .. n - 1 |-> T[k]]
    BY <2>2
  <2>5. Line(c, n)[1] = c + 1
    BY DEF Line
  <2>6. T = Line(c + 1, n - 1)
    BY <2>3, <2>4 DEF Line
  <2> QED BY <2>2, <2>5, <2>6 DEF T
<1>4. \A k \in 0 .. n : SubSeq(Line(c, n), 1, k) = Line(c, k)
  <2> SUFFICES ASSUME NEW k \in 0 .. n PROVE SubSeq(Line(c, n), 1, k) = Line(c, k)
    OBVIOUS
  <2> DEFINE U == SubSeq(Line(c, n), 1, k)
  <2>1. U \in Seq(Nat) /\ DOMAIN U = 1 .. k /\ \A j \in 1 .. k : U[j] = Line(c, n)[j]
    BY <1>1
  <2>2. \A j \in 1 .. k : Line(c, n)[j] = c + j
    BY DEF Line
  <2>3. U = [j \in 1 .. k |-> U[j]]
    BY <2>1
  <2> HIDE DEF U
  <2>4. U = Line(c, k)
    BY <2>1, <2>2, <2>3 DEF Line
  <2> QED BY <2>4 DEF U
<1> QED BY <1>1, <1>2, <1>3, <1>4

LEMMA NoLine == \A c \in Nat : Line(c, 0) = << >>
  BY DEF Line

\* What Sessions sees of a request, now and in the next state.
Ended(r) == ~(alive /\ (task[r].st = "new" \/ Connected(r)))
EndedThen(r) == ~(alive' /\ (task'[r].st = "new" \/ ConnectedThen(r)))

SameLine(r) == LiesThen(r) = Lies(r) /\ client'[r].got = client[r].got
SameEnd(r) == EndedThen(r) <=> Ended(r)
SameReset(r) == client'[r].st = "rst" <=> client[r].st = "rst"
SameSession(r) == SameLine(r) /\ SameEnd(r) /\ SameReset(r)

LEMMA SessionView ==
    ASSUME Shape, Shape', NEW r \in Req
    PROVE  /\ Lies(r) \in Nat /\ InPipe(r) = Line(client[r].got, Lies(r))
           /\ LiesThen(r) \in Nat /\ InPipe(r)' = Line(client'[r].got, LiesThen(r))
<1>1. Lies(r) \in Nat /\ InPipe(r) = Line(client[r].got, Lies(r))
  BY DEF Shape
<1>2. Lies(r)' \in Nat /\ InPipe(r)' = Line(client'[r].got, Lies(r)')
  BY DEF Shape
<1>3. Lies(r)' = LiesThen(r)
  BY DEF Lies, LiesThen, Connected, ConnectedThen, SlotOf, SlotThen, DataOf, DataThen
<1> QED BY <1>1, <1>2, <1>3

LEMMA EndView ==
    \A r \in Req : Ended(r)' <=> EndedThen(r)
  BY DEF Ended, EndedThen, Connected, ConnectedThen, SlotOf, SlotThen

\* Each operation of Sessions, from what happens to one request while the others stay
\* as they are.
LEMMA StutterStep ==
    ASSUME Shape, Shape', alive' = alive, \A q \in Req : SameSession(q)
    PROVE  UNCHANGED S!vars
<1>1. \A q \in Req : InPipe(q)' = InPipe(q)
  BY SessionView DEF SameSession, SameLine
<1>2. \A q \in Req : Ended(q)' <=> Ended(q)
  BY EndView DEF SameSession, SameEnd
<1> QED BY <1>1, <1>2 DEF S!vars, SameSession, SameLine, SameReset, Ended

Others(r) == \A q \in Req : q # r => SameSession(q)

LEMMA OthersView ==
    ASSUME Shape, Shape', NEW r \in Req, Others(r)
    PROVE  \A q \in Req : q # r => /\ InPipe(q)' = InPipe(q)
                                   /\ client'[q].got = client[q].got
                                   /\ Ended(q)' <=> Ended(q)
                                   /\ client'[q].st = "rst" <=> client[q].st = "rst"
<1>1. \A q \in Req : q # r => InPipe(q)' = InPipe(q)
  BY SessionView DEF Others, SameSession, SameLine
<1>2. \A q \in Req : q # r => (Ended(q)' <=> Ended(q))
  BY EndView DEF Others, SameSession, SameEnd
<1> QED BY <1>1, <1>2 DEF Others, SameSession, SameLine, SameReset

LEMMA SendStep ==
    ASSUME Shape, Shape', alive' = alive, NEW r \in Req, Others(r), client[r].got \in Nat,
           ~Ended(r), SameEnd(r), SameReset(r),
           client'[r].got = client[r].got, LiesThen(r) = Lies(r) + 1
    PROVE  S!Send(r)
<1>1. InPipe(r)' = Append(InPipe(r), client[r].got + Len(InPipe(r)) + 1)
  <2>1. /\ Lies(r) \in Nat /\ InPipe(r) = Line(client[r].got, Lies(r))
        /\ InPipe(r)' = Line(client[r].got, Lies(r) + 1)
    BY SessionView
  <2> DEFINE L == Line(client[r].got, Lies(r))
  <2>2. Append(L, client[r].got + Len(L) + 1) = Line(client[r].got, Lies(r) + 1)
    BY <2>1, LineFacts
  <2> HIDE DEF L
  <2>3. InPipe(r) = L
    BY <2>1 DEF L
  <2> QED BY <2>1, <2>2, <2>3
<1>2. \A q \in Req : InPipe(q)' = IF q = r THEN Append(InPipe(r), client[r].got + Len(InPipe(r)) + 1)
                                           ELSE InPipe(q)
  BY <1>1, OthersView
<1>3. \A q \in Req : client'[q].got = client[q].got
  BY OthersView
<1>4. \A q \in Req : Ended(q)' <=> Ended(q)
  BY OthersView, EndView DEF SameEnd
<1>5. \A q \in Req : client'[q].st = "rst" <=> client[q].st = "rst"
  BY OthersView DEF SameReset
<1> QED BY <1>2, <1>3, <1>4, <1>5 DEF S!Send, Ended

LEMMA DeliverStep ==
    ASSUME Shape, Shape', alive' = alive, NEW r \in Req, Others(r), client[r].got \in Nat,
           Lies(r) # 0, client[r].st # "rst", SameEnd(r), SameReset(r),
           client'[r].got = client[r].got + 1, LiesThen(r) = Lies(r) - 1
    PROVE  S!Deliver(r)
<1>1. /\ InPipe(r) # << >> /\ Head(InPipe(r)) = client'[r].got
      /\ InPipe(r)' = Tail(InPipe(r))
  <2>1. /\ Lies(r) \in Nat /\ InPipe(r) = Line(client[r].got, Lies(r))
        /\ InPipe(r)' = Line(client[r].got + 1, Lies(r) - 1)
    BY SessionView
  <2> DEFINE L == Line(client[r].got, Lies(r))
  <2>2. /\ L # << >> /\ Head(L) = client[r].got + 1
        /\ Tail(L) = Line(client[r].got + 1, Lies(r) - 1)
    BY <2>1, LineFacts
  <2> HIDE DEF L
  <2>3. InPipe(r) = L
    BY <2>1 DEF L
  <2> QED BY <2>1, <2>2, <2>3
<1>2. \A q \in Req : InPipe(q)' = IF q = r THEN Tail(InPipe(r)) ELSE InPipe(q)
  BY <1>1, OthersView
<1>3. \A q \in Req : client'[q].got = IF q = r THEN Head(InPipe(r)) ELSE client[q].got
  BY <1>1, OthersView
<1>4. \A q \in Req : Ended(q)' <=> Ended(q)
  BY OthersView, EndView DEF SameEnd
<1>5. \A q \in Req : client'[q].st = "rst" <=> client[q].st = "rst"
  BY OthersView DEF SameReset
<1> QED BY <1>1, <1>2, <1>3, <1>4, <1>5 DEF S!Deliver, Ended

LEMMA CloseStep ==
    ASSUME Shape, Shape', alive' = alive, NEW r \in Req, Others(r),
           ~Ended(r), EndedThen(r), SameLine(r), SameReset(r)
    PROVE  S!Close(r)
<1>1. \A q \in Req : InPipe(q)' = InPipe(q)
  BY SessionView, OthersView DEF SameLine
<1>2. \A q \in Req : client'[q].got = client[q].got
  BY OthersView DEF SameLine
<1>3. \A q \in Req : Ended(q)' <=> IF q = r THEN TRUE ELSE Ended(q)
  BY OthersView, EndView
<1>4. \A q \in Req : client'[q].st = "rst" <=> client[q].st = "rst"
  BY OthersView DEF SameReset
<1> QED BY <1>1, <1>2, <1>3, <1>4 DEF S!Close, Ended

LEMMA ResetStep ==
    ASSUME Shape, Shape', alive' = alive, NEW r \in Req, Others(r),
           client'[r].st = "rst", SameLine(r), SameEnd(r)
    PROVE  S!Reset(r)
<1>1. \A q \in Req : InPipe(q)' = InPipe(q)
  BY SessionView, OthersView DEF SameLine
<1>2. \A q \in Req : client'[q].got = client[q].got
  BY OthersView DEF SameLine
<1>3. \A q \in Req : Ended(q)' <=> Ended(q)
  BY OthersView, EndView DEF SameEnd
<1>4. \A q \in Req : client'[q].st = "rst" <=> IF q = r THEN TRUE ELSE client[q].st = "rst"
  BY OthersView
<1> QED BY <1>1, <1>2, <1>3, <1>4 DEF S!Reset, Ended

LEMMA DiscardStep ==
    ASSUME Shape, Shape', alive' = alive, NEW r \in Req, Others(r), client[r].got \in Nat,
           client[r].st = "rst", SameReset(r), EndedThen(r),
           client'[r].got = client[r].got, LiesThen(r) = 0
    PROVE  S!Discard(r)
<1>1. InPipe(r)' = << >>
  <2>1. InPipe(r)' = Line(client[r].got, 0)
    BY SessionView
  <2> QED BY <2>1, NoLine
<1>2. \A q \in Req : InPipe(q)' = IF q = r THEN << >> ELSE InPipe(q)
  BY <1>1, OthersView
<1>3. \A q \in Req : client'[q].got = client[q].got
  BY OthersView
<1>4. \A q \in Req : Ended(q)' <=> IF q = r THEN TRUE ELSE Ended(q)
  BY OthersView, EndView
<1>5. \A q \in Req : client'[q].st = "rst" <=> client[q].st = "rst"
  BY OthersView DEF SameReset
<1> QED BY <1>2, <1>3, <1>4, <1>5 DEF S!Discard, Ended

LEMMA GoDownStep ==
    ASSUME Shape, Shape', alive, ~alive', client \in [Req -> Client],
           \A q \in Req : /\ LiesThen(q) <= Lies(q) /\ client'[q].got = client[q].got
                          /\ SameReset(q)
    PROVE  S!GoDown
<1> DEFINE n == [q \in Req |-> LiesThen(q)]
<1>1. \A q \in Req : client[q].got \in Nat
  BY DEF Client
<1>2. \A q \in Req : /\ Lies(q) \in Nat /\ LiesThen(q) \in Nat /\ LiesThen(q) \in 0 .. Lies(q)
                     /\ InPipe(q) = Line(client[q].got, Lies(q))
                     /\ InPipe(q)' = Line(client[q].got, LiesThen(q))
  BY SessionView
<1>3. \A q \in Req : /\ Len(InPipe(q)) = Lies(q)
                     /\ InPipe(q)' = SubSeq(InPipe(q), 1, LiesThen(q))
  <2> SUFFICES ASSUME NEW q \in Req
               PROVE  /\ Len(InPipe(q)) = Lies(q)
                      /\ InPipe(q)' = SubSeq(InPipe(q), 1, LiesThen(q))
    OBVIOUS
  <2>1. /\ Len(Line(client[q].got, Lies(q))) = Lies(q)
        /\ SubSeq(Line(client[q].got, Lies(q)), 1, LiesThen(q)) = Line(client[q].got, LiesThen(q))
    BY <1>1, <1>2, LineFacts
  <2> QED BY <1>2, <2>1
<1>4. /\ n \in [Req -> UNION {0 .. Len(InPipe(q)) : q \in Req}]
      /\ \A q \in Req : n[q] <= Len(InPipe(q)) /\ InPipe(q)' = SubSeq(InPipe(q), 1, n[q])
  BY <1>2, <1>3
<1> HIDE DEF n
<1>5. \A q \in Req : Ended(q)'
  BY EndView DEF EndedThen
<1> QED BY <1>4, <1>5 DEF S!GoDown, SameReset, Ended

\* The lengths that Lies adds up.
LEMMA LiesFacts ==
    ASSUME IInv
    PROVE  /\ client \in [Req -> Client]
           /\ \A q \in Req : /\ client[q].got \in Nat /\ rx[q] \in Seq(Msg) /\ Len(rx[q]) \in Nat
                             /\ Cardinality(DataOf(q)) \in Nat
<1>1. \A q \in Req : Cardinality(DataOf(q)) \in Nat
  BY DataFacts
<1> QED BY <1>1 DEF IInv, TypeOK, Client

\* A request that a step leaves alone.
LEMMA LeftAlone ==
    ASSUME NEW q \in Req, alive' = alive, rx'[q] = rx[q],
           client'[q].got = client[q].got, client'[q].st = client[q].st,
           task'[q].st = "new" <=> task[q].st = "new",
           ConnectedThen(q) <=> Connected(q),
           Connected(q) => Cardinality(DataThen(q)) = Cardinality(DataOf(q))
    PROVE  SameSession(q)
  BY DEF SameSession, SameLine, SameEnd, SameReset, Lies, LiesThen, Ended, EndedThen

LEMMA CreatedSession ==
    ASSUME IInv, Shape, Shape', NEW r \in Req, on_request_created(r)
    PROVE  UNCHANGED S!vars
<1>1. /\ alive /\ task[r].st = "new"
      /\ UNCHANGED << alive, south, rx, client, sess >>
      /\ DataOf(r) = {} /\ ConnectedThen(r) /\ ~Connected(r)
      /\ \A q \in Req : q # r => task'[q] = task[q] /\ (ConnectedThen(q) <=> Connected(q))
  BY CreatedStream
<1>2. \A q : DataThen(q) = DataOf(q)
  BY <1>1 DEF DataOf, DataThen
<1>3. SameSession(r)
  <2>1. Cardinality(DataThen(r)) = 0 /\ Len(rx[r]) \in Nat
    BY <1>1, <1>2, LiesFacts, FS_EmptySet
  <2>2. SameLine(r)
    BY <1>1, <2>1 DEF SameLine, Lies, LiesThen
  <2> QED BY <1>1, <2>2 DEF SameSession, SameEnd, SameReset, Ended, EndedThen
<1>4. \A q \in Req : q # r => SameSession(q)
  BY <1>1, <1>2, LeftAlone
<1> QED BY <1>1, <1>3, <1>4, StutterStep

LEMMA TalkSession ==
    ASSUME IInv, TInv, Shape, Shape', NEW r \in Req, TaskSteps(r)
    PROVE  S!Deliver(r) \/ S!Discard(r) \/ UNCHANGED S!vars
<1>1. PICK t \in Task, ms \in Seq(Msg) : Speaks(r, t, ms)
  BY Talk
<1>2. /\ south' = south /\ alive' = alive /\ task[r].st = "open" /\ task'[r].st # "new"
      /\ \A q \in Req : task'[q].st = "new" <=> task[q].st = "new"
  BY <1>1, SpokenTable DEF Speaks
<1>3. \A q : DataThen(q) = DataOf(q)
  BY <1>2 DEF DataOf, DataThen
<1>4. /\ client \in [Req -> Client] /\ rx \in [Req -> Seq(Msg)]
      /\ client[r].got \in Nat /\ rx[r] \in Seq(Msg) /\ Len(rx[r]) \in Nat
      /\ Cardinality(DataOf(r)) \in Nat
  BY LiesFacts DEF IInv, TypeOK
<1>5. CASE Quiet
  <2>1. \A q \in Req : SameSession(q)
    BY <1>2, <1>3, <1>5, LeftAlone DEF Quiet
  <2> QED BY <1>2, <2>1, StutterStep
<1>6. CASE Writes(r)
  <2>1. /\ rx[r] # << >> /\ client[r].st # "rst" /\ rx'[r] = Tail(rx[r])
        /\ client'[r].got = client[r].got + 1 /\ client'[r].st = client[r].st
        /\ \A q \in Req : ConnectedThen(q) <=> Connected(q)
        /\ \A q \in Req : q # r => rx'[q] = rx[q] /\ client'[q] = client[q]
    BY <1>4, <1>6 DEF Writes, Client
  <2>2. Others(r)
    BY <1>2, <1>3, <2>1, LeftAlone DEF Others
  <2>3. Len(rx[r]) # 0 /\ Len(rx'[r]) = Len(rx[r]) - 1
    BY <1>4, <2>1, TailFacts
  <2>4. Lies(r) # 0 /\ LiesThen(r) = Lies(r) - 1
    <3>1. ConnectedThen(r) <=> Connected(r)
      BY <2>1
    <3> QED BY <1>3, <1>4, <2>3, <3>1 DEF Lies, LiesThen
  <2>5. SameEnd(r) /\ SameReset(r)
    BY <1>2, <2>1 DEF SameEnd, SameReset, Ended, EndedThen
  <2> QED BY <1>2, <1>4, <2>1, <2>2, <2>4, <2>5, DeliverStep
<1>7. CASE Fails(r)
  <2>1. /\ client[r].st = "rst" /\ client' = client /\ rx'[r] = << >> /\ ~ConnectedThen(r)
        /\ \A q \in Req : q # r => rx'[q] = rx[q] /\ (ConnectedThen(q) <=> Connected(q))
    BY <1>4, <1>7 DEF Fails
  <2>2. Others(r)
    BY <1>2, <1>3, <2>1, LeftAlone DEF Others
  <2>3. LiesThen(r) = 0 /\ EndedThen(r) /\ SameReset(r)
    BY <1>2, <2>1 DEF LiesThen, EndedThen, SameReset
  <2> QED BY <1>2, <1>4, <2>1, <2>2, <2>3, DiscardStep
<1> QED BY <1>5, <1>6, <1>7, TalkStream DEF TInv

LEMMA ClientEndsSession ==
    ASSUME IInv, Shape, Shape', NEW r \in Req, ClientEnds(r)
    PROVE  S!Reset(r) \/ UNCHANGED S!vars
<1>1. /\ UNCHANGED << alive, reqq, req_count, task, rx, north, south, sess >>
      /\ \A q \in Req : client'[q].got = client[q].got /\ (q # r => client'[q] = client[q])
      /\ client[r].st # "rst" /\ client'[r].st \in {"fin", "rst"}
  BY ClientEndsStream
<1>2. \A q \in Req : /\ ConnectedThen(q) <=> Connected(q)
                     /\ DataThen(q) = DataOf(q)
  BY <1>1, ConnectedSame DEF DataOf, DataThen
<1>3. Others(r)
  BY <1>1, <1>2, LeftAlone DEF Others
<1>4. SameLine(r) /\ SameEnd(r)
  BY <1>1, <1>2 DEF SameLine, SameEnd, Lies, LiesThen, Ended, EndedThen
<1>5. CASE client'[r].st = "rst"
  BY <1>1, <1>3, <1>4, <1>5, ResetStep
<1>6. CASE client'[r].st # "rst"
  <2>1. \A q \in Req : SameSession(q)
    BY <1>1, <1>3, <1>4, <1>6 DEF Others, SameSession, SameReset
  <2> QED BY <1>1, <2>1, StutterStep
<1> QED BY <1>5, <1>6

LEMMA RepliesSession ==
    ASSUME IInv, Shape, Shape', NEW s \in Slot, NEW m, NEW e, Replies(s, m, e)
    PROVE  (\E r \in Req : S!Send(r)) \/ UNCHANGED S!vars
<1> DEFINE o == sess[s].own
<1>1. /\ UNCHANGED << alive, reqq, req_count, task, rx, north, client >>
      /\ sess[s].open /\ m \in Msg /\ south' = Append(south, m) /\ m.own = o
  BY DEF Replies, clientSide
<1>2. o \in Req
  BY <1>1, SessionFacts
<1>3. \A q \in Req : ConnectedThen(q) <=> Connected(q)
  BY <1>1, ConnectedSame
<1>4. /\ \A q \in Req : m \notin DataMsgs(q) => DataThen(q) = DataOf(q)
      /\ \A q \in Req : m \in DataMsgs(q) => Cardinality(DataThen(q)) = Cardinality(DataOf(q)) + 1
  BY <1>1, DataAppend
<1>5. \A q \in Req : q # o => m \notin DataMsgs(q)
  BY <1>1 DEF DataMsgs
<1> HIDE DEF o
<1>6. Others(o)
  BY <1>1, <1>3, <1>4, <1>5, LeftAlone DEF Others
<1>7. CASE m \in DataMsgs(o) /\ Connected(o)
  <2>1. /\ client[o].got \in Nat /\ Len(rx[o]) \in Nat /\ Cardinality(DataOf(o)) \in Nat
    BY <1>2, LiesFacts
  <2>2. LiesThen(o) = Lies(o) + 1
    <3>1. /\ rx'[o] = rx[o] /\ ConnectedThen(o)
          /\ Cardinality(DataThen(o)) = Cardinality(DataOf(o)) + 1
      BY <1>1, <1>2, <1>3, <1>4, <1>7
    <3> QED BY <1>7, <2>1, <3>1 DEF Lies, LiesThen
  <2>3. ~Ended(o) /\ SameEnd(o) /\ SameReset(o)
    BY <1>1, <1>2, <1>3, <1>7 DEF SameEnd, SameReset, Ended, EndedThen, Connected
  <2> QED BY <1>1, <1>2, <1>6, <2>1, <2>2, <2>3, SendStep
<1>8. CASE ~(m \in DataMsgs(o) /\ Connected(o))
  <2>1. SameSession(o)
    BY <1>1, <1>2, <1>3, <1>4, <1>8, LeftAlone
  <2> QED BY <1>1, <1>6, <2>1, StutterStep DEF Others
<1> QED BY <1>7, <1>8

LEMMA DeliverSession ==
    ASSUME IInv, TInv, Shape, Shape', on_tunnel_msg
    PROVE  (\E r \in Req : S!Close(r)) \/ UNCHANGED S!vars
<1> DEFINE m == Head(south)
           o == m.own
<1>1. /\ alive /\ south # << >> /\ south' = Tail(south) /\ m \in Msg /\ o \in Req
      /\ m = south[1] /\ 1 \in DOMAIN south
      /\ UNCHANGED << alive, task, north, client, sess >>
      /\ \A q \in Req : /\ q # o => rx'[q] = rx[q] /\ (ConnectedThen(q) <=> Connected(q))
                        /\ ConnectedThen(q) => Connected(q)
      /\ \/ /\ m.cmd = "ReqData"
            /\ ConnectedThen(o) <=> Connected(o)
            /\ rx'[o] = IF Connected(o) THEN Append(rx[o], m) ELSE rx[o]
         \/ /\ m.cmd \in {"ReqServerFinished", "ReqServerClosed"}
            /\ rx'[o] = rx[o]
  BY DeliverStream DEF TInv
<1>2. \A q \in Req : 1 \in DataOf(q) <=> m.cmd = "ReqData" /\ q = o
  BY <1>1 DEF DataOf
<1>3. /\ client[o].got \in Nat /\ rx[o] \in Seq(Msg) /\ Len(rx[o]) \in Nat
      /\ Cardinality(DataOf(o)) \in Nat
  BY <1>1, LiesFacts
<1>4. ASSUME NEW q \in Req
      PROVE  /\ Cardinality(DataThen(q)) \in Nat
             /\ 1 \notin DataOf(q) => Cardinality(DataThen(q)) = Cardinality(DataOf(q))
             /\ 1 \in DataOf(q) => Cardinality(DataOf(q)) = Cardinality(DataThen(q)) + 1
  <2>1. /\ Cardinality(DataThen(q)) \in Nat
        /\ Cardinality(DataOf(q)) = Cardinality(DataThen(q)) + (IF 1 \in DataOf(q) THEN 1 ELSE 0)
    BY <1>1, DataTail
  <2> QED BY <2>1
<1>5. o \in Started
  BY <1>1, MessageOwners
<1>6. m.cmd # "ReqData" => DataOf(o) = {} \/ m.cmd \notin {"ReqServerFinished", "ReqServerClosed"}
  <2> SUFFICES ASSUME m.cmd \in {"ReqServerFinished", "ReqServerClosed"}, NEW k \in DataOf(o)
               PROVE  FALSE
    OBVIOUS
  <2>1. k \in DOMAIN south /\ south[k].cmd = "ReqData" /\ south[k].own = o /\ k \in Nat \ {0}
    BY <1>1, DataFacts DEF DataOf
  <2>2. k # 1
    BY <1>1, <2>1
  <2>3. 1 < k
    BY <2>1, <2>2
  <2> QED BY <1>1, <2>1, <2>3 DEF TInv, DataFirst
<1> HIDE DEF m, o
<1>7. Others(o)
  BY <1>1, <1>2, <1>4, LeftAlone DEF Others
<1>8. CASE m.cmd = "ReqData"
  <2>1. SameLine(o)
    <3>1. CASE Connected(o)
      <4>1. ConnectedThen(o) /\ rx'[o] = Append(rx[o], m) /\ 1 \in DataOf(o)
        BY <1>1, <1>2, <1>8, <3>1
      <4>2. Len(rx'[o]) = Len(rx[o]) + 1
        BY <1>1, <1>3, <4>1, AppendFacts
      <4>3. /\ Cardinality(DataThen(o)) \in Nat
            /\ Cardinality(DataOf(o)) = Cardinality(DataThen(o)) + 1
        BY <1>1, <1>4, <4>1
      <4>4. Lies(o) = Len(rx[o]) + (Cardinality(DataThen(o)) + 1)
        BY <3>1, <4>3 DEF Lies
      <4>5. LiesThen(o) = (Len(rx[o]) + 1) + Cardinality(DataThen(o))
        BY <4>1, <4>2 DEF LiesThen
      <4>6. LiesThen(o) = Lies(o)
        BY <1>3, <4>3, <4>4, <4>5
      <4> QED BY <1>1, <4>6 DEF SameLine
    <3>2. CASE ~Connected(o)
      BY <1>1, <1>8, <3>2 DEF SameLine, Lies, LiesThen
    <3> QED BY <3>1, <3>2
  <2>2. SameEnd(o) /\ SameReset(o)
    BY <1>1, <1>8 DEF SameEnd, SameReset, Ended, EndedThen
  <2>3. \A q \in Req : SameSession(q)
    BY <1>7, <2>1, <2>2 DEF Others, SameSession
  <2> QED BY <1>1, <2>3, StutterStep
<1>9. CASE m.cmd # "ReqData"
  <2>1. rx'[o] = rx[o] /\ DataOf(o) = {} /\ Cardinality(DataOf(o)) = 0
        /\ Cardinality(DataThen(o)) = 0
    <3>1. rx'[o] = rx[o] /\ DataOf(o) = {}
      BY <1>1, <1>6, <1>9
    <3>2. Cardinality(DataOf(o)) = 0
      BY <3>1, FS_EmptySet
    <3> QED BY <1>1, <1>4, <3>1, <3>2
  <2>2. SameLine(o) /\ SameReset(o)
    BY <1>1, <1>3, <2>1 DEF SameLine, SameReset, Lies, LiesThen
  <2>3. CASE Connected(o) /\ ~ConnectedThen(o)
    <3>1. ~Ended(o) /\ EndedThen(o)
      BY <1>1, <1>5, <2>3 DEF Ended, EndedThen, Started
    <3>2. alive' = alive /\ o \in Req
      BY <1>1
    <3> QED BY <1>7, <2>2, <3>1, <3>2, CloseStep
  <2>4. CASE ~(Connected(o) /\ ~ConnectedThen(o))
    <3>1. SameEnd(o)
      BY <1>1, <2>4 DEF SameEnd, Ended, EndedThen
    <3>2. \A q \in Req : SameSession(q)
      BY <1>7, <2>2, <3>1 DEF Others, SameSession
    <3> QED BY <1>1, <3>2, StutterStep
  <2> QED BY <2>3, <2>4
<1> QED BY <1>8, <1>9

LEMMA ClosedSession ==
    ASSUME IInv, Shape, Shape', on_closed
    PROVE  S!GoDown
<1>1. alive /\ ~alive' /\ UNCHANGED << rx, client >> /\ \A q : ~ConnectedThen(q)
  BY DEF on_closed, ConnectedThen
<1>2. ASSUME NEW q \in Req
      PROVE  /\ LiesThen(q) <= Lies(q) /\ client'[q].got = client[q].got
             /\ SameReset(q)
  <2>1. Len(rx[q]) \in Nat /\ Cardinality(DataOf(q)) \in Nat
    BY LiesFacts
  <2>2. LiesThen(q) = Len(rx[q])
    BY <1>1, <2>1 DEF LiesThen
  <2>3. LiesThen(q) <= Lies(q)
    BY <2>1, <2>2 DEF Lies
  <2> QED BY <1>1, <2>3 DEF SameReset
<1> QED BY <1>1, <1>2, LiesFacts, GoDownStep

\* A step that leaves the clients and their channels alone.
LEMMA UnseenSession ==
    ASSUME Shape, Shape', UNCHANGED << alive, reqq, task, rx, south, client >>
    PROVE  UNCHANGED S!vars
<1>1. \A q \in Req : /\ ConnectedThen(q) <=> Connected(q)
                     /\ DataThen(q) = DataOf(q)
  BY ConnectedSame DEF DataOf, DataThen
<1>2. \A q \in Req : SameSession(q)
  BY <1>1, LeftAlone
<1> QED BY <1>2, StutterStep

LEMMA NextSession == IInv /\ TInv /\ Shape /\ Shape' /\ [Next]_vars => [S!Next]_(S!vars)
<1> SUFFICES ASSUME IInv, TInv, Shape, Shape', [Next]_vars
             PROVE  S!Next \/ UNCHANGED S!vars
  OBVIOUS
<1>1. ASSUME NEW r \in Req, TaskNext(r) PROVE S!Next \/ UNCHANGED S!vars
  BY <1>1, CreatedSession, TalkSession DEF TaskNext, TaskSteps, S!Next
<1>2. ASSUME NEW r \in Req, ClientEnds(r) PROVE S!Next \/ UNCHANGED S!vars
  BY <1>2, ClientEndsSession DEF S!Next
<1>3. ASSUME NEW s \in Slot, ServerNext(s) PROVE S!Next \/ UNCHANGED S!vars
  BY <1>3, ServerFacts, RepliesSession DEF S!Next
<1>4. CASE ServerReceives
  BY <1>4, ReceivesFacts, UnseenSession
<1>5. CASE on_tunnel_msg
  BY <1>5, DeliverSession DEF S!Next
<1>6. CASE on_closed
  BY <1>6, ClosedSession DEF S!Next
<1>7. CASE UNCHANGED vars
  BY <1>7, UnseenSession DEF vars, clientSide
<1> QED BY <1>1, <1>2, <1>3, <1>4, <1>5, <1>6, <1>7 DEF Next

LEMMA InitSession == Init => S!Init
<1> SUFFICES ASSUME Init PROVE S!Init
  OBVIOUS
<1>1. /\ alive = TRUE /\ \A r \in Req : client[r].got = 0 /\ client[r].st = "up"
      /\ \A r \in Req : task[r].st = "new"
  BY DEF Init
<1>2. \A r \in Req : Lies(r) = 0
  BY <1>1 DEF Init, Lies, Connected
<1>3. \A r \in Req : InPipe(r) = << >>
  <2>1. Shape
    BY InitIInv, InitPInv, PipeShape
  <2>2. \A r \in Req : InPipe(r) = Line(0, 0)
    BY <1>1, <1>2, <2>1 DEF Shape
  <2> QED BY <2>2, NoLine
<1> QED BY <1>1, <1>3 DEF S!Init

\* The tunnel implements a Session for every request: as long as the tags suffice, the
\* streams do not mix, reorder or repeat, and an end that the server makes loses
\* nothing that was sent before it (ImplementsSessions).
THEOREM SessionsImplemented == Spec /\ []TagsSuffice => ImplementsSessions
<1>1. IInv /\ TInv /\ PInv /\ IInv' /\ PInv' /\ [Next]_vars => [S!Next]_(S!vars)
  BY NextSession, PipeShape, ShapeThen
<1> QED BY <1>1, InitSession, Invariance, TagsInvariance, StreamsNumbered, PTL
        DEF Spec, S!Spec, ImplementsSessions
=============================================================================
