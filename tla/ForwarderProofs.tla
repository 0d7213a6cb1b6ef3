-------------------------- MODULE ForwarderProofs ---------------------------
(***************************************************************************)
(* Proofs about Forwarder and DomainMap, for any tunnels, queries, clients *)
(* and lists of domains.                                                   *)
(*                                                                         *)
(* DomapExact has a static half, that the tree of a list answers what the  *)
(* list means (HasIsCovered), and a dynamic one, that the tree is the one  *)
(* of the list given last (DomapCurrent).  NoStray rests on OwedCovers:    *)
(* whoever is remembered for a query is still owed its answer.  The Pool   *)
(* rests on OneOwner.                                                      *)
(***************************************************************************)
EXTENDS Forwarder, SequenceTheorems, FiniteSetTheorems, TLAPS

-----------------------------------------------------------------------------
(***************************************************************************)
(* The tree of domains.                                                    *)
(***************************************************************************)

\* The first k labels of a name.
LEMMA PathFacts ==
    ASSUME NEW n \in Seq(Label), NEW k \in 0 .. Len(n)
    PROVE  /\ Path(n, k) \in Seq(Label) /\ Len(Path(n, k)) = k
           /\ \A i \in 1 .. k : Path(n, k)[i] = n[i]
<1>1. Len(n) \in Nat /\ 1 \in Nat /\ k \in Nat
  BY LenProperties
<1>2. \A i \in 1 .. k : n[i] \in Label
  BY <1>1, ElementOfSeq
<1>3. /\ Path(n, k) = SubSeq(n, 1, k)
      /\ Len(SubSeq(n, 1, k)) = k
      /\ \A i \in 1 .. k : SubSeq(n, 1, k)[i] = n[i]
      /\ SubSeq(n, 1, k) \in Seq(Label)
  BY <1>1, <1>2 DEF Path
<1> QED BY <1>3

\* A name lies below, or is, another one exactly if that one is a path to it.
LEMMA PathsLemma ==
    ASSUME NEW n \in Seq(Label), NEW k \in 0 .. Len(n), NEW d \in Seq(Label),
           \A i \in 1 .. k : n[i] = d[i], k <= Len(d)
    PROVE  Path(n, k) = Path(d, k)
<1>1. Len(n) \in Nat /\ Len(d) \in Nat /\ k \in Nat /\ k \in 0 .. Len(d)
  BY LenProperties
<1>2. /\ Path(n, k) \in Seq(Label) /\ Len(Path(n, k)) = k
      /\ \A i \in 1 .. k : Path(n, k)[i] = n[i]
      /\ Path(d, k) \in Seq(Label) /\ Len(Path(d, k)) = k
      /\ \A i \in 1 .. k : Path(d, k)[i] = d[i]
  BY <1>1, PathFacts
<1> QED BY <1>2, SeqEqual

LEMMA WholePath ==
    ASSUME NEW n \in Seq(Label)
    PROVE  Path(n, Len(n)) = n
<1>1. Len(n) \in Nat /\ Len(n) \in 0 .. Len(n)
  BY LenProperties
<1>2. /\ Path(n, Len(n)) \in Seq(Label) /\ Len(Path(n, Len(n))) = Len(n)
      /\ \A i \in 1 .. Len(n) : Path(n, Len(n))[i] = n[i]
  BY <1>1, PathFacts
<1> QED BY <1>2, SeqEqual

\* DomainMap::has on the tree of a list answers whether the name is a domain of
\* the list, lies below one or lies above one, whatever the order of insertion
\* and although the tree forgets which names its inner paths come from.
LEMMA HasIsCovered ==
    ASSUME NEW l \in SUBSET Seq(Label), NEW n \in Seq(Label)
    PROVE  has(insert_all(EmptyTree, l), n) <=> Covered(l, n)
<1> DEFINE ok == {d \in l : Insertable(d)}
           nodes == UNION {Paths(d) : d \in ok}
           tree == insert_all(EmptyTree, l)
<1>1. tree.nodes = nodes /\ tree.leaf = ok
  BY DEF insert_all, EmptyTree
<1>2. Len(n) \in Nat /\ \A d \in l : d \in Seq(Label) /\ Len(d) \in Nat
  BY LenProperties
<1> HIDE DEF tree
<1>3. ASSUME has(tree, n)
      PROVE  Covered(l, n)
  <2>1. Len(n) >= 2
    BY <1>3 DEF has
  <2>2. PICK k \in 1 .. Len(n) : /\ \A j \in 1 .. k : Path(n, j) \in nodes
                                 /\ Path(n, k) \in ok \/ k = Len(n)
    BY <1>1, <1>3 DEF has
  <2>3. k \in 0 .. Len(n) /\ k \in Nat /\ k \in 1 .. k
    BY <1>2, <2>2
  <2>4. CASE Path(n, k) \in ok
    <3> DEFINE d == Path(n, k)
    <3>1. d \in l /\ Insertable(d)
      BY <2>4
    <3>2. Len(d) = k /\ \A i \in 1 .. k : d[i] = n[i]
      BY <2>3, PathFacts
    <3> HIDE DEF d
    <3>3. IsAbove(d, n)
      BY <2>2, <3>2, <1>2 DEF IsAbove
    <3> QED BY <2>1, <3>1, <3>3 DEF Covered
  <2>5. CASE k = Len(n)
    <3>1. n \in nodes
      BY <2>2, <2>3, <2>5, WholePath
    <3>2. PICK d \in ok : n \in Paths(d)
      BY <3>1
    <3>3. PICK m \in 1 .. Len(d) : n = Path(d, m)
      BY <3>2 DEF Paths
    <3>4. d \in Seq(Label) /\ d \in l /\ Insertable(d) /\ m \in 0 .. Len(d) /\ Len(d) \in Nat
      BY <1>2, <3>2, <3>3
    <3>5. Len(n) = m /\ \A i \in 1 .. m : n[i] = d[i]
      BY <3>3, <3>4, PathFacts
    <3>6. IsAbove(n, d)
      BY <3>3, <3>4, <3>5 DEF IsAbove
    <3> QED BY <2>1, <3>4, <3>6 DEF Covered
  <2> QED BY <2>2, <2>4, <2>5
<1>4. ASSUME Covered(l, n)
      PROVE  has(tree, n)
  <2>1. Len(n) >= 2
    BY <1>4 DEF Covered
  <2>2. PICK d \in l : Insertable(d) /\ (IsAbove(d, n) \/ IsAbove(n, d))
    BY <1>4 DEF Covered
  <2>3. d \in ok /\ d \in Seq(Label) /\ Len(d) \in Nat /\ Len(d) >= 2
    BY <1>2, <2>2 DEF Insertable
  <2>4. ASSUME NEW k \in 1 .. Len(n), k <= Len(d),
               \A i \in 1 .. k : n[i] = d[i]
        PROVE  Path(n, k) = Path(d, k) /\ \A j \in 1 .. k : Path(n, j) \in nodes
    <3>1. ASSUME NEW j \in 1 .. k
          PROVE  Path(n, j) = Path(d, j) /\ Path(d, j) \in nodes
      <4>1. j \in 0 .. Len(n) /\ j <= Len(d) /\ \A i \in 1 .. j : n[i] = d[i]
        BY <1>2, <2>3, <2>4
      <4>2. Path(n, j) = Path(d, j)
        BY <2>3, <4>1, PathsLemma
      <4>3. Path(d, j) \in Paths(d)
        BY <1>2, <2>3, <4>1 DEF Paths
      <4> QED BY <2>3, <4>2, <4>3
    <3> QED BY <1>2, <3>1
  <2>5. CASE IsAbove(d, n)
    <3>1. Len(d) \in 1 .. Len(n) /\ \A i \in 1 .. Len(d) : n[i] = d[i]
      BY <1>2, <2>3, <2>5 DEF IsAbove
    <3>2. Path(n, Len(d)) = Path(d, Len(d)) /\ \A j \in 1 .. Len(d) : Path(n, j) \in nodes
      BY <2>3, <2>4, <3>1
    <3>3. Path(n, Len(d)) \in ok
      BY <2>3, <3>2, WholePath
    <3> QED BY <1>1, <2>1, <3>1, <3>2, <3>3 DEF has
  <2>6. CASE IsAbove(n, d)
    <3>1. Len(n) \in 1 .. Len(n) /\ Len(n) <= Len(d) /\ \A i \in 1 .. Len(n) : n[i] = d[i]
      BY <1>2, <2>1, <2>6 DEF IsAbove
    <3>2. \A j \in 1 .. Len(n) : Path(n, j) \in nodes
      BY <2>4, <3>1
    <3> QED BY <1>1, <2>1, <3>1, <3>2 DEF has
  <2> QED BY <2>2, <2>5, <2>6
<1> QED BY <1>3, <1>4 DEF tree

\* Whatever tree is that of its list decides by the list.
LEMMA Decides ==
    ASSUME list \in Lists, DomapCurrent
    PROVE  DomapExact
<1>1. list \in SUBSET Seq(Label) /\ domap = insert_all(EmptyTree, list)
  BY ForwarderAssumption DEF DomapCurrent, new_domap
<1>2. ASSUME NEW n \in Names
      PROVE  n \in Seq(Label)
  <2>1. CASE n \in Query
    BY <2>1, ForwarderAssumption
  <2>2. CASE n \in UNION {Paths(d) : d \in UNION Lists}
    <3>1. PICK d \in UNION Lists : n \in Paths(d)
      BY <2>2
    <3>2. d \in Seq(Label)
      BY ForwarderAssumption
    <3>3. PICK k \in 1 .. Len(d) : n = Path(d, k)
      BY <3>1 DEF Paths
    <3>4. Len(d) \in Nat /\ k \in 0 .. Len(d)
      BY <3>2, <3>3, LenProperties
    <3> QED BY <3>2, <3>3, <3>4, PathFacts
  <2> QED BY <2>1, <2>2 DEF Names
<1> QED BY <1>1, <1>2, HasIsCovered DEF DomapExact

-----------------------------------------------------------------------------
(***************************************************************************)
(* The inductive invariant.                                                *)
(***************************************************************************)

\* Forwarder::new and init establish it.
LEMMA InitIInv == Init => IInv
<1> SUFFICES ASSUME Init PROVE IInv
  OBVIOUS
<1>1. TypeOK
  <2>1. NoMemo \in [Query -> Client \cup {NoClient}]
    BY DEF NoMemo
  <2>2. reconnect_queue \in Seq(Tun) /\ ping_count \in [Tun -> 0 .. PingLimit + 1]
    BY ForwarderAssumption DEF Init
  <2>3. owed \in [Client \X Query -> Int]
    BY DEF Init
  <2>4. /\ discarded \in BOOLEAN /\ server \in BOOLEAN /\ list \in Lists
        /\ lres \in [task : BOOLEAN, tx : BOOLEAN, fw : BOOLEAN] /\ upstream \in SUBSET Query
    BY DEF Init
  <2>5. /\ building \in [Tun -> Nat] /\ asked \in [Tun -> BOOLEAN]
        /\ tun \in [Tun -> {"none", "up", "shut", "crashed"}]
    BY DEF Init
  <2>6. /\ request_memo \in [Query -> Client \cup {NoClient}]
        /\ request_memo_history \in [Query -> Client \cup {NoClient}]
    BY <2>1 DEF Init
  <2> QED BY <2>2, <2>3, <2>4, <2>5, <2>6 DEF TypeOK
<1>2. OneOwner
  BY DEF Init, OneOwner
<1>3. OwedCovers
  <2> SUFFICES ASSUME NEW c \in Client, NEW q \in Query
               PROVE  owed[<< c, q >>] >= Remembered(request_memo, c, q)
                                            + Remembered(request_memo_history, c, q)
    BY DEF OwedCovers
  <2>1. Remembered(NoMemo, c, q) = 0
    BY ForwarderAssumption DEF Remembered, NoMemo
  <2> QED BY <2>1 DEF Init
<1>4. DomapCurrent
  BY DEF Init, DomapCurrent
<1> QED BY <1>1, <1>2, <1>3, <1>4 DEF IInv

\* Appending an index to the queue.
LEMMA Requeue ==
    ASSUME TypeOK, OneOwner, NEW i \in Tun, Queued(i) = {},
           reconnect_queue' = Append(reconnect_queue, i)
    PROVE  /\ reconnect_queue' \in Seq(Tun)
           /\ \A k, l \in DOMAIN reconnect_queue' :
                reconnect_queue'[k] = reconnect_queue'[l] => k = l
           /\ \A k \in DOMAIN reconnect_queue' :
                reconnect_queue'[k] = i \/ (k \in DOMAIN reconnect_queue
                                              /\ reconnect_queue'[k] = reconnect_queue[k])
           /\ Queued(i)' # {} /\ \A j \in Tun : Queued(j) # {} => Queued(j)' # {}
<1> DEFINE q == reconnect_queue
           p == reconnect_queue'
<1>1. q \in Seq(Tun) /\ Len(q) \in Nat /\ DOMAIN q = 1 .. Len(q)
  BY DEF TypeOK
<1>2. /\ p \in Seq(Tun) /\ DOMAIN p = 1 .. Len(q) + 1
      /\ \A k \in DOMAIN q : p[k] = q[k]
      /\ p[Len(q) + 1] = i
  BY <1>1
<1>3. \A k : k \in DOMAIN p <=> (k \in DOMAIN q \/ k = Len(q) + 1)
  BY <1>1, <1>2
<1>4. \A k, l \in DOMAIN q : q[k] = q[l] => k = l
  BY DEF OneOwner
<1>5. \A k \in DOMAIN q : q[k] # i
  BY DEF Queued
<1>6. /\ \A j : Queued(j) = {k \in DOMAIN q : q[k] = j}
      /\ \A j : Queued(j)' = {k \in DOMAIN p : p[k] = j}
  BY DEF Queued
<1> HIDE DEF p, q
<1>7. \A k, l \in DOMAIN p : p[k] = p[l] => k = l
  BY <1>2, <1>3, <1>4, <1>5
<1>8. Queued(i)' # {} /\ \A j \in Tun : Queued(j) # {} => Queued(j)' # {}
  BY <1>2, <1>3, <1>6
<1>9. \A k \in DOMAIN p : p[k] = i \/ (k \in DOMAIN q /\ p[k] = q[k])
  BY <1>2, <1>3
<1> QED BY <1>2, <1>7, <1>8, <1>9 DEF p, q

\* The owner of an index lets go of it, and it is queued.
LEMMA Released ==
    ASSUME TypeOK, OneOwner, NEW i \in Tun, building[i] = 1 \/ tun[i] # "none",
           building' = [building EXCEPT ![i] = 0],
           tun' = [tun EXCEPT ![i] = "none"],
           reconnect_queue' = Append(reconnect_queue, i),
           discarded' = discarded
    PROVE  OneOwner'
<1>1. Queued(i) = {}
  BY DEF Queued, OneOwner
<1>2. building \in [Tun -> Nat] /\ tun \in [Tun -> {"none", "up", "shut", "crashed"}]
  BY DEF TypeOK
<1>3. /\ \A k, l \in DOMAIN reconnect_queue' :
            reconnect_queue'[k] = reconnect_queue'[l] => k = l
      /\ \A k \in DOMAIN reconnect_queue' :
            reconnect_queue'[k] = i \/ (k \in DOMAIN reconnect_queue
                                          /\ reconnect_queue'[k] = reconnect_queue[k])
      /\ Queued(i)' # {} /\ \A j \in Tun : Queued(j) # {} => Queued(j)' # {}
      /\ reconnect_queue' \in Seq(Tun)
  BY <1>1, Requeue
<1>4. \A j \in Tun : building'[j] <= 1 /\ (building'[j] = 1 => tun'[j] = "none")
  BY <1>2 DEF OneOwner
<1>5. ASSUME NEW k \in DOMAIN reconnect_queue'
      PROVE  tun'[reconnect_queue'[k]] = "none" /\ building'[reconnect_queue'[k]] = 0
  <2>1. CASE reconnect_queue'[k] = i
    BY <1>2, <2>1
  <2>2. CASE k \in DOMAIN reconnect_queue /\ reconnect_queue'[k] = reconnect_queue[k]
    <3>1. reconnect_queue[k] \in Tun
      BY <2>2 DEF TypeOK
    <3>2. tun[reconnect_queue[k]] = "none" /\ building[reconnect_queue[k]] = 0
      BY <2>2 DEF OneOwner
    <3> QED BY <1>2, <2>2, <3>1, <3>2
  <2> QED BY <1>3, <2>1, <2>2
<1>6. ~discarded' => \A j \in Tun : \/ tun'[j] # "none" \/ building'[j] = 1
                                    \/ Queued(j)' # {}
  BY <1>2, <1>3 DEF OneOwner
<1> QED BY <1>3, <1>4, <1>5, <1>6 DEF OneOwner

\* A step that changes neither the attempts nor the queue, and gives no tunnel
\* away.
LEMMA OwnersKept ==
    ASSUME OneOwner, UNCHANGED << building, reconnect_queue >>,
           \A i \in Tun : tun'[i] = "none" <=> tun[i] = "none",
           TypeOK, discarded => discarded'
    PROVE  OneOwner'
<1>1. \A i \in Tun : Queued(i)' = Queued(i)
  BY DEF Queued
<1>2. \A k \in DOMAIN reconnect_queue : reconnect_queue[k] \in Tun
  BY DEF TypeOK
<1> QED BY <1>1, <1>2 DEF OneOwner

\* An index is queued at most once.
LEMMA QueuedOnce ==
    ASSUME TypeOK, OneOwner, NEW i \in Tun
    PROVE  /\ Cardinality(Queued(i)) \in {0, 1}
           /\ Cardinality(Queued(i)) = 0 <=> Queued(i) = {}
           /\ Queued(i) # {} => tun[i] = "none" /\ building[i] = 0
<1>1. CASE Queued(i) = {}
  BY <1>1, FS_EmptySet
<1>2. CASE Queued(i) # {}
  <2>1. PICK k \in Queued(i) : TRUE
    BY <1>2
  <2>2. Queued(i) = {k}
    BY <2>1 DEF Queued, OneOwner
  <2>3. tun[i] = "none" /\ building[i] = 0
    BY <2>1 DEF Queued, OneOwner
  <2> QED BY <1>2, <2>2, <2>3, FS_Singleton
<1> QED BY <1>1, <1>2

-----------------------------------------------------------------------------
(***************************************************************************)
(* The four parts, each kept by every step.                                *)
(***************************************************************************)

\* The types.  The handlers that leave most of the state alone are taken
\* together by what they change.
LEMMA TypeStep ==
    ASSUME IInv, [Next]_vars
    PROVE  TypeOK'
<1> USE DEF poolVars, memoVars, resVars
<1>1. TypeOK
  BY DEF IInv
<1>2. ASSUME NEW i \in Tun, on_tunnel_created(i) PROVE TypeOK'
  <2>1. building' \in [Tun -> Nat]
    BY <1>1, <1>2 DEF TypeOK, on_tunnel_created
  <2>2. /\ tun' \in [Tun -> {"none", "up", "shut", "crashed"}]
        /\ ping_count' \in [Tun -> 0 .. PingLimit + 1]
        /\ asked' \in [Tun -> BOOLEAN]
    <3>1. CASE discarded
      BY <1>1, <1>2, <3>1 DEF TypeOK, on_tunnel_created
    <3>2. CASE ~discarded
      <4>1. /\ tun' = [tun EXCEPT ![i] = "up"] /\ ping_count' = [ping_count EXCEPT ![i] = 0]
            /\ asked' = [asked EXCEPT ![i] = FALSE]
        BY <1>2, <3>2 DEF on_tunnel_created
      <4>2. 0 \in 0 .. PingLimit + 1
        BY ForwarderAssumption
      <4> QED BY <1>1, <4>1, <4>2 DEF TypeOK
    <3> QED BY <3>1, <3>2
  <2> QED BY <1>1, <1>2, <2>1, <2>2 DEF TypeOK, on_tunnel_created
<1>3. ASSUME NEW i \in Tun, on_tunnel_build_error(i) PROVE TypeOK'
  <2>1. building' \in [Tun -> Nat]
    BY <1>1, <1>3 DEF TypeOK, on_tunnel_build_error
  <2>2. reconnect_queue' \in Seq(Tun)
    BY <1>1, <1>3 DEF TypeOK, on_tunnel_build_error
  <2> QED BY <1>1, <1>3, <2>1, <2>2 DEF TypeOK, on_tunnel_build_error
<1>4. ASSUME NEW i \in Tun, on_tunnel_closed(i) PROVE TypeOK'
  <2>1. tun' \in [Tun -> {"none", "up", "shut", "crashed"}]
    BY <1>1, <1>4 DEF TypeOK, on_tunnel_closed
  <2>2. reconnect_queue' \in Seq(Tun)
    BY <1>1, <1>4 DEF TypeOK, on_tunnel_closed
  <2> QED BY <1>1, <1>4, <2>1, <2>2 DEF TypeOK, on_tunnel_closed
<1>5. ASSUME NEW i \in Tun, on_pong(i) PROVE TypeOK'
  <2>1. ping_count' \in [Tun -> 0 .. PingLimit + 1]
    BY <1>1, <1>5, ForwarderAssumption DEF TypeOK, on_pong
  <2> QED BY <1>1, <1>5, <2>1 DEF TypeOK, on_pong
<1>6. ASSUME NEW i \in Tun, on_tunnel_msg(i) PROVE TypeOK'
  <2>1. /\ tun' \in [Tun -> {"none", "up", "shut", "crashed"}]
        /\ asked' \in [Tun -> BOOLEAN]
    BY <1>1, <1>6 DEF TypeOK, on_tunnel_msg
  <2> QED BY <1>1, <1>6, <2>1 DEF TypeOK, on_tunnel_msg
<1>7. ASSUME NEW q \in Query, NEW c \in Client, on_dns_udp_msg(q, c) PROVE TypeOK'
  <2>1. UNCHANGED << discarded, server, list, domap >>
    BY <1>7 DEF on_dns_udp_msg
  <2>2. CASE AskTunnel
    <3>1. asked' \in [Tun -> BOOLEAN]
      <4>1. CASE UNCHANGED asked
        BY <1>1, <4>1 DEF TypeOK
      <4>2. ASSUME NEW i \in Tun, asked' = [asked EXCEPT ![i] = @ \/ tun[i] # "crashed"]
            PROVE  asked' \in [Tun -> BOOLEAN]
        BY <1>1, <4>2 DEF TypeOK
      <4> QED BY <2>2, <4>1, <4>2 DEF AskTunnel
    <3>2. UNCHANGED << reconnect_queue, building, tun, ping_count, memoVars >>
      BY <2>2 DEF AskTunnel
    <3>3. UNCHANGED << lres, upstream, owed >>
      BY <2>2 DEF AskTunnel
    <3> QED BY <1>1, <2>1, <3>1, <3>2, <3>3 DEF TypeOK
  <2>3. ASSUME NEW r \in [task : BOOLEAN, tx : BOOLEAN, fw : BOOLEAN], Ask(q, c, r)
        PROVE  TypeOK'
    <3>1. request_memo' \in [Query -> Client \cup {NoClient}]
      BY <1>1, <2>3 DEF TypeOK, Ask
    <3>2. owed' \in [Client \X Query -> Int]
      BY <1>1, <2>3 DEF TypeOK, Ask
    <3>3. upstream' \in SUBSET Query /\ lres' = r
      BY <1>1, <2>3 DEF TypeOK, Ask
    <3>4. UNCHANGED << poolVars, request_memo_history >>
      BY <2>3 DEF Ask
    <3> QED BY <1>1, <2>1, <2>3, <3>1, <3>2, <3>3, <3>4 DEF TypeOK
  <2>4. CASE request(q, c)
    <3>1. /\ lres \in [task : BOOLEAN, tx : BOOLEAN, fw : BOOLEAN]
          /\ [task |-> TRUE, tx |-> TRUE, fw |-> TRUE] \in [task : BOOLEAN, tx : BOOLEAN, fw : BOOLEAN]
          /\ [lres EXCEPT !.fw = FALSE] \in [task : BOOLEAN, tx : BOOLEAN, fw : BOOLEAN]
      BY <1>1 DEF TypeOK
    <3>2. CASE /\ lres' = [lres EXCEPT !.fw = FALSE]
               /\ UNCHANGED << poolVars, memoVars, upstream, owed >>
      BY <1>1, <2>1, <3>1, <3>2 DEF TypeOK
    <3> QED BY <2>3, <2>4, <3>1, <3>2 DEF request
  <2> QED BY <1>7, <2>2, <2>4 DEF on_dns_udp_msg
<1>8. ASSUME NEW q \in Query, on_resolver_udp_msg(q) PROVE TypeOK'
  <2>1. owed' \in [Client \X Query -> Int]
    <3>1. CASE Waiting(q) = NoClient \/ ~server
      BY <1>1, <1>8, <3>1 DEF TypeOK, on_resolver_udp_msg
    <3>2. CASE ~(Waiting(q) = NoClient \/ ~server)
      <4>1. Waiting(q) \in Client
        BY <1>1, <3>2 DEF TypeOK, Waiting
      <4>2. owed' = [owed EXCEPT ![<< Waiting(q), q >>] = owed[<< Waiting(q), q >>] - 1]
        BY <1>8, <3>2 DEF on_resolver_udp_msg
      <4>3. owed[<< Waiting(q), q >>] \in Int
        BY <1>1, <4>1 DEF TypeOK
      <4> QED BY <1>1, <4>1, <4>2, <4>3 DEF TypeOK
    <3> QED BY <3>1, <3>2
  <2>2. /\ request_memo' \in [Query -> Client \cup {NoClient}]
        /\ request_memo_history' \in [Query -> Client \cup {NoClient}]
    BY <1>1, <1>8 DEF TypeOK, on_resolver_udp_msg, take
  <2> QED BY <1>1, <1>8, <2>1, <2>2 DEF TypeOK, on_resolver_udp_msg
<1>9. ASSUME on_lresolver_udp_closed \/ ResolverPanics PROVE TypeOK'
  BY <1>1, <1>9 DEF TypeOK, on_lresolver_udp_closed, ResolverPanics
<1>10. CASE on_dns_udp_closed
  BY <1>1, <1>10 DEF TypeOK, on_dns_udp_closed
<1>11. ASSUME NEW l \in Lists, update_domains(l) PROVE TypeOK'
  BY <1>1, <1>11 DEF TypeOK, update_domains
<1>12. CASE keepalive
  <2>1. /\ tun' \in [Tun -> {"none", "up", "shut", "crashed"}]
    BY <1>1, <1>12 DEF TypeOK, keepalive, send_pings
  <2>2. ping_count' \in [Tun -> 0 .. PingLimit + 1]
    BY <1>1, <1>12, ForwarderAssumption DEF TypeOK, keepalive, send_pings
  <2>3. building' \in [Tun -> Nat] /\ reconnect_queue' \in Seq(Tun)
    <3>1. \A i \in Tun : building[i] + Cardinality(Queued(i)) \in Nat
      BY <1>1, QueuedOnce DEF IInv, TypeOK
    <3> QED BY <1>12, <3>1 DEF keepalive, process_reconnect
  <2>4. /\ request_memo' \in [Query -> Client \cup {NoClient}]
        /\ request_memo_history' \in [Query -> Client \cup {NoClient}]
    BY <1>1, <1>12 DEF TypeOK, keepalive, lresolver_keepalive, NoMemo
  <2> QED BY <1>1, <1>12, <2>1, <2>2, <2>3, <2>4 DEF TypeOK, keepalive
<1>13. CASE stop
  <2>1. tun' \in [Tun -> {"none", "up", "shut", "crashed"}]
    BY <1>1, <1>13 DEF TypeOK, stop
  <2>2. lres' \in [task : BOOLEAN, tx : BOOLEAN, fw : BOOLEAN]
    BY <1>1, <1>13 DEF TypeOK, stop
  <2> QED BY <1>1, <1>13, <2>1, <2>2 DEF TypeOK, stop
<1>14. CASE UNCHANGED vars
  BY <1>1, <1>14 DEF TypeOK, vars
<1> QED BY <1>2, <1>3, <1>4, <1>5, <1>6, <1>7, <1>8, <1>9, <1>10, <1>11, <1>12, <1>13,
           <1>14 DEF Next, TunnelNext, ResolverNext

\* Attempts, tunnels and the queue.
LEMMA OwnerStep ==
    ASSUME IInv, [Next]_vars
    PROVE  OneOwner'
<1> USE DEF poolVars, memoVars, resVars
<1>1. /\ TypeOK /\ OneOwner
      /\ building \in [Tun -> Nat] /\ tun \in [Tun -> {"none", "up", "shut", "crashed"}]
  BY DEF IInv, TypeOK
<1>2. \A i \in Tun : building[i] > 0 => building[i] = 1 /\ tun[i] = "none"
  BY <1>1 DEF OneOwner
<1>3. ASSUME NEW i \in Tun, on_tunnel_created(i) PROVE OneOwner'
  <2>1. building[i] = 1 /\ tun[i] = "none" /\ building' = [building EXCEPT ![i] = 0]
    <3>1. building[i] > 0 /\ building' = [building EXCEPT ![i] = building[i] - 1]
      BY <1>3 DEF on_tunnel_created
    <3>2. building[i] = 1 /\ tun[i] = "none" /\ building[i] - 1 = 0
      BY <1>2, <3>1
    <3> QED BY <3>1, <3>2
  <2>2. UNCHANGED << discarded, reconnect_queue >> /\ \A j \in Tun : Queued(j)' = Queued(j)
    BY <1>3 DEF on_tunnel_created, Queued
  <2>3. (discarded /\ tun' = tun) \/ tun' = [tun EXCEPT ![i] = "up"]
    BY <1>3 DEF on_tunnel_created
  <2>4. \A k \in DOMAIN reconnect_queue : reconnect_queue[k] \in Tun /\ reconnect_queue[k] # i
    BY <1>1, <2>1 DEF TypeOK, OneOwner
  <2> QED BY <1>1, <2>1, <2>2, <2>3, <2>4 DEF OneOwner
<1>4. ASSUME NEW i \in Tun, on_tunnel_build_error(i) PROVE OneOwner'
  <2>1. building[i] = 1 /\ building' = [building EXCEPT ![i] = 0] /\ UNCHANGED << discarded, tun >>
    <3>1. /\ building[i] > 0 /\ building' = [building EXCEPT ![i] = building[i] - 1]
          /\ UNCHANGED << discarded, tun >>
      BY <1>4 DEF on_tunnel_build_error
    <3>2. building[i] = 1 /\ building[i] - 1 = 0
      BY <1>2, <3>1
    <3> QED BY <3>1, <3>2
  <2>2. CASE discarded
    <3>1. UNCHANGED reconnect_queue
      BY <1>4, <2>2 DEF on_tunnel_build_error
    <3>2. \A k \in DOMAIN reconnect_queue : reconnect_queue[k] \in Tun
      BY <1>1 DEF TypeOK
    <3> QED BY <1>1, <2>1, <2>2, <3>1, <3>2 DEF OneOwner
  <2>3. CASE ~discarded
    <3>1. tun' = [tun EXCEPT ![i] = "none"]
      BY <1>1, <1>2, <2>1
    <3>2. reconnect_queue' = Append(reconnect_queue, i)
      BY <1>4, <2>3 DEF on_tunnel_build_error
    <3> QED BY <1>1, <2>1, <3>1, <3>2, Released
  <2> QED BY <2>2, <2>3
<1>5. ASSUME NEW i \in Tun, on_tunnel_closed(i) PROVE OneOwner'
  <2>1. tun[i] # "none" /\ building[i] = 0
    BY <1>1, <1>2, <1>5 DEF on_tunnel_closed
  <2>2. building' = [building EXCEPT ![i] = 0] /\ tun' = [tun EXCEPT ![i] = "none"]
    BY <1>1, <1>5, <2>1 DEF on_tunnel_closed
  <2>3. reconnect_queue' = Append(reconnect_queue, i) /\ discarded' = discarded
    BY <1>5 DEF on_tunnel_closed
  <2> QED BY <1>1, <2>1, <2>2, <2>3, Released
<1>6. ASSUME UNCHANGED << building, reconnect_queue, tun, discarded >> PROVE OneOwner'
  BY <1>1, <1>6, OwnersKept
<1>7. ASSUME NEW i \in Tun, on_tunnel_msg(i) PROVE OneOwner'
  <2>1. UNCHANGED << building, reconnect_queue, discarded >>
    BY <1>7 DEF on_tunnel_msg
  <2>2. \A j \in Tun : tun'[j] = "none" <=> tun[j] = "none"
    BY <1>1, <1>7 DEF on_tunnel_msg
  <2> QED BY <1>1, <2>1, <2>2, OwnersKept
<1>8. ASSUME NEW q \in Query, NEW c \in Client, on_dns_udp_msg(q, c) PROVE OneOwner'
  BY <1>6, <1>8 DEF on_dns_udp_msg, AskTunnel, request, Ask
<1>9. CASE keepalive
  <2>1. /\ reconnect_queue' = << >> /\ discarded' = discarded /\ ~discarded
        /\ building' = [i \in Tun |-> building[i] + Cardinality(Queued(i))]
    BY <1>9 DEF keepalive, process_reconnect
  <2>2. \A i \in Tun : tun'[i] = "none" <=> tun[i] = "none"
    BY <1>1, <1>9 DEF keepalive, send_pings
  <2>3. ASSUME NEW i \in Tun
        PROVE  /\ building'[i] <= 1 /\ (building'[i] = 1 => tun[i] = "none")
               /\ tun[i] # "none" \/ building'[i] = 1
    <3>1. /\ Cardinality(Queued(i)) \in {0, 1}
          /\ Cardinality(Queued(i)) = 0 <=> Queued(i) = {}
          /\ Queued(i) # {} => tun[i] = "none" /\ building[i] = 0
      BY <1>1, QueuedOnce
    <3>2. /\ building[i] \in Nat /\ building[i] <= 1 /\ (building[i] = 1 => tun[i] = "none")
          /\ tun[i] # "none" \/ building[i] = 1 \/ Queued(i) # {}
      BY <1>1, <2>1 DEF OneOwner
    <3>3. building'[i] = building[i] + Cardinality(Queued(i))
      BY <2>1
    <3> QED BY <3>1, <3>2, <3>3
  <2> QED BY <2>1, <2>2, <2>3 DEF OneOwner
<1>10. CASE stop
  <2>1. UNCHANGED << building, reconnect_queue >> /\ discarded'
    BY <1>10 DEF stop
  <2>2. \A j \in Tun : tun'[j] = "none" <=> tun[j] = "none"
    BY <1>1, <1>10 DEF stop
  <2> QED BY <1>1, <2>1, <2>2, OwnersKept
<1>11. ASSUME NEW i \in Tun, on_pong(i) PROVE OneOwner'
  BY <1>6, <1>11 DEF on_pong
<1>12. ASSUME ResolverNext PROVE OneOwner'
  BY <1>6, <1>12 DEF ResolverNext, on_resolver_udp_msg, on_lresolver_udp_closed,
                     ResolverPanics
<1>13. ASSUME NEW l \in Lists, update_domains(l) PROVE OneOwner'
  BY <1>6, <1>13 DEF update_domains
<1>14. CASE on_dns_udp_closed \/ UNCHANGED vars
  BY <1>6, <1>14 DEF on_dns_udp_closed, vars
<1> QED BY <1>3, <1>4, <1>5, <1>7, <1>8, <1>9, <1>10, <1>11, <1>12, <1>13, <1>14
        DEF Next, TunnelNext

\* Whoever is remembered for a query is owed its answer.
LEMMA OwedStep ==
    ASSUME IInv, [Next]_vars
    PROVE  OwedCovers'
<1> USE DEF poolVars, memoVars, resVars
<1>1. /\ owed \in [Client \X Query -> Int]
      /\ request_memo \in [Query -> Client \cup {NoClient}]
      /\ request_memo_history \in [Query -> Client \cup {NoClient}]
      /\ \A c \in Client : c # NoClient
  BY ForwarderAssumption DEF IInv, TypeOK
<1>2. ASSUME NEW c \in Client, NEW q \in Query
      PROVE  owed[<< c, q >>] \in Int
             /\ owed[<< c, q >>] >= Remembered(request_memo, c, q)
                                      + Remembered(request_memo_history, c, q)
  BY <1>1 DEF IInv, OwedCovers
<1>3. ASSUME UNCHANGED << owed, request_memo, request_memo_history >> PROVE OwedCovers'
  BY <1>2, <1>3 DEF OwedCovers, Remembered
<1>4. ASSUME NEW q \in Query, NEW c \in Client, NEW r, Ask(q, c, r) PROVE OwedCovers'
  <2>1. /\ request_memo' = [request_memo EXCEPT ![q] = c]
        /\ owed' = [owed EXCEPT ![<< c, q >>] = owed[<< c, q >>] + 1]
        /\ request_memo_history' = request_memo_history
    BY <1>4 DEF Ask
  <2> SUFFICES ASSUME NEW d \in Client, NEW p \in Query
               PROVE  owed'[<< d, p >>] >= Remembered(request_memo', d, p)
                                             + Remembered(request_memo_history', d, p)
    BY DEF OwedCovers
  <2>2. owed'[<< d, p >>] = IF d = c /\ p = q THEN owed[<< d, p >>] + 1 ELSE owed[<< d, p >>]
    BY <1>1, <2>1
  <2>3. request_memo'[p] = IF p = q THEN c ELSE request_memo[p]
    BY <1>1, <2>1
  <2> QED BY <1>2, <2>1, <2>2, <2>3 DEF Remembered
<1>5. ASSUME NEW q \in Query, NEW c \in Client, on_dns_udp_msg(q, c) PROVE OwedCovers'
  <2>1. CASE AskTunnel
    BY <1>3, <2>1 DEF AskTunnel
  <2>2. CASE request(q, c)
    BY <1>3, <1>4, <2>2 DEF request
  <2> QED BY <1>5, <2>1, <2>2 DEF on_dns_udp_msg
<1>6. ASSUME NEW q \in Query, on_resolver_udp_msg(q) PROVE OwedCovers'
  <2>1. /\ take(q)
        /\ owed' = IF Waiting(q) = NoClient \/ ~server THEN owed
                     ELSE [owed EXCEPT ![<< Waiting(q), q >>] = owed[<< Waiting(q), q >>] - 1]
    BY <1>6 DEF on_resolver_udp_msg
  <2> SUFFICES ASSUME NEW d \in Client, NEW p \in Query
               PROVE  owed'[<< d, p >>] >= Remembered(request_memo', d, p)
                                             + Remembered(request_memo_history', d, p)
    BY DEF OwedCovers
  <2>2. owed'[<< d, p >>] >= IF p = q /\ d = Waiting(q) THEN owed[<< d, p >>] - 1
                                                          ELSE owed[<< d, p >>]
    <3>1. Waiting(q) \in Client \cup {NoClient}
      BY <1>1 DEF Waiting
    <3>2. CASE Waiting(q) = NoClient \/ ~server
      BY <1>2, <2>1, <3>2
    <3>3. CASE ~(Waiting(q) = NoClient \/ ~server)
      BY <1>1, <1>2, <2>1, <3>1, <3>3
    <3> QED BY <3>2, <3>3
  <2>3. CASE request_memo_history[q] # NoClient
    <3>1. /\ request_memo' = request_memo
          /\ request_memo_history'[p] = IF p = q THEN NoClient ELSE request_memo_history[p]
          /\ Waiting(q) = request_memo_history[q]
      BY <1>1, <2>1, <2>3 DEF take, Waiting
    <3>2. owed'[<< d, p >>] \in Int
      BY <1>1, <1>2, <2>1
    <3> QED BY <1>1, <1>2, <2>2, <3>1, <3>2 DEF Remembered
  <2>4. CASE request_memo_history[q] = NoClient
    <3>1. /\ request_memo_history' = request_memo_history
          /\ request_memo'[p] = IF p = q THEN NoClient ELSE request_memo[p]
          /\ Waiting(q) = request_memo[q]
      BY <1>1, <2>1, <2>4 DEF take, Waiting
    <3>2. owed'[<< d, p >>] \in Int
      BY <1>1, <1>2, <2>1
    <3> QED BY <1>1, <1>2, <2>2, <3>1, <3>2 DEF Remembered
  <2> QED BY <2>3, <2>4
<1>7. CASE keepalive
  <2>1. /\ request_memo_history' = request_memo /\ request_memo' = NoMemo /\ owed' = owed
    BY <1>7 DEF keepalive, lresolver_keepalive
  <2>2. ASSUME NEW c \in Client, NEW q \in Query
        PROVE  Remembered(NoMemo, c, q) = 0 /\ Remembered(request_memo_history, c, q) >= 0
    BY <1>1 DEF Remembered, NoMemo
  <2> SUFFICES ASSUME NEW d \in Client, NEW p \in Query
               PROVE  owed'[<< d, p >>] >= Remembered(request_memo', d, p)
                                             + Remembered(request_memo_history', d, p)
    BY DEF OwedCovers
  <2>3. Remembered(request_memo, d, p) \in {0, 1}
    BY DEF Remembered
  <2>4. Remembered(request_memo_history, d, p) \in {0, 1}
    BY DEF Remembered
  <2> QED BY <1>2, <2>1, <2>2, <2>3, <2>4
<1>8. ASSUME NEW i \in Tun, TunnelNext(i) PROVE OwedCovers'
  BY <1>3, <1>8 DEF TunnelNext, on_tunnel_created, on_tunnel_build_error,
                    on_tunnel_closed, on_pong, on_tunnel_msg
<1>9. CASE \/ on_lresolver_udp_closed \/ ResolverPanics \/ on_dns_udp_closed \/ stop
           \/ UNCHANGED vars \/ \E l \in Lists : update_domains(l)
  BY <1>3, <1>9 DEF on_lresolver_udp_closed, ResolverPanics, on_dns_udp_closed, stop, vars,
                    update_domains
<1> QED BY <1>5, <1>6, <1>7, <1>8, <1>9 DEF Next, ResolverNext

\* The tree is rebuilt with the list, and touched by nothing else.
LEMMA DomapStep ==
    ASSUME IInv, [Next]_vars
    PROVE  DomapCurrent'
<1> USE DEF poolVars, memoVars, resVars
<1>1. ASSUME NEW l \in Lists, update_domains(l) PROVE DomapCurrent'
  BY <1>1 DEF update_domains, DomapCurrent, new_domap
<1>2. ASSUME UNCHANGED << list, domap >> PROVE DomapCurrent'
  BY <1>2 DEF IInv, DomapCurrent, new_domap
<1>3. ASSUME NEW i \in Tun, TunnelNext(i) PROVE DomapCurrent'
  BY <1>2, <1>3 DEF TunnelNext, on_tunnel_created, on_tunnel_build_error,
                    on_tunnel_closed, on_pong, on_tunnel_msg
<1>4. ASSUME NEW q \in Query, NEW c \in Client, on_dns_udp_msg(q, c) PROVE DomapCurrent'
  BY <1>2, <1>4 DEF on_dns_udp_msg
<1>5. CASE ResolverNext
  BY <1>2, <1>5 DEF ResolverNext, on_resolver_udp_msg, on_lresolver_udp_closed,
                    ResolverPanics
<1>6. CASE on_dns_udp_closed \/ keepalive \/ stop \/ UNCHANGED vars
  BY <1>2, <1>6 DEF on_dns_udp_closed, keepalive, stop, vars
<1> QED BY <1>1, <1>3, <1>4, <1>5, <1>6 DEF Next

\* The invariant holds in every state: the types, one place for every index of
\* the pool, an answer owed for every query that is remembered, and the tree of
\* the list given last.
THEOREM Invariance == Spec => []IInv
<1>1. Init => IInv
  BY InitIInv
<1>2. IInv /\ [Next]_vars => IInv'
  <2> SUFFICES ASSUME IInv, [Next]_vars PROVE IInv'
    OBVIOUS
  <2> QED BY TypeStep, OwnerStep, OwedStep, DomapStep DEF IInv
<1> QED BY <1>1, <1>2, PTL DEF Spec

\* No client gets more answers than it asked queries (LocalResolver::request, take
\* and keepalive), however queries are repeated, answers duplicated and
\* generations exchanged.
THEOREM AnswersAreOwed == Spec => []NoStray
<1>1. IInv => NoStray
  <2> SUFFICES ASSUME IInv, NEW c \in Client, NEW q \in Query
               PROVE  owed[<< c, q >>] >= 0
    BY DEF NoStray
  <2>1. /\ owed[<< c, q >>] >= Remembered(request_memo, c, q)
                                 + Remembered(request_memo_history, c, q)
        /\ owed[<< c, q >>] \in Int
    BY DEF IInv, OwedCovers, TypeOK
  <2> QED BY <2>1 DEF Remembered
<1> QED BY <1>1, Invariance, PTL

\* Whatever lists the cloud sends (Forwarder::update_domains), a name is asked
\* through a tunnel exactly if the list given last covers it.
THEOREM DomainsDecide == Spec => []DomapExact
<1>1. IInv => DomapExact
  BY Decides DEF IInv, TypeOK
<1> QED BY <1>1, Invariance, PTL

-----------------------------------------------------------------------------
(***************************************************************************)
(* The forwarder implements a Pool.  Under OneOwner the place of an index  *)
(* follows from building, tun and discarded.                               *)
(***************************************************************************)
Place(i) == IF building[i] = 1 THEN "attempt"
            ELSE IF Connected(i) THEN "up"
            ELSE IF discarded THEN "gone" ELSE "waiting"

LEMMA PlaceLemma ==
    ASSUME TypeOK, OneOwner, NEW i \in Tun
    PROVE  PoolPlace(i) = Place(i)
<1>1. /\ building[i] \in {0, 1} /\ Connected(i) \in BOOLEAN
      /\ ~(Connected(i) /\ building[i] = 1)
      /\ ~discarded => (Connected(i) <=> tun[i] # "none")
  <2>1. building[i] \in Nat /\ building[i] <= 1 /\ (building[i] = 1 => tun[i] = "none")
    BY DEF TypeOK, OneOwner
  <2>2. tun[i] \in {"none", "up", "shut", "crashed"}
    BY DEF TypeOK
  <2> QED BY <2>1, <2>2 DEF Connected
<1>2. Queued(i) # {} => ~Connected(i) /\ building[i] = 0
  BY QueuedOnce DEF Connected
<1>3. ~discarded => Connected(i) \/ building[i] = 1 \/ Queued(i) # {}
  BY <1>1 DEF OneOwner
<1>4. ~(building[i] > 1) /\ ~(Cardinality(Queued(i)) > 1)
  BY <1>1, QueuedOnce
<1>5. /\ "attempt" \in Owners(i) <=> building[i] = 1
      /\ "up" \in Owners(i) <=> Connected(i)
      /\ "waiting" \in Owners(i) <=> Queued(i) # {} /\ ~discarded
      /\ Owners(i) \subseteq {"attempt", "up", "waiting"}
  BY <1>1 DEF Owners
<1>6. ASSUME NEW o, Owners(i) = {o}
      PROVE  PoolPlace(i) = o
  <2>1. ~(Cardinality(Owners(i)) > 1) /\ Owners(i) # {}
    <3>1. Cardinality({o}) = 1 /\ {o} # {}
      BY FS_Singleton
    <3> QED BY <1>6, <3>1
  <2>2. PoolPlace(i) = CHOOSE p \in Owners(i) : TRUE
    BY <1>4, <2>1 DEF PoolPlace
  <2> QED BY <1>6, <2>2
<1>7. CASE building[i] = 1
  <2>1. Owners(i) = {"attempt"}
    BY <1>1, <1>2, <1>5, <1>7
  <2> QED BY <1>6, <1>7, <2>1 DEF Place
<1>8. CASE Connected(i)
  <2>1. Owners(i) = {"up"}
    BY <1>1, <1>2, <1>5, <1>8
  <2> QED BY <1>1, <1>6, <1>8, <2>1 DEF Place
<1>9. CASE building[i] = 0 /\ ~Connected(i) /\ ~discarded
  <2>1. Owners(i) = {"waiting"}
    BY <1>3, <1>5, <1>9
  <2> QED BY <1>6, <1>9, <2>1 DEF Place
<1>10. CASE building[i] = 0 /\ ~Connected(i) /\ discarded
  <2>1. Owners(i) = {}
    BY <1>5, <1>10
  <2> QED BY <1>10, <2>1 DEF Place, PoolPlace
<1> QED BY <1>1, <1>7, <1>8, <1>9, <1>10

\* The refinement mapping, before and after a step.
PlaceWhere == [i \in Tun |-> Place(i)]

LEMMA WhereLemma == IInv => PoolWhere = PlaceWhere
  BY PlaceLemma DEF IInv, PoolWhere, PlaceWhere

LEMMA WhereStep ==
    ASSUME IInv, IInv'
    PROVE  PoolWhere = PlaceWhere /\ PoolWhere' = PlaceWhere'
<1>1. (IInv => PoolWhere = PlaceWhere)'
  BY WhereLemma, PTL
<1> QED BY <1>1, WhereLemma

\* A step that moves at most the owner of index i.
LEMMA PlaceMoves ==
    ASSUME IInv, IInv', NEW i \in Tun, discarded' = discarded,
           \A j \in Tun : j # i => building'[j] = building[j] /\ tun'[j] = tun[j]
    PROVE  PoolWhere' = [PoolWhere EXCEPT ![i] = Place(i)']
<1>1. PoolWhere = PlaceWhere /\ PoolWhere' = PlaceWhere'
  BY WhereStep
<1>2. \A j \in Tun : j # i => Place(j)' = Place(j)
  BY DEF Place, Connected
<1> QED BY <1>1, <1>2 DEF PlaceWhere

\* Every step of the forwarder is a step of the Pool or none.
LEMMA PoolStep ==
    ASSUME IInv, IInv', [Next]_vars
    PROVE  [P!Next]_(P!vars)
<1> USE DEF poolVars, memoVars, resVars
<1>1. /\ PoolWhere = PlaceWhere /\ PoolWhere' = PlaceWhere'
      /\ building \in [Tun -> Nat] /\ tun \in [Tun -> {"none", "up", "shut", "crashed"}]
      /\ \A i \in Tun : PoolWhere[i] = Place(i)
  BY WhereStep DEF IInv, TypeOK, PlaceWhere
<1>2. \A i \in Tun : building[i] > 0 => building[i] = 1 /\ tun[i] = "none"
  BY <1>1 DEF IInv, OneOwner
<1>3. ASSUME NEW i \in Tun, on_tunnel_created(i) \/ on_tunnel_build_error(i)
      PROVE  P!AttemptEnds(i)
  <2>1. /\ building[i] = 1 /\ tun[i] = "none" /\ discarded' = discarded
        /\ building' = [building EXCEPT ![i] = 0]
        /\ \/ tun' = tun
           \/ ~discarded /\ tun' = [tun EXCEPT ![i] = "up"]
    <3>1. /\ building[i] > 0 /\ building' = [building EXCEPT ![i] = building[i] - 1]
          /\ discarded' = discarded
          /\ \/ tun' = tun
             \/ ~discarded /\ tun' = [tun EXCEPT ![i] = "up"]
      BY <1>3 DEF on_tunnel_created, on_tunnel_build_error
    <3>2. building[i] = 1 /\ tun[i] = "none" /\ building[i] - 1 = 0
      BY <1>2, <3>1
    <3> QED BY <3>1, <3>2
  <2>2. PoolWhere' = [PoolWhere EXCEPT ![i] = Place(i)']
    BY <1>1, <2>1, PlaceMoves
  <2>3. Place(i) = "attempt"
    BY <2>1 DEF Place
  <2>4. \/ Place(i)' = IF discarded THEN "gone" ELSE "waiting"
        \/ ~discarded /\ Place(i)' = "up"
    BY <1>1, <2>1 DEF Place, Connected
  <2> QED BY <1>1, <2>1, <2>2, <2>3, <2>4 DEF P!AttemptEnds, P!Rest
<1>4. ASSUME NEW i \in Tun, on_tunnel_closed(i)
      PROVE  P!Lose(i)
  <2>1. /\ tun[i] \in {"up", "shut"} /\ tun' = [tun EXCEPT ![i] = "none"]
        /\ UNCHANGED << building, discarded >>
    BY <1>4 DEF on_tunnel_closed
  <2>2. building[i] # 1
    BY <1>2, <2>1
  <2>3. PoolWhere' = [PoolWhere EXCEPT ![i] = Place(i)']
    BY <1>1, <2>1, PlaceMoves
  <2>4. Place(i) = "up" /\ Place(i)' = IF discarded THEN "gone" ELSE "waiting"
    BY <1>1, <2>1, <2>2 DEF Place, Connected
  <2> QED BY <1>1, <2>1, <2>3, <2>4 DEF P!Lose, P!Rest
<1>5. ASSUME NEW i \in Tun, on_tunnel_msg(i)
      PROVE  P!Lose(i) \/ UNCHANGED P!vars
  <2>1. /\ tun[i] \in {"up", "shut"} /\ UNCHANGED << building, discarded >>
        /\ \/ tun' = tun
           \/ tun' = [tun EXCEPT ![i] = "crashed"]
    BY <1>5 DEF on_tunnel_msg
  <2>2. building[i] # 1
    BY <1>2, <2>1
  <2>3. PoolWhere' = [PoolWhere EXCEPT ![i] = Place(i)']
    BY <1>1, <2>1, PlaceMoves
  <2>4. Place(i) = "up"
    BY <2>1, <2>2 DEF Place, Connected
  <2>5. Place(i)' = "up" \/ (discarded /\ Place(i)' = "gone")
    BY <1>1, <2>1, <2>2 DEF Place, Connected
  <2>6. PoolWhere = [PoolWhere EXCEPT ![i] = Place(i)]
    BY <1>1 DEF PlaceWhere
  <2>7. CASE Place(i)' = "up"
    BY <2>1, <2>3, <2>4, <2>6, <2>7 DEF P!vars
  <2>8. CASE discarded /\ Place(i)' = "gone"
    BY <1>1, <2>1, <2>3, <2>4, <2>8 DEF P!Lose, P!Rest
  <2> QED BY <2>5, <2>7, <2>8
<1>6. ASSUME UNCHANGED << building, tun, discarded >>
      PROVE  UNCHANGED P!vars
  BY <1>1, <1>6 DEF P!vars, PlaceWhere, Place, Connected
<1>7. CASE keepalive
  <2>1. ~discarded /\ discarded' = discarded
    BY <1>7 DEF keepalive
  <2>2. \A i \in Tun : Place(i)' = IF Place(i) = "waiting" THEN "attempt" ELSE Place(i)
    <3>1. TAKE i \in Tun
    <3>2. building'[i] = building[i] + Cardinality(Queued(i))
      BY <1>7 DEF keepalive, process_reconnect
    <3>3. /\ Cardinality(Queued(i)) \in {0, 1}
          /\ Cardinality(Queued(i)) = 0 <=> Queued(i) = {}
          /\ Queued(i) # {} => tun[i] = "none" /\ building[i] = 0
      BY QueuedOnce DEF IInv
    <3>4. tun[i] # "none" \/ building[i] = 1 \/ Queued(i) # {}
      BY <2>1 DEF IInv, OneOwner
    <3>5. /\ tun[i] \in {"none", "up", "shut", "crashed"} /\ building[i] \in Nat
          /\ building[i] > 0 => building[i] = 1 /\ tun[i] = "none"
      BY <1>1, <1>2
    <3>6. Connected(i) <=> tun[i] # "none"
      BY <2>1, <3>5 DEF Connected
    <3>7. /\ tun'[i] \in {"none", "up", "shut", "crashed"}
          /\ tun'[i] = "none" <=> tun[i] = "none"
      BY <1>1, <1>7, <3>5 DEF keepalive, send_pings
    <3>8. Connected(i)' <=> tun[i] # "none"
      BY <2>1, <3>7 DEF Connected
    <3>9. CASE tun[i] # "none"
      <4>1. building[i] = 0 /\ building'[i] = 0
        BY <3>2, <3>3, <3>5, <3>9
      <4> QED BY <3>6, <3>8, <3>9, <4>1 DEF Place
    <3>10. CASE tun[i] = "none" /\ building[i] = 1
      <4>1. building'[i] = 1
        BY <3>2, <3>3, <3>10
      <4> QED BY <3>10, <4>1 DEF Place
    <3>11. CASE tun[i] = "none" /\ building[i] # 1
      <4>1. building[i] = 0 /\ Cardinality(Queued(i)) = 1
        BY <3>3, <3>4, <3>5, <3>11
      <4>2. building'[i] = 1
        BY <3>2, <4>1
      <4> QED BY <2>1, <3>6, <3>11, <4>1, <4>2 DEF Place
    <3> QED BY <3>9, <3>10, <3>11
  <2>3. P!Retry
    BY <1>1, <2>1, <2>2 DEF P!Retry, PlaceWhere
  <2> QED BY <2>3 DEF P!Next
<1>8. CASE stop
  <2>1. /\ ~discarded /\ discarded' = TRUE /\ UNCHANGED building
        /\ \A i \in Tun : tun'[i] = IF tun[i] = "up" THEN "shut" ELSE tun[i]
    BY <1>8 DEF stop
  <2> DEFINE dead == {i \in Tun : tun[i] = "crashed"}
  <2>2. dead \in SUBSET {i \in Tun : PoolWhere[i] = "up"}
    <3>1. \A i \in dead : building[i] # 1 /\ Connected(i)
      BY <1>2, <2>1 DEF Connected
    <3> QED BY <1>1, <3>1 DEF Place
  <2>3. \A i \in Tun : Place(i)' = IF Place(i) = "waiting" \/ i \in dead THEN "gone"
                                                                       ELSE Place(i)
    <3>1. TAKE i \in Tun
    <3>2. tun[i] \in {"none", "up", "shut", "crashed"} /\ (building[i] = 1 => tun[i] = "none")
      BY <1>1, <1>2
    <3>3. Connected(i) <=> tun[i] # "none"
      BY <2>1, <3>2 DEF Connected
    <3>4. Connected(i)' <=> tun[i] \in {"up", "shut"}
      BY <2>1, <3>2 DEF Connected
    <3> QED BY <2>1, <3>2, <3>3, <3>4 DEF Place
  <2> HIDE DEF dead
  <2>4. PoolWhere' = [i \in Tun |-> IF PoolWhere[i] = "waiting" \/ i \in dead
                                      THEN "gone" ELSE PoolWhere[i]]
    BY <1>1, <2>3 DEF PlaceWhere
  <2>5. P!Stop
    BY <2>1, <2>2, <2>4 DEF P!Stop
  <2> QED BY <2>5 DEF P!Next
<1>9. ASSUME NEW i \in Tun, TunnelNext(i)
      PROVE  [P!Next]_(P!vars)
  <2>1. CASE on_pong(i)
    <3>1. UNCHANGED << building, tun, discarded >>
      BY <2>1 DEF on_pong
    <3> QED BY <1>6, <3>1
  <2> QED BY <1>3, <1>4, <1>5, <1>9, <2>1 DEF TunnelNext, P!Next
<1>10. ASSUME NEW q \in Query, NEW c \in Client, on_dns_udp_msg(q, c)
       PROVE  UNCHANGED P!vars
  <2>1. UNCHANGED << building, tun, discarded >>
    BY <1>10 DEF on_dns_udp_msg, AskTunnel, request, Ask
  <2> QED BY <1>6, <2>1
<1>11. CASE ResolverNext \/ on_dns_udp_closed \/ UNCHANGED vars
            \/ \E l \in Lists : update_domains(l)
  <2>1. UNCHANGED << building, tun, discarded >>
    BY <1>11 DEF ResolverNext, on_resolver_udp_msg, on_lresolver_udp_closed, ResolverPanics,
                 on_dns_udp_closed, vars, update_domains
  <2> QED BY <1>6, <2>1
<1> QED BY <1>7, <1>8, <1>9, <1>10, <1>11 DEF Next

\* The forwarder implements a Pool of DNS tunnels (on_tunnel_created,
\* on_tunnel_closed, process_reconnect and stop): none is connected twice or lost
\* to reconnection, and none is taken after the stop.
THEOREM PoolImplemented == Spec => ImplementsPool
<1>1. Init => P!Init
  <2> SUFFICES ASSUME Init PROVE P!Init
    OBVIOUS
  <2>1. PoolWhere = PlaceWhere
    BY InitIInv, WhereLemma
  <2>2. \A i \in Tun : Place(i) = "attempt"
    BY DEF Init, Place
  <2> QED BY <2>1, <2>2 DEF Init, P!Init, PlaceWhere
<1>2. IInv /\ IInv' /\ [Next]_vars => [P!Next]_(P!vars)
  BY PoolStep
<1> QED BY <1>1, <1>2, Invariance, PTL DEF Spec, P!Spec, ImplementsPool

=============================================================================
