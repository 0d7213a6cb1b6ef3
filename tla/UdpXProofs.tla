----------------------------- MODULE UdpXProofs -----------------------------
(***************************************************************************)
(* Proofs about UdpX, for any set of addresses, stubs and file             *)
(* descriptors.                                                            *)
(*                                                                         *)
(* IInv is inductive.  CacheSound needs nothing but the types: it says     *)
(* which stub is at which address, so that the newer stub that the end of  *)
(* an old one removes is the one whose trigger the same step drops.  The   *)
(* ownership of file descriptors rests on the cache closing only numbers   *)
(* of stubs that were not cleaned up before.                               *)
(***************************************************************************)
EXTENDS UdpX, TLAPS

\* The process starts with an empty cache and nothing but the servers.
LEMMA InitIInv == Init => IInv
<1> SUFFICES ASSUME Init PROVE IInv
  OBVIOUS
<1>1. Gone \in StubType /\ ~Gone.task /\ ~Gone.cleaned
  BY UdpXAssumption DEF Gone, StubType
<1>2. TypeOK
  BY <1>1 DEF Init, TypeOK
<1>3. CacheSound
  <2>1. {entries[a] : a \in Addr} \ {NoStub} = {}
    BY DEF Init
  <2> QED BY <1>1, <2>1, UdpXAssumption DEF Init, CacheSound
<1> QED BY <1>1, <1>2, <1>3 DEF Init, IInv, OwnSocket

\* What CacheSound says of the stub of an address and of the members of
\* expirations.
LEMMA Cached ==
    ASSUME TypeOK, CacheSound
    PROVE  /\ \A a \in Addr : entries[a] # NoStub =>
                /\ entries[a] \in Stub /\ entries[a] \in expirations
                /\ stub[entries[a]].task /\ stub[entries[a]].addr = a
                /\ ~stub[entries[a]].tripped
           /\ \A s \in expirations :
                s \in Stub /\ stub[s].addr \in Addr /\ entries[stub[s].addr] = s
           /\ NoStub \notin expirations
<1>1. ASSUME NEW a \in Addr, entries[a] # NoStub
      PROVE  /\ entries[a] \in Stub /\ entries[a] \in expirations
             /\ stub[entries[a]].task /\ stub[entries[a]].addr = a
             /\ ~stub[entries[a]].tripped
  <2>1. entries[a] \in Stub
    BY <1>1 DEF TypeOK
  <2>2. entries[a] \in expirations
    BY <1>1 DEF CacheSound
  <2> QED BY <2>1, <2>2 DEF CacheSound
<1>2. ASSUME NEW s \in expirations
      PROVE  s \in Stub /\ stub[s].addr \in Addr /\ entries[stub[s].addr] = s
  <2>1. PICK a \in Addr : entries[a] = s
    BY DEF CacheSound
  <2>2. s \in Stub
    BY DEF TypeOK
  <2> QED BY <2>1, <2>2 DEF CacheSound
<1>3. NoStub \notin expirations
  BY DEF CacheSound
<1> QED BY <1>1, <1>2, <1>3

\* Numbers of file descriptors that are closed stay numbers.
LEMMA CloseType ==
    ASSUME TypeOK, NEW pairs, Close(pairs)
    PROVE  owner' \in [Fd -> Stub \cup {Free, Other}] /\ stray' \in BOOLEAN
  BY DEF Close, TypeOK

\* A packet for an address without a stub: the new stub gets a number that
\* nobody owned.
LEMMA BuildStep ==
    ASSUME IInv, NEW a \in Addr, NEW s \in Stub, NEW f \in Fd, BuildStub(a, s, f)
    PROVE  IInv'
<1> DEFINE n == [task |-> TRUE, addr |-> a, fd |-> f, tripped |-> FALSE,
                 cleaned |-> FALSE, fresh |-> TRUE]
<1>1. /\ entries[a] = NoStub /\ ~stub[s].task /\ owner[f] = Free
      /\ owner' = [owner EXCEPT ![f] = s]
      /\ stub' = [stub EXCEPT ![s] = n]
      /\ entries' = [entries EXCEPT ![a] = s]
      /\ expirations' = expirations \cup {s}
      /\ is_in_keepalive' = TRUE
      /\ UNCHANGED << stopped, servers, others, stray >>
  BY DEF BuildStub, Lowest, insert
<1>2. TypeOK /\ CacheSound /\ OwnSocket
  BY DEF IInv
<1>3. n \in StubType
  BY DEF StubType
<1>4. stub'[s] = n /\ \A t \in Stub : t # s => stub'[t] = stub[t]
  BY <1>1, <1>2 DEF TypeOK
<1>5. entries'[a] = s /\ \A b \in Addr : b # a => entries'[b] = entries[b]
  BY <1>1, <1>2 DEF TypeOK
<1>6. TypeOK'
  <2> HIDE DEF n
  <2> QED BY <1>1, <1>2, <1>3 DEF TypeOK
<1>7. CacheSound'
  <2>1. \A b \in Addr : entries[b] # s
    BY <1>1, <1>2 DEF CacheSound
  <2>2. \A t \in expirations' : t # NoStub /\ \E b \in Addr : entries'[b] = t
    <3>1. TAKE t \in expirations'
    <3>2. CASE t = s
      BY <1>5, <3>2, UdpXAssumption
    <3>3. CASE t # s
      <4>1. t \in expirations
        BY <1>1, <3>3
      <4>2. t # NoStub /\ stub[t].addr \in Addr /\ entries[stub[t].addr] = t
        BY <1>2, <4>1, Cached
      <4>3. stub[t].addr # a
        BY <1>1, <4>2
      <4> QED BY <1>5, <4>2, <4>3
    <3> QED BY <3>2, <3>3
  <2>3. \A b \in Addr : entries'[b] # NoStub => entries'[b] \in expirations'
    BY <1>1, <1>2, <1>5, Cached
  <2>4. ASSUME NEW b \in Addr, NEW t \in Stub
        PROVE  entries'[b] = t <=> stub'[t].task /\ stub'[t].addr = b /\ ~stub'[t].tripped
    <3>1. CASE t = s
      BY <1>4, <1>5, <2>1, <3>1
    <3>2. CASE t # s
      <4>1. entries[a] # t
        BY <1>1, UdpXAssumption
      <4>2. entries'[b] = t <=> entries[b] = t
        BY <1>5, <3>2, <4>1
      <4> QED BY <1>2, <1>4, <3>2, <4>2 DEF CacheSound
    <3> QED BY <3>1, <3>2
  <2>5. entries' \in [Addr -> Stub \cup {NoStub}] /\ is_in_keepalive'
    BY <1>1, <1>6 DEF TypeOK
  <2>6. expirations' = {entries'[b] : b \in Addr} \ {NoStub}
    BY <2>2, <2>3
  <2> QED BY <2>4, <2>5, <2>6 DEF CacheSound
<1>8. \A t \in Stub : stub'[t].cleaned => stub'[t].tripped
  BY <1>4 DEF IInv
<1>9. OwnSocket'
  <2> SUFFICES ASSUME ~stray, NEW t \in Stub, stub'[t].task
               PROVE  owner'[stub'[t].fd] = t \/ stub'[t].cleaned
    BY <1>1 DEF OwnSocket
  <2>1. CASE t = s
    BY <1>1, <1>2, <1>4, <2>1 DEF TypeOK
  <2>2. CASE t # s
    <3>1. owner[stub[t].fd] = t \/ stub[t].cleaned
      BY <1>2, <1>4, <2>2 DEF OwnSocket
    <3>2. owner[stub[t].fd] = t => stub[t].fd # f
      BY <1>1, UdpXAssumption
    <3>3. stub[t].fd \in Fd
      BY <1>2 DEF TypeOK, StubType
    <3> QED BY <1>1, <1>2, <1>4, <2>2, <3>1, <3>2, <3>3 DEF TypeOK
  <2> QED BY <2>1, <2>2
<1>10. ~stray' => \A g \in others' : owner'[g] = Other
  BY <1>1, <1>2, UdpXAssumption DEF IInv, TypeOK
<1> QED BY <1>6, <1>7, <1>8, <1>9, <1>10 DEF IInv

\* Closing the numbers of some stubs, and closing one number.
LEMMA CloseStubs ==
    ASSUME NEW stubs, Close({<< stub[s].fd, s >> : s \in stubs})
    PROVE  /\ owner' = [g \in Fd |-> IF \E s \in stubs : stub[s].fd = g THEN Free ELSE owner[g]]
           /\ stray' = (stray \/ \E s \in stubs : owner[stub[s].fd] \notin {Free, s})
<1> DEFINE pairs == {<< stub[s].fd, s >> : s \in stubs}
<1>0. /\ \A p \in pairs : \E s \in stubs : p[1] = stub[s].fd /\ p[2] = s
      /\ \A s \in stubs : \E p \in pairs : p[1] = stub[s].fd /\ p[2] = s
  <2>1. ASSUME NEW p \in pairs
        PROVE  \E s \in stubs : p[1] = stub[s].fd /\ p[2] = s
    <3>1. PICK s \in stubs : p = << stub[s].fd, s >>
      OBVIOUS
    <3>2. p[1] = stub[s].fd /\ p[2] = s
      BY <3>1
    <3> QED BY <3>2
  <2>2. ASSUME NEW s \in stubs
        PROVE  \E p \in pairs : p[1] = stub[s].fd /\ p[2] = s
    <3> DEFINE p == << stub[s].fd, s >>
    <3>1. p \in pairs
      OBVIOUS
    <3>2. p[1] = stub[s].fd /\ p[2] = s
      OBVIOUS
    <3> HIDE DEF p, pairs
    <3> QED BY <3>1, <3>2
  <2> QED BY <2>1, <2>2
<1>3. Close(pairs)
  OBVIOUS
<1> HIDE DEF pairs
<1>1. \A g : (\E p \in pairs : p[1] = g) <=> (\E s \in stubs : stub[s].fd = g)
  BY <1>0
<1>2. (\E p \in pairs : owner[p[1]] \notin {Free, p[2]})
        <=> (\E s \in stubs : owner[stub[s].fd] \notin {Free, s})
  <2>1. \A p \in pairs : \E s \in stubs : owner[p[1]] = owner[stub[s].fd] /\ p[2] = s
    BY <1>0
  <2>2. \A s \in stubs : \E p \in pairs : owner[p[1]] = owner[stub[s].fd] /\ p[2] = s
    BY <1>0
  <2> QED BY <2>1, <2>2
<1>4. owner' = [g \in Fd |-> IF \E p \in pairs : p[1] = g THEN Free ELSE owner[g]]
  BY <1>3 DEF Close
<1>5. owner' = [g \in Fd |-> IF \E s \in stubs : stub[s].fd = g THEN Free ELSE owner[g]]
  BY <1>1, <1>4
<1>6. stray' = (stray \/ \E p \in pairs : owner[p[1]] \notin {Free, p[2]})
  BY <1>3 DEF Close
<1>7. stray' = (stray \/ \E s \in stubs : owner[stub[s].fd] \notin {Free, s})
  BY <1>2, <1>6
<1> QED BY <1>5, <1>7

LEMMA CloseOne ==
    ASSUME NEW f, NEW w, Close({<< f, w >>})
    PROVE  /\ owner' = [g \in Fd |-> IF g = f THEN Free ELSE owner[g]]
           /\ stray' = (stray \/ owner[f] \notin {Free, w})
<1>1. owner' = [g \in Fd |-> IF \E p \in {<< f, w >>} : p[1] = g THEN Free ELSE owner[g]]
  BY DEF Close
<1>2. \A g : (\E p \in {<< f, w >>} : p[1] = g) <=> g = f
  OBVIOUS
<1>3. stray' = (stray \/ \E p \in {<< f, w >>} : owner[p[1]] \notin {Free, p[2]})
  BY DEF Close
<1>4. (\E p \in {<< f, w >>} : owner[p[1]] \notin {Free, p[2]}) <=> owner[f] \notin {Free, w}
  OBVIOUS
<1> QED BY <1>1, <1>2, <1>3, <1>4

\* As long as no number is closed that was not its closer's, closing the numbers
\* of some stubs takes nothing from the others and from the rest of the process.
LEMMA CloseKeeps ==
    ASSUME IInv, NEW stubs \in SUBSET Stub, Close({<< stub[s].fd, s >> : s \in stubs}), ~stray'
    PROVE  /\ \A t \in Stub : stub[t].task /\ t \notin stubs
                => owner'[stub[t].fd] = t \/ stub[t].cleaned
           /\ \A f \in others : owner'[f] = Other
<1>1. /\ owner' = [g \in Fd |-> IF \E s \in stubs : stub[s].fd = g THEN Free ELSE owner[g]]
      /\ stray' = (stray \/ \E s \in stubs : owner[stub[s].fd] \notin {Free, s})
  BY CloseStubs
<1>2. TypeOK /\ OwnSocket /\ ~stray /\ \A s \in stubs : owner[stub[s].fd] \in {Free, s}
  BY <1>1 DEF IInv
<1>3. ASSUME NEW t \in Stub, stub[t].task, t \notin stubs
      PROVE  owner'[stub[t].fd] = t \/ stub[t].cleaned
  <2>1. owner[stub[t].fd] = t \/ stub[t].cleaned
    BY <1>2, <1>3 DEF OwnSocket
  <2>2. owner[stub[t].fd] = t => \A s \in stubs : stub[s].fd # stub[t].fd
    BY <1>2, <1>3, UdpXAssumption
  <2>3. stub[t].fd \in Fd
    BY <1>2 DEF TypeOK, StubType
  <2> QED BY <1>1, <2>1, <2>2, <2>3
<1>4. ASSUME NEW f \in others
      PROVE  owner'[f] = Other
  <2>1. owner[f] = Other /\ f \in Fd
    BY <1>2 DEF IInv, TypeOK
  <2>2. \A s \in stubs : stub[s].fd # f
    BY <1>2, <2>1, UdpXAssumption
  <2> QED BY <1>1, <2>1, <2>2
<1> QED BY <1>3, <1>4

\* The cache closes numbers of its own stubs, none of which was cleaned up
\* before: it takes nothing from anybody.
LEMMA CleanupOwn ==
    ASSUME IInv, NEW stubs \in SUBSET expirations,
           Close({<< stub[s].fd, s >> : s \in stubs}), stray'
    PROVE  stray
<1>1. \A s \in stubs : s \in Stub /\ stub[s].task /\ ~stub[s].tripped
  <2>1. TypeOK /\ CacheSound
    BY DEF IInv
  <2>2. TAKE s \in stubs
  <2>3. s \in Stub /\ stub[s].addr \in Addr /\ entries[stub[s].addr] = s
    BY <2>1, Cached
  <2> QED BY <2>1, <2>3 DEF CacheSound
<1>2. ~stray => \A s \in stubs : owner[stub[s].fd] = s
  BY <1>1 DEF IInv, OwnSocket
<1> QED BY <1>2, CloseStubs

\* Cleaning up some stubs of the cache.
LEMMA CleanupFrame ==
    ASSUME IInv, NEW stubs \in SUBSET Stub, Cleanup(stubs), others' = others
    PROVE  /\ stub' \in [Stub -> StubType]
           /\ owner' \in [Fd -> Stub \cup {Free, Other}] /\ stray' \in BOOLEAN
           /\ \A t \in Stub : /\ stub'[t].task = stub[t].task /\ stub'[t].addr = stub[t].addr
                              /\ stub'[t].fd = stub[t].fd
                              /\ stub'[t].tripped = (t \in stubs \/ stub[t].tripped)
                              /\ stub'[t].cleaned = (t \in stubs \/ stub[t].cleaned)
           /\ OwnSocket'
           /\ \A t \in Stub : stub'[t].cleaned => stub'[t].tripped
           /\ ~stray' => \A f \in others' : owner'[f] = Other
<1>1. /\ Close({<< stub[s].fd, s >> : s \in stubs})
      /\ stub' = [s \in Stub |-> IF s \in stubs
                                   THEN [stub[s] EXCEPT !.tripped = TRUE, !.cleaned = TRUE,
                                                        !.fresh = FALSE]
                                   ELSE stub[s]]
  BY DEF Cleanup
<1>2. TypeOK /\ stub \in [Stub -> StubType]
  BY DEF IInv, TypeOK
<1>3. ASSUME NEW t \in Stub
      PROVE  /\ stub'[t] \in StubType
             /\ stub'[t].task = stub[t].task /\ stub'[t].addr = stub[t].addr
             /\ stub'[t].fd = stub[t].fd
             /\ stub'[t].tripped = (t \in stubs \/ stub[t].tripped)
             /\ stub'[t].cleaned = (t \in stubs \/ stub[t].cleaned)
  <2>1. CASE t \in stubs
    BY <1>1, <1>2, <2>1 DEF StubType
  <2>2. CASE t \notin stubs
    <3>1. stub'[t] = stub[t] /\ stub[t] \in StubType
      BY <1>1, <1>2, <2>2
    <3> QED BY <2>2, <3>1 DEF StubType
  <2> QED BY <2>1, <2>2
<1>4. stub' \in [Stub -> StubType]
  BY <1>1, <1>3
<1>5. OwnSocket'
  <2> SUFFICES ASSUME ~stray', NEW t \in Stub, stub'[t].task
               PROVE  owner'[stub'[t].fd] = t \/ stub'[t].cleaned
    BY DEF OwnSocket
  <2>1. CASE t \in stubs
    BY <1>3, <2>1
  <2>2. CASE t \notin stubs
    BY <1>1, <1>3, <2>2, CloseKeeps
  <2> QED BY <2>1, <2>2
<1>6. \A t \in Stub : stub'[t].cleaned => stub'[t].tripped
  BY <1>3 DEF IInv
<1>7. ~stray' => \A f \in others' : owner'[f] = Other
  BY <1>1, CloseKeeps
<1> QED BY <1>1, <1>2, <1>3, <1>4, <1>5, <1>6, <1>7, CloseType

\* poll_purge takes a stub out of the cache and cleans it up.
LEMMA PurgeStep ==
    ASSUME IInv, NEW s \in Stub, Purge(s)
    PROVE  IInv'
<1> DEFINE a == stub[s].addr
<1>1. /\ is_in_keepalive /\ s \in expirations
      /\ expirations' = expirations \ {s}
      /\ entries' = [entries EXCEPT ![a] = NoStub]
      /\ Cleanup({entries[a]} \ {NoStub})
      /\ UNCHANGED << stopped, servers, is_in_keepalive, others >>
  BY DEF Purge
<1>2. TypeOK /\ CacheSound
  BY DEF IInv
<1>3. a \in Addr /\ entries[a] = s /\ s # NoStub
  BY <1>1, <1>2, Cached
<1>4. Cleanup({s})
  <2>1. {entries[a]} \ {NoStub} = {s}
    BY <1>3
  <2> QED BY <1>1, <2>1
<1>5. /\ stub' \in [Stub -> StubType]
      /\ owner' \in [Fd -> Stub \cup {Free, Other}] /\ stray' \in BOOLEAN
      /\ \A t \in Stub : /\ stub'[t].task = stub[t].task /\ stub'[t].addr = stub[t].addr
                         /\ stub'[t].tripped = (t = s \/ stub[t].tripped)
      /\ OwnSocket'
      /\ \A t \in Stub : stub'[t].cleaned => stub'[t].tripped
      /\ ~stray' => \A f \in others' : owner'[f] = Other
  <2>1. {s} \in SUBSET Stub /\ \A t : t \in {s} <=> t = s
    OBVIOUS
  <2> QED BY <1>1, <1>4, <2>1, CleanupFrame
<1> HIDE DEF a
<1>6. TypeOK'
  BY <1>1, <1>2, <1>3, <1>5 DEF TypeOK
<1>7. entries'[a] = NoStub /\ \A b \in Addr : b # a => entries'[b] = entries[b]
  BY <1>1, <1>2, <1>3 DEF TypeOK
<1>8. \A b \in Addr : b # a => entries[b] # s
  BY <1>2, <1>3, Cached
<1>9. expirations' = {entries'[b] : b \in Addr} \ {NoStub}
  <2>1. \A t \in expirations' : t # NoStub /\ \E b \in Addr : entries'[b] = t
    <3>1. TAKE t \in expirations'
    <3>2. t # s /\ t \in expirations
      BY <1>1
    <3>3. t # NoStub /\ stub[t].addr \in Addr /\ entries[stub[t].addr] = t
      BY <1>2, <3>2, Cached
    <3> QED BY <1>3, <1>7, <3>2, <3>3
  <2>2. \A b \in Addr : entries'[b] # NoStub => entries'[b] \in expirations'
    <3>1. TAKE b \in Addr
    <3>2. HAVE entries'[b] # NoStub
    <3>3. b # a /\ entries'[b] = entries[b] /\ entries[b] # s
      BY <1>7, <1>8, <3>2
    <3>4. entries[b] \in expirations
      BY <1>2, <3>2, <3>3, Cached
    <3> QED BY <1>1, <3>3, <3>4
  <2> QED BY <2>1, <2>2
<1>10. ASSUME NEW b \in Addr, NEW t \in Stub
       PROVE  entries'[b] = t <=> stub'[t].task /\ stub'[t].addr = b /\ ~stub'[t].tripped
  <2>1. entries[b] = t <=> stub[t].task /\ stub[t].addr = b /\ ~stub[t].tripped
    BY <1>2 DEF CacheSound
  <2>2. stub'[s].tripped
    BY <1>5
  <2>3. CASE t = s
    BY <1>3, <1>7, <1>8, <2>2, <2>3
  <2>4. CASE t # s
    <3>1. entries'[b] = t <=> entries[b] = t
      BY <1>3, <1>7, <2>4, UdpXAssumption
    <3>2. stub'[t].tripped <=> stub[t].tripped
      BY <1>5, <2>4
    <3> QED BY <1>5, <2>1, <3>1, <3>2
  <2> QED BY <2>3, <2>4
<1>11. CacheSound'
  BY <1>1, <1>9, <1>10 DEF CacheSound
<1> QED BY <1>5, <1>6, <1>11 DEF IInv

\* The task of a stub ends; whatever stub its address has is dropped with it.
LEMMA StubEndsStep ==
    ASSUME IInv, NEW s \in Stub, StubEnds(s)
    PROVE  IInv'
<1> DEFINE a == stub[s].addr
<1>1. /\ stub[s].task
      /\ Close({<< stub[s].fd, s >>})
      /\ entries' = [entries EXCEPT ![a] = NoStub]
      /\ expirations' = expirations \ {entries[a]}
      /\ stub' = [t \in Stub |-> IF t = s THEN Gone
                                 ELSE IF t = entries[a]
                                   THEN [stub[t] EXCEPT !.tripped = TRUE, !.fresh = FALSE]
                                 ELSE stub[t]]
      /\ UNCHANGED << stopped, servers, is_in_keepalive, others >>
  BY DEF StubEnds, remove, Dropped
<1>2. TypeOK /\ CacheSound /\ OwnSocket
  BY DEF IInv
<1>3. a \in Addr
  BY <1>2 DEF TypeOK, StubType
<1>4. Gone \in StubType /\ ~Gone.task /\ ~Gone.cleaned
  BY UdpXAssumption DEF Gone, StubType
<1> HIDE DEF a
<1>5. /\ stub'[s] = Gone
      /\ \A t \in Stub : t # s =>
           /\ stub'[t] \in StubType
           /\ stub'[t].task = stub[t].task /\ stub'[t].addr = stub[t].addr
           /\ stub'[t].fd = stub[t].fd /\ stub'[t].cleaned = stub[t].cleaned
           /\ stub'[t].tripped = (t = entries[a] \/ stub[t].tripped)
  <2>1. stub'[s] = Gone
    BY <1>1
  <2>2. ASSUME NEW t \in Stub, t # s
        PROVE  /\ stub'[t] \in StubType
               /\ stub'[t].task = stub[t].task /\ stub'[t].addr = stub[t].addr
               /\ stub'[t].fd = stub[t].fd /\ stub'[t].cleaned = stub[t].cleaned
               /\ stub'[t].tripped = (t = entries[a] \/ stub[t].tripped)
    <3>1. stub[t] \in StubType
      BY <1>2 DEF TypeOK
    <3>2. CASE t = entries[a]
      <4>1. stub'[t] = [stub[t] EXCEPT !.tripped = TRUE, !.fresh = FALSE]
        BY <1>1, <2>2, <3>2
      <4> QED BY <3>1, <3>2, <4>1 DEF StubType
    <3>3. CASE t # entries[a]
      <4>1. stub'[t] = stub[t]
        BY <1>1, <2>2, <3>3
      <4> QED BY <3>1, <3>3, <4>1 DEF StubType
    <3> QED BY <3>2, <3>3
  <2> QED BY <2>1, <2>2
<1>6. stub' \in [Stub -> StubType]
  <2>1. \A t \in Stub : stub'[t] \in StubType
    BY <1>4, <1>5
  <2> QED BY <1>1, <2>1
<1>7. TypeOK'
  BY <1>1, <1>2, <1>3, <1>6, CloseType DEF TypeOK
<1>8. entries'[a] = NoStub /\ \A b \in Addr : b # a => entries'[b] = entries[b]
  BY <1>1, <1>2, <1>3 DEF TypeOK
<1>9. expirations' = {entries'[b] : b \in Addr} \ {NoStub}
  <2>1. \A t \in expirations' : t # NoStub /\ \E b \in Addr : entries'[b] = t
    <3>1. TAKE t \in expirations'
    <3>2. t # entries[a] /\ t \in expirations
      BY <1>1
    <3>3. t # NoStub /\ stub[t].addr \in Addr /\ entries[stub[t].addr] = t
      BY <1>2, <3>2, Cached
    <3> QED BY <1>8, <3>2, <3>3
  <2>2. \A b \in Addr : entries'[b] # NoStub => entries'[b] \in expirations'
    <3>1. TAKE b \in Addr
    <3>2. HAVE entries'[b] # NoStub
    <3>3. b # a /\ entries'[b] = entries[b]
      BY <1>8, <3>2
    <3>4. entries[b] # entries[a] /\ entries[b] \in expirations
      BY <1>2, <1>3, <3>2, <3>3, Cached
    <3>5. expirations' = expirations \ {entries[a]}
      BY <1>1
    <3> QED BY <3>3, <3>4, <3>5
  <2> QED BY <2>1, <2>2
<1>10. ASSUME NEW b \in Addr, NEW t \in Stub
       PROVE  entries'[b] = t <=> stub'[t].task /\ stub'[t].addr = b /\ ~stub'[t].tripped
  <2>1. entries[b] = t <=> stub[t].task /\ stub[t].addr = b /\ ~stub[t].tripped
    BY <1>2 DEF CacheSound
  <2>2. t # NoStub
    BY UdpXAssumption
  <2>3. CASE t = s
    <3>1. ~stub'[t].task
      BY <1>4, <1>5, <2>3
    <3>2. entries[b] = s => b = a
      BY <2>1, <2>3 DEF a
    <3> QED BY <1>3, <1>8, <2>2, <2>3, <3>1, <3>2
  <2>4. CASE t # s /\ t = entries[a]
    <3>1. stub'[t].tripped
      BY <1>5, <2>4
    <3>2. entries[b] = t => b = a
      BY <1>2, <1>3, <2>2, <2>4, Cached
    <3> QED BY <1>3, <1>8, <2>2, <3>1, <3>2
  <2>5. CASE t # s /\ t # entries[a]
    <3>1. entries'[b] = t <=> entries[b] = t
      BY <1>8, <2>2, <2>5
    <3>2. stub'[t].tripped <=> stub[t].tripped
      BY <1>5, <2>5
    <3> QED BY <1>5, <2>1, <2>5, <3>1, <3>2
  <2> QED BY <2>3, <2>4, <2>5
<1>11. CacheSound'
  <2>1. expirations' # {} => is_in_keepalive'
    BY <1>1, <1>2 DEF CacheSound
  <2> QED BY <1>9, <1>10, <2>1 DEF CacheSound
<1>12. ASSUME ~stray'
       PROVE  /\ \A t \in Stub : stub[t].task /\ t # s
                   => owner'[stub[t].fd] = t \/ stub[t].cleaned
              /\ \A f \in others : owner'[f] = Other
  <2>1. {<< stub[x].fd, x >> : x \in {s}} = {<< stub[s].fd, s >>}
    OBVIOUS
  <2>2. {s} \in SUBSET Stub /\ \A t : t \in {s} <=> t = s
    OBVIOUS
  <2>3. Close({<< stub[x].fd, x >> : x \in {s}})
    BY <1>1, <2>1
  <2> QED BY <1>12, <2>2, <2>3, CloseKeeps
<1>13. OwnSocket'
  <2> SUFFICES ASSUME ~stray', NEW t \in Stub, stub'[t].task
               PROVE  owner'[stub'[t].fd] = t \/ stub'[t].cleaned
    BY DEF OwnSocket
  <2>1. t # s
    BY <1>4, <1>5
  <2> QED BY <1>5, <1>12, <2>1
<1>14. \A t \in Stub : stub'[t].cleaned => stub'[t].tripped
  BY <1>4, <1>5 DEF IInv
<1> QED BY <1>1, <1>7, <1>11, <1>12, <1>13, <1>14 DEF IInv

\* stop empties the cache and cleans up all that was in it.
LEMMA StopStep ==
    ASSUME IInv, stop
    PROVE  IInv'
<1> DEFINE stubs == {entries[a] : a \in Addr} \ {NoStub}
<1>1. /\ stopped' = TRUE /\ expirations' = {}
      /\ entries' = [a \in Addr |-> NoStub]
      /\ Cleanup(stubs)
      /\ UNCHANGED << servers, is_in_keepalive, others >>
  BY DEF stop
<1>2. TypeOK /\ CacheSound /\ stubs = expirations
  BY DEF IInv, CacheSound
<1>3. stubs \in SUBSET Stub
  BY <1>2 DEF TypeOK
<1> HIDE DEF stubs
<1>4. /\ stub' \in [Stub -> StubType]
      /\ owner' \in [Fd -> Stub \cup {Free, Other}] /\ stray' \in BOOLEAN
      /\ \A t \in Stub : /\ stub'[t].task = stub[t].task /\ stub'[t].addr = stub[t].addr
                         /\ stub'[t].tripped = (t \in stubs \/ stub[t].tripped)
      /\ OwnSocket'
      /\ \A t \in Stub : stub'[t].cleaned => stub'[t].tripped
      /\ ~stray' => \A f \in others' : owner'[f] = Other
  BY <1>1, <1>3, CleanupFrame
<1>5. TypeOK'
  BY <1>1, <1>2, <1>4 DEF TypeOK
<1>6. {entries'[b] : b \in Addr} \ {NoStub} = {}
  BY <1>1
<1>7. \A t \in Stub : stub[t].task => t \in stubs \/ stub[t].tripped
  <2>1. TAKE t \in Stub
  <2>2. stub[t].addr \in Addr
    BY <1>2 DEF TypeOK, StubType
  <2>3. stub[t].task /\ ~stub[t].tripped => entries[stub[t].addr] = t
    BY <1>2, <2>2 DEF CacheSound
  <2>4. entries[stub[t].addr] = t => t \in stubs
    BY <1>2, <2>2, Cached, UdpXAssumption
  <2> QED BY <2>3, <2>4
<1>8. \A b \in Addr, t \in Stub :
        entries'[b] = t <=> stub'[t].task /\ stub'[t].addr = b /\ ~stub'[t].tripped
  <2>1. \A b \in Addr, t \in Stub : entries'[b] # t
    BY <1>1, UdpXAssumption
  <2>2. \A t \in Stub : stub'[t].task => stub'[t].tripped
    BY <1>4, <1>7
  <2> QED BY <2>1, <2>2
<1>9. CacheSound'
  BY <1>1, <1>6, <1>8 DEF CacheSound
<1> QED BY <1>4, <1>5, <1>9 DEF IInv

\* A stub of the cache is used, or a part of its time limit passes.
LEMMA FreshStep ==
    ASSUME IInv, NEW s \in Stub, NEW b \in BOOLEAN,
           stub' = [stub EXCEPT ![s].fresh = b],
           UNCHANGED << stopped, servers, cacheVars, fdVars >>
    PROVE  IInv'
<1>1. UNCHANGED << stopped, servers, entries, expirations, is_in_keepalive, owner, others, stray >>
  BY DEF cacheVars, fdVars
<1>2. TypeOK /\ CacheSound /\ OwnSocket
  BY DEF IInv
<1>3. \A t \in Stub : /\ stub'[t] \in StubType
                      /\ stub'[t].task = stub[t].task /\ stub'[t].addr = stub[t].addr
                      /\ stub'[t].fd = stub[t].fd /\ stub'[t].tripped = stub[t].tripped
                      /\ stub'[t].cleaned = stub[t].cleaned
  BY <1>2 DEF TypeOK, StubType
<1>4. stub' \in [Stub -> StubType]
  BY <1>2, <1>3 DEF TypeOK
<1>5. TypeOK'
  BY <1>1, <1>2, <1>4 DEF TypeOK
<1>6. CacheSound'
  BY <1>1, <1>2, <1>3 DEF CacheSound
<1>7. OwnSocket'
  BY <1>1, <1>2, <1>3 DEF OwnSocket
<1> QED BY <1>1, <1>3, <1>5, <1>6, <1>7 DEF IInv

\* The rest of the process opens and closes numbers.
LEMMA OtherStep ==
    ASSUME IInv, NEW f \in Fd, OtherOpens(f) \/ OtherCloses(f)
    PROVE  IInv'
<1>1. UNCHANGED << stopped, servers, entries, expirations, is_in_keepalive, stub >>
  BY DEF OtherOpens, OtherCloses, cacheVars
<1>2. TypeOK /\ CacheSound /\ OwnSocket
  BY DEF IInv
<1>3. CacheSound'
  BY <1>1, <1>2 DEF CacheSound
<1>4. CASE OtherOpens(f)
  <2>1. /\ owner[f] = Free /\ owner' = [owner EXCEPT ![f] = Other]
        /\ others' = others \cup {f} /\ stray' = stray
    BY <1>4 DEF OtherOpens, Lowest
  <2>2. TypeOK'
    BY <1>1, <1>2, <2>1 DEF TypeOK
  <2>3. OwnSocket'
    <3> SUFFICES ASSUME ~stray, NEW t \in Stub, stub[t].task
                 PROVE  owner'[stub[t].fd] = t \/ stub[t].cleaned
      BY <1>1, <2>1 DEF OwnSocket
    <3>1. owner[stub[t].fd] = t \/ stub[t].cleaned
      BY <1>2 DEF OwnSocket
    <3>2. owner[stub[t].fd] = t => stub[t].fd # f
      BY <2>1, UdpXAssumption
    <3>3. stub[t].fd \in Fd
      BY <1>2 DEF TypeOK, StubType
    <3> QED BY <1>2, <2>1, <3>1, <3>2, <3>3 DEF TypeOK
  <2>4. ~stray' => \A g \in others' : owner'[g] = Other
    BY <1>2, <2>1 DEF IInv, TypeOK
  <2> QED BY <1>1, <1>3, <2>2, <2>3, <2>4 DEF IInv
<1>5. CASE OtherCloses(f)
  <2>1. /\ f \in others /\ others' = others \ {f}
        /\ owner' = [g \in Fd |-> IF g = f THEN Free ELSE owner[g]]
        /\ stray' = (stray \/ owner[f] \notin {Free, Other})
    BY <1>5, CloseOne DEF OtherCloses
  <2>2. TypeOK'
    BY <1>1, <1>2, <2>1 DEF TypeOK
  <2>3. OwnSocket'
    <3> SUFFICES ASSUME ~stray', NEW t \in Stub, stub[t].task
                 PROVE  owner'[stub[t].fd] = t \/ stub[t].cleaned
      BY <1>1 DEF OwnSocket
    <3>1. ~stray /\ owner[f] = Other
      BY <2>1 DEF IInv
    <3>2. owner[stub[t].fd] = t \/ stub[t].cleaned
      BY <1>2, <3>1 DEF OwnSocket
    <3>3. owner[stub[t].fd] = t => stub[t].fd # f
      BY <3>1, UdpXAssumption
    <3>4. stub[t].fd \in Fd
      BY <1>2 DEF TypeOK, StubType
    <3> QED BY <2>1, <3>2, <3>3, <3>4
  <2>4. ~stray' => \A g \in others' : owner'[g] = Other
    <3>1. ~stray' => ~stray
      BY <2>1
    <3> QED BY <1>2, <2>1, <3>1 DEF IInv, TypeOK
  <2> QED BY <1>1, <1>3, <2>2, <2>3, <2>4 DEF IInv
<1> QED BY <1>4, <1>5

\* Steps that leave the stubs, the cache and the numbers alone.
LEMMA QuietStep ==
    ASSUME IInv,
           UNCHANGED << entries, expirations, stub, owner, others, stray >>,
           stopped' \in BOOLEAN, servers' \subseteq {"v4", "v6"},
           is_in_keepalive' \in BOOLEAN,
           expirations # {} => is_in_keepalive'
    PROVE  IInv'
<1>1. TypeOK' /\ OwnSocket'
  BY DEF IInv, TypeOK, OwnSocket
<1>2. CacheSound'
  BY DEF IInv, CacheSound
<1> QED BY <1>1, <1>2 DEF IInv

\* Every step preserves the invariant.
LEMMA NextIInv ==
    ASSUME IInv, [Next]_vars
    PROVE  IInv'
<1>1. TypeOK /\ CacheSound
  BY DEF IInv
<1>2. ASSUME NEW a \in Addr, UseStub(a)
      PROVE  IInv'
  <2>1. entries[a] \in Stub
    BY <1>1, <1>2, Cached DEF UseStub
  <2> QED BY <1>2, <2>1, FreshStep DEF UseStub
<1>3. ASSUME NEW s \in Stub, TimePasses(s)
      PROVE  IInv'
  BY <1>3, FreshStep DEF TimePasses
<1>4. CASE KeepaliveEnds
  BY <1>1, <1>4, QuietStep DEF KeepaliveEnds, fdVars, TypeOK
<1>5. ASSUME NEW v \in {"v4", "v6"}, on_udp_server_closed(v)
      PROVE  IInv'
  BY <1>1, <1>5, QuietStep DEF on_udp_server_closed, cacheVars, fdVars, TypeOK, CacheSound
<1>6. CASE UNCHANGED vars
  BY <1>1, <1>6, QuietStep DEF vars, cacheVars, fdVars, TypeOK, CacheSound
<1> QED BY <1>2, <1>3, <1>4, <1>5, <1>6, BuildStep, PurgeStep, StubEndsStep, StopStep,
          OtherStep DEF Next

\* The invariant is inductive, so it holds of every behaviour.
THEOREM Invariance == Spec => []IInv
<1>1. IInv /\ [Next]_vars => IInv'
  BY NextIInv
<1> QED BY <1>1, InitIInv, PTL DEF Spec

\* The cache, its time limits and the running tasks agree, although the end of an
\* old stub removes whatever stub its address has (cache.rs:80): no stub is
\* forgotten and no key is looked for that the DelayQueue does not have.
THEOREM CacheCorrect == Spec => []CacheSound
<1>1. IInv => CacheSound
  BY DEF IInv
<1> QED BY <1>1, Invariance, PTL

\* A number is closed that belongs to someone else only when a stub ends whose
\* number the cache had already closed.
LEMMA StrayStep ==
    ASSUME IInv, [Next]_vars, stray', ~stray
    PROVE  \E s \in Stub : stub[s].cleaned /\ stub[s].task /\ ~stub'[s].task
<1>1. TypeOK /\ CacheSound /\ OwnSocket
  BY DEF IInv
<1>2. ASSUME NEW s \in Stub, Purge(s)
      PROVE  FALSE
  <2>1. s \in expirations /\ entries[stub[s].addr] = s
    BY <1>1, <1>2, Cached DEF Purge
  <2>2. {entries[stub[s].addr]} \ {NoStub} \in SUBSET expirations
    BY <2>1
  <2> QED BY <1>2, <2>2, CleanupOwn DEF Purge, Cleanup
<1>3. CASE stop
  <2>1. {entries[a] : a \in Addr} \ {NoStub} \in SUBSET expirations
    BY <1>1 DEF CacheSound
  <2> QED BY <1>3, <2>1, CleanupOwn DEF stop, Cleanup
<1>4. ASSUME NEW s \in Stub, StubEnds(s)
      PROVE  stub[s].cleaned /\ stub[s].task /\ ~stub'[s].task
  <2>1. stub[s].task /\ Close({<< stub[s].fd, s >>}) /\ stub' = Dropped(s, stub[s].addr)
    BY <1>4 DEF StubEnds
  <2>2. owner[stub[s].fd] \notin {Free, s}
    BY <2>1, CloseOne
  <2>3. ~stub'[s].task
    BY <2>1 DEF Dropped, Gone
  <2> QED BY <1>1, <2>1, <2>2, <2>3 DEF OwnSocket
<1>5. ASSUME NEW f \in Fd, OtherCloses(f)
      PROVE  FALSE
  <2>1. f \in others /\ owner[f] = Other
    BY <1>5 DEF OtherCloses, IInv
  <2>2. stray' = (stray \/ owner[f] \notin {Free, Other})
    BY <1>5, CloseOne DEF OtherCloses
  <2> QED BY <2>1, <2>2
<1>6. stray' # stray
  OBVIOUS
<1> QED BY <1>2, <1>3, <1>4, <1>5, <1>6
        DEF Next, UseStub, BuildStub, TimePasses, KeepaliveEnds, on_udp_server_closed,
            OtherOpens, vars, fdVars

\* Until then every running stub of the cache owns the number of its socket.
THEOREM SocketsCorrect == Spec => SocketsOwned
<1>1. IInv /\ IInv' /\ [Next]_vars
        => [/\ OwnSocket'
            /\ stray' /\ ~stray =>
                 \E s \in Stub : stub[s].cleaned /\ stub[s].task /\ ~stub'[s].task]_vars
  BY StrayStep DEF IInv
<1> QED BY <1>1, Invariance, PTL DEF Spec, SocketsOwned
=============================================================================
