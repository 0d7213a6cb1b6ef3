--------------------------- MODULE XTunnelProofs ----------------------------
(***************************************************************************)
(* Proofs about XTunnel, for any number of slots and requests, any ping    *)
(* limit, any width of req_count and any bound of the tags.                *)
(*                                                                         *)
(* IInv is inductive.  PeerWillKnow needs the types only.  OwnFree needs   *)
(* that tags grow within a connection (TagsOrdered), and that no           *)
(* connection begins while another one is up (OneOwner), since that would  *)
(* start the tags again.  CountKeepsPace needs that a new request never    *)
(* takes a slot in use (SlotsKnown): it would be counted twice.            *)
(***************************************************************************)
EXTENDS XTunnel, FiniteSetTheorems, TLAPS

\* XTunnel::new and start establish the invariant.
LEMMA InitIInv == Init => IInv
<1> SUFFICES ASSUME Init PROVE IInv
  OBVIOUS
<1>1. 0 \in Slot /\ 0 \in Tag /\ 0 \in 0 .. PingLimit + 1
  BY XTunnelAssumption DEF Slot, Tag
<1>2. TypeOK
  <2>1. Idle \in Task
    BY <1>1 DEF Idle, Task
  <2>2. [tag |-> 0, is_inused |-> FALSE, request_tx |-> NoReq, trigger |-> NoReq] \in XRequest
    BY <1>1 DEF XRequest
  <2>3. /\ elements \in [Slot -> XRequest] /\ task \in [Req -> Task]
        /\ peer \in [Slot -> Tag] /\ peer_tag \in [Slot -> Tag]
    BY <1>1, <2>1, <2>2 DEF Init
  <2>4. /\ discarded \in BOOLEAN /\ need_reconnect \in BOOLEAN
        /\ tun_tx \in BOOLEAN /\ rawfd \in BOOLEAN
    BY DEF Init
  <2>5. /\ connecting \in Nat /\ ping_count \in 0 .. PingLimit + 1
        /\ req_count \in 0 .. CountMod - 1 /\ to_peer \in SUBSET (Slot \X Tag)
    BY <1>1, XTunnelAssumption DEF Init
  <2> QED BY <2>3, <2>4, <2>5 DEF TypeOK
<1>3. OneOwner
  BY DEF Init, OneOwner
<1>4. SlotsKnown
  BY DEF Init, SlotsKnown
<1>5. PeerWillKnow /\ TagsOrdered
  BY DEF Init, PeerWillKnow, TagsOrdered, Idle
<1> QED BY <1>2, <1>3, <1>4, <1>5 DEF IInv

-----------------------------------------------------------------------------
(***************************************************************************)
(* What the steps do to the table and to the tasks.                        *)
(***************************************************************************)

\* A slot that is cleaned keeps its tag.
LEMMA CleanFacts ==
    ASSUME NEW e \in XRequest
    PROVE  /\ clean_req(e) \in XRequest /\ clean_req(e).tag = e.tag
           /\ ~clean_req(e).is_inused
           /\ clean_req(e).request_tx = NoReq /\ clean_req(e).trigger = NoReq
  BY DEF clean_req, XRequest

\* A u16 wraps.
LEMMA WrapFacts ==
    ASSUME NEW n \in 0 .. CountMod - 1
    PROVE  /\ Wrap(n + 1) \in 0 .. CountMod - 1 /\ Wrap(n - 1) \in 0 .. CountMod - 1
           /\ Wrap(n + 1) = n + 1 \/ (n = CountMod - 1 /\ Wrap(n + 1) = 0)
           /\ n > 0 => Wrap(n - 1) = n - 1
<1>1. CountMod \in Nat \ {0} /\ n \in Nat
  BY XTunnelAssumption
<1>2. Wrap(n + 1) \in 0 .. CountMod - 1 /\ Wrap(n - 1) \in 0 .. CountMod - 1
  BY <1>1 DEF Wrap
<1>3. n < CountMod - 1 => Wrap(n + 1) = n + 1
  BY <1>1 DEF Wrap
<1>4. n = CountMod - 1 => Wrap(n + 1) = 0
  BY <1>1 DEF Wrap
<1>5. n > 0 => Wrap(n - 1) = n - 1
  BY <1>1 DEF Wrap
<1> QED BY <1>1, <1>2, <1>3, <1>4, <1>5

\* What on_request_closed does to the table, by the task that ends.
LEMMA ClosedFacts ==
    ASSUME TypeOK, NEW r \in Req, on_request_closed(r)
    PROVE  /\ elements' \in [Slot -> XRequest] /\ req_count' \in 0 .. CountMod - 1
           /\ to_peer' \in SUBSET (Slot \X Tag)
           /\ \/ UNCHANGED << elements, req_count, to_peer >>
              \/ LET i == task[r].req_idx
                     t == task[r].req_tag
                 IN  /\ i \in Slot /\ check_req_valid(i, t) /\ tun_tx
                     /\ elements' = [elements EXCEPT ![i] = clean_req(elements[i])]
                     /\ req_count' = Wrap(req_count - 1)
                     /\ to_peer' = to_peer \cup {<< i, t >>}
<1> DEFINE i == task[r].req_idx
           t == task[r].req_tag
<1>1. i \in Slot /\ t \in Tag /\ elements \in [Slot -> XRequest]
      /\ req_count \in 0 .. CountMod - 1 /\ to_peer \in SUBSET (Slot \X Tag)
  BY DEF TypeOK, Task
<1>2. CASE Frees(r)
  <2>1. /\ elements' = [elements EXCEPT ![i] = clean_req(elements[i])]
        /\ req_count' = Wrap(req_count - 1)
        /\ to_peer' = to_peer \cup {<< i, t >>}
        /\ tun_tx /\ check_req_valid(i, t)
    BY <1>2 DEF on_request_closed, Frees
  <2>2. clean_req(elements[i]) \in XRequest
    BY <1>1, CleanFacts
  <2> HIDE DEF i, t
  <2>3. elements' \in [Slot -> XRequest]
    BY <1>1, <2>1, <2>2
  <2>4. req_count' \in 0 .. CountMod - 1 /\ to_peer' \in SUBSET (Slot \X Tag)
    BY <1>1, <2>1, WrapFacts
  <2> QED BY <1>1, <2>1, <2>3, <2>4 DEF i, t
<1>3. CASE ~Frees(r)
  BY <1>1, <1>3 DEF on_request_closed
<1> QED BY <1>2, <1>3

\* A step of a request task: it changes its own task, and the table only when it
\* ends.
LEMMA TaskFacts ==
    ASSUME TypeOK, NEW r \in Req, TaskNext(r)
    PROVE  /\ UNCHANGED << connVars, peer, peer_tag >>
           /\ \E t \in Task :
                /\ task' = [task EXCEPT ![r] = t]
                /\ t.now => /\ task[r].now /\ t.req_idx = task[r].req_idx
                            /\ t.req_tag = task[r].req_tag
           /\ \/ UNCHANGED << elements, req_count, to_peer >>
              \/ on_request_closed(r)
<1>1. task \in [Req -> Task] /\ task[r] \in Task /\ Idle \in Task /\ ~Idle.now
  BY XTunnelAssumption DEF TypeOK, Task, Idle, Slot, Tag
<1>2. ASSUME TaskEnds(r)
      PROVE  /\ UNCHANGED << connVars, peer, peer_tag >>
             /\ task' = [task EXCEPT ![r] = Idle]
             /\ on_request_closed(r)
  BY <1>2 DEF TaskEnds
<1>3. ASSUME NEW t \in Task, EndHalf(r, t), t.now = task[r].now,
             t.req_idx = task[r].req_idx, t.req_tag = task[r].req_tag
      PROVE  /\ UNCHANGED << connVars, peer, peer_tag >>
             /\ task' = [task EXCEPT ![r] = t] \/ task' = [task EXCEPT ![r] = Idle]
             /\ UNCHANGED << elements, req_count, to_peer >> \/ on_request_closed(r)
  BY <1>2, <1>3 DEF EndHalf, peerVars
<1>4. /\ [task[r] EXCEPT !.sending = FALSE] \in Task
      /\ [task[r] EXCEPT !.sending = FALSE].now = task[r].now
      /\ [task[r] EXCEPT !.sending = FALSE].req_idx = task[r].req_idx
      /\ [task[r] EXCEPT !.sending = FALSE].req_tag = task[r].req_tag
  BY <1>1 DEF Task
<1>5. /\ [task[r] EXCEPT !.receiving = FALSE] \in Task
      /\ [task[r] EXCEPT !.receiving = FALSE].now = task[r].now
      /\ [task[r] EXCEPT !.receiving = FALSE].req_idx = task[r].req_idx
      /\ [task[r] EXCEPT !.receiving = FALSE].req_tag = task[r].req_tag
  BY <1>1 DEF Task
<1>6. CASE Connected(r)
  <2> DEFINE t == [task[r] EXCEPT !.st = "open", !.sending = TRUE, !.receiving = TRUE]
  <2>1. t \in Task /\ t.now = task[r].now /\ t.req_idx = task[r].req_idx
        /\ t.req_tag = task[r].req_tag
    BY <1>1 DEF Task
  <2>2. task' = [task EXCEPT ![r] = t]
    BY <1>1, <1>6 DEF Connected, Task
  <2>3. UNCHANGED << connVars, peer, peer_tag, elements, req_count, to_peer >>
    BY <1>6 DEF Connected, peerVars
  <2> QED BY <2>1, <2>2, <2>3
<1>7. CASE ConnectTimeout(r)
  BY <1>1, <1>2, <1>7 DEF ConnectTimeout
<1>8. CASE ConnectRefused(r)
  BY <1>1, <1>8 DEF ConnectRefused, peerVars
<1>9. CASE SendDrained(r) \/ SendFails(r)
  BY <1>1, <1>3, <1>4, <1>9 DEF SendDrained, SendFails
<1>10. CASE ReceiveTripped(r) \/ ReceiveFinished(r)
  BY <1>1, <1>3, <1>5, <1>10 DEF ReceiveTripped, ReceiveFinished
<1> QED BY <1>6, <1>7, <1>8, <1>9, <1>10 DEF TaskNext

\* What a new request of the peer does.
LEMMA CreateFacts ==
    ASSUME TypeOK, NEW s \in Slot, NEW r \in Req, PeerCreates(s, r)
    PROVE  \E t \in Tag, e \in XRequest :
             /\ t = peer_tag[s] + 1 /\ t # 0 /\ tun_tx /\ peer[s] = 0
             /\ e.tag = t /\ e.is_inused
             /\ elements' = [elements EXCEPT ![s] = e]
             /\ peer' = [peer EXCEPT ![s] = t] /\ peer_tag' = [peer_tag EXCEPT ![s] = t]
             /\ UNCHANGED << connVars, to_peer >>
             /\ \/ discarded /\ UNCHANGED << req_count, task >>
                \/ /\ ~discarded /\ req_count' = Wrap(req_count + 1) /\ e.trigger = r
                   /\ task' = [task EXCEPT ![r] =
                                 [st |-> "connecting", req_idx |-> s, req_tag |-> t,
                                  now |-> TRUE, sending |-> FALSE, receiving |-> FALSE]]
<1> DEFINE t == peer_tag[s] + 1
           e == [tag |-> t, is_inused |-> TRUE, request_tx |-> NoReq, trigger |-> NoReq]
           f == [tag |-> t, is_inused |-> TRUE, request_tx |-> r, trigger |-> r]
<1>1. t \in Tag /\ t # 0 /\ tun_tx /\ peer[s] = 0
  BY XTunnelAssumption DEF PeerCreates, TypeOK, Tag
<1>2. e \in XRequest /\ f \in XRequest
  BY <1>1 DEF XRequest
<1>3. /\ peer' = [peer EXCEPT ![s] = t] /\ peer_tag' = [peer_tag EXCEPT ![s] = t]
      /\ UNCHANGED << connVars, to_peer >>
      /\ on_req_created(s, t, r)
  BY DEF PeerCreates
<1>4. CASE discarded
  <2>1. elements' = [elements EXCEPT ![s] = e] /\ UNCHANGED << req_count, task >>
    BY <1>3, <1>4 DEF on_req_created
  <2>2. e.tag = t /\ e.is_inused
    OBVIOUS
  <2> QED BY <1>1, <1>2, <1>3, <1>4, <2>1, <2>2
<1>5. CASE ~discarded
  <2>1. /\ elements' = [elements EXCEPT ![s] = f] /\ req_count' = Wrap(req_count + 1)
        /\ task' = [task EXCEPT ![r] =
                      [st |-> "connecting", req_idx |-> s, req_tag |-> t,
                       now |-> TRUE, sending |-> FALSE, receiving |-> FALSE]]
    BY <1>3, <1>5 DEF on_req_created
  <2>2. f.tag = t /\ f.is_inused /\ f.trigger = r
    OBVIOUS
  <2> QED BY <1>1, <1>2, <1>3, <1>5, <2>1, <2>2
<1> QED BY <1>4, <1>5

-----------------------------------------------------------------------------
(***************************************************************************)
(* The parts of the invariant, each kept by every step.                    *)
(***************************************************************************)
LEMMA TypeStep ==
    ASSUME TypeOK, [Next]_vars
    PROVE  TypeOK'
<1> USE DEF connVars, reqVars, peerVars
<1>1. /\ elements \in [Slot -> XRequest] /\ task \in [Req -> Task]
      /\ req_count \in 0 .. CountMod - 1
      /\ peer \in [Slot -> Tag] /\ peer_tag \in [Slot -> Tag] /\ 0 \in Tag
      /\ to_peer \in SUBSET (Slot \X Tag) /\ connecting \in Nat
      /\ ping_count \in 0 .. PingLimit + 1
  BY XTunnelAssumption DEF TypeOK, Tag
<1>2. CASE on_tunnel_created
  <2>1. peer' \in [Slot -> Tag] /\ peer_tag' \in [Slot -> Tag] /\ to_peer' \in SUBSET (Slot \X Tag)
    BY <1>1, <1>2 DEF on_tunnel_created
  <2>2. connecting' \in Nat
    BY <1>1, <1>2 DEF on_tunnel_created
  <2>3. tun_tx' \in BOOLEAN /\ rawfd' \in BOOLEAN
    BY <1>2 DEF on_tunnel_created, TypeOK
  <2> QED BY <1>2, <2>1, <2>2, <2>3 DEF on_tunnel_created, TypeOK
<1>3. CASE on_tunnel_build_error
  BY <1>1, <1>3 DEF on_tunnel_build_error, TypeOK
<1>4. CASE on_tunnel_closed
  <2>1. elements' \in [Slot -> XRequest]
    BY <1>1, <1>4, CleanFacts DEF on_tunnel_closed, clear_all
  <2>2. task' \in [Req -> Task]
    BY <1>1, <1>4 DEF on_tunnel_closed, Task
  <2>3. peer' \in [Slot -> Tag] /\ peer_tag' \in [Slot -> Tag] /\ to_peer' \in SUBSET (Slot \X Tag)
    BY <1>1, <1>4 DEF on_tunnel_closed
  <2> QED BY <1>4, <2>1, <2>2, <2>3 DEF on_tunnel_closed, TypeOK
<1>5. CASE keepalive
  <2>1. ping_count' \in 0 .. PingLimit + 1
    BY <1>1, <1>5, XTunnelAssumption DEF keepalive, send_ping, Silent
  <2>2. connecting' \in Nat
    BY <1>1, <1>5 DEF keepalive
  <2>3. rawfd' \in BOOLEAN /\ need_reconnect' \in BOOLEAN
    <3>1. rawfd' \in BOOLEAN
      BY <1>5 DEF keepalive
    <3>2. need_reconnect' = FALSE \/ need_reconnect' = need_reconnect
      BY <1>5 DEF keepalive
    <3> QED BY <3>1, <3>2 DEF TypeOK
  <2> QED BY <1>5, <2>1, <2>2, <2>3 DEF keepalive, TypeOK
<1>6. CASE on_pong \/ stop
  <2>1. ping_count' \in 0 .. PingLimit + 1
    BY <1>1, <1>6, XTunnelAssumption DEF on_pong, stop
  <2>2. discarded' \in BOOLEAN /\ rawfd' \in BOOLEAN
    BY <1>6 DEF on_pong, stop, TypeOK
  <2> QED BY <1>6, <2>1, <2>2 DEF on_pong, stop, TypeOK
<1>7. ASSUME NEW s \in Slot, NEW r \in Req, PeerCreates(s, r)
      PROVE  TypeOK'
  <2>1. PICK t \in Tag, e \in XRequest :
          /\ elements' = [elements EXCEPT ![s] = e]
          /\ peer' = [peer EXCEPT ![s] = t] /\ peer_tag' = [peer_tag EXCEPT ![s] = t]
          /\ UNCHANGED << connVars, to_peer >>
          /\ \/ UNCHANGED << req_count, task >>
             \/ /\ req_count' = Wrap(req_count + 1)
                /\ task' = [task EXCEPT ![r] =
                              [st |-> "connecting", req_idx |-> s, req_tag |-> t,
                               now |-> TRUE, sending |-> FALSE, receiving |-> FALSE]]
    BY <1>7, CreateFacts
  <2> DEFINE new == [st |-> "connecting", req_idx |-> s, req_tag |-> t, now |-> TRUE,
                     sending |-> FALSE, receiving |-> FALSE]
  <2>2. new \in Task
    BY DEF Task
  <2>5. \/ UNCHANGED << req_count, task >>
        \/ req_count' = Wrap(req_count + 1) /\ task' = [task EXCEPT ![r] = new]
    BY <2>1
  <2> HIDE DEF new
  <2>3. task' \in [Req -> Task] /\ req_count' \in 0 .. CountMod - 1
    <3>1. CASE UNCHANGED << req_count, task >>
      BY <1>1, <3>1
    <3>2. CASE req_count' = Wrap(req_count + 1) /\ task' = [task EXCEPT ![r] = new]
      BY <1>1, <2>2, <3>2, WrapFacts
    <3> QED BY <2>5, <3>1, <3>2
  <2>4. /\ elements' \in [Slot -> XRequest] /\ peer' \in [Slot -> Tag]
        /\ peer_tag' \in [Slot -> Tag]
    BY <1>1, <2>1
  <2> QED BY <2>1, <2>3, <2>4 DEF TypeOK
<1>8. ASSUME NEW s \in Slot, PeerFinishes(s)
      PROVE  TypeOK'
  <2>1. elements' \in [Slot -> XRequest]
    BY <1>1, <1>8 DEF PeerFinishes, XRequest
  <2> QED BY <1>8, <2>1 DEF PeerFinishes, TypeOK
<1>9. ASSUME NEW s \in Slot, PeerCloses(s)
      PROVE  TypeOK'
  <2>1. elements' \in [Slot -> XRequest]
    BY <1>1, <1>9, CleanFacts DEF PeerCloses
  <2>3. req_count' \in 0 .. CountMod - 1
    BY <1>1, <1>9, XTunnelAssumption DEF PeerCloses
  <2>2. peer' \in [Slot -> Tag]
    BY <1>1, <1>9 DEF PeerCloses
  <2> QED BY <1>9, <2>1, <2>2, <2>3 DEF PeerCloses, TypeOK
<1>10. ASSUME NEW s \in Slot, NEW t \in Tag, PeerToldClosed(s, t)
       PROVE  TypeOK'
  BY <1>1, <1>10 DEF PeerToldClosed, TypeOK
<1>11. ASSUME NEW r \in Req, TaskNext(r)
       PROVE  TypeOK'
  <2>1. task' \in [Req -> Task] /\ UNCHANGED << connVars, peer, peer_tag >>
    BY <1>1, <1>11, TaskFacts
  <2>2. /\ elements' \in [Slot -> XRequest] /\ req_count' \in 0 .. CountMod - 1
        /\ to_peer' \in SUBSET (Slot \X Tag)
    BY <1>1, <1>11, TaskFacts, ClosedFacts
  <2> QED BY <2>1, <2>2 DEF TypeOK
<1>12. CASE UNCHANGED vars
  BY <1>12 DEF TypeOK, vars
<1> QED BY <1>2, <1>3, <1>4, <1>5, <1>6, <1>7, <1>8, <1>9, <1>10, <1>11, <1>12
        DEF Next, ConnNext, PeerNext

\* One attempt, one connection, or one connection to be tried again.
LEMMA OwnerStep ==
    ASSUME IInv, [Next]_vars
    PROVE  OneOwner'
<1> USE DEF connVars
<1>1. /\ OneOwner /\ connecting \in Nat /\ tun_tx \in BOOLEAN /\ need_reconnect \in BOOLEAN
      /\ discarded \in BOOLEAN
  BY DEF IInv, TypeOK
<1>2. ASSUME UNCHANGED << connecting, tun_tx, need_reconnect, discarded >>
      PROVE  OneOwner'
  BY <1>1, <1>2 DEF OneOwner
<1>3. CASE on_tunnel_created
  BY <1>1, <1>3 DEF on_tunnel_created, OneOwner
<1>4. CASE on_tunnel_build_error
  <2>1. /\ connecting' = 0 /\ UNCHANGED << discarded, tun_tx >> /\ connecting = 1
        /\ ~need_reconnect /\ ~tun_tx
    BY <1>1, <1>4 DEF on_tunnel_build_error, OneOwner
  <2>2. need_reconnect' <=> ~discarded
    BY <1>4, <2>1 DEF on_tunnel_build_error
  <2> QED BY <2>1, <2>2 DEF OneOwner
<1>5. CASE on_tunnel_closed
  <2>1. /\ UNCHANGED << connecting, discarded >> /\ connecting = 0 /\ tun_tx' = FALSE
        /\ ~need_reconnect
    BY <1>1, <1>5 DEF on_tunnel_closed, OneOwner
  <2>2. need_reconnect' <=> ~discarded
    BY <1>5, <2>1 DEF on_tunnel_closed
  <2> QED BY <2>1, <2>2 DEF OneOwner
<1>6. CASE keepalive
  BY <1>1, <1>6 DEF keepalive, OneOwner
<1>7. CASE stop
  BY <1>1, <1>7 DEF stop, OneOwner
<1>8. CASE on_pong \/ UNCHANGED vars
  BY <1>2, <1>8 DEF on_pong, vars
<1>9. ASSUME NEW s \in Slot, PeerNext(s)
      PROVE  OneOwner'
  <2>1. UNCHANGED connVars
    BY <1>9 DEF PeerNext, PeerCreates, PeerFinishes, PeerCloses, PeerToldClosed
  <2> QED BY <1>2, <2>1
<1>10. ASSUME NEW r \in Req, TaskNext(r)
       PROVE  OneOwner'
  <2>1. UNCHANGED connVars
    BY <1>10, TaskFacts DEF IInv
  <2> QED BY <1>2, <2>1
<1> QED BY <1>3, <1>4, <1>5, <1>6, <1>7, <1>8, <1>9, <1>10 DEF Next, ConnNext

\* How many slots are in use after the step of one slot.
LEMMA InUseFacts ==
    ASSUME TypeOK
    PROVE  /\ Cardinality(InUse) \in Nat
           /\ \A s \in Slot :
                /\ s \notin InUse => Cardinality(InUse \cup {s}) = Cardinality(InUse) + 1
                /\ s \in InUse => /\ Cardinality(InUse \ {s}) = Cardinality(InUse) - 1
                                  /\ Cardinality(InUse) > 0
<1>1. IsFiniteSet(Slot)
  BY XTunnelAssumption, FS_Interval DEF Slot
<1>2. IsFiniteSet(InUse) /\ Cardinality(InUse) \in Nat
  BY <1>1, FS_Subset, FS_CardinalityType DEF InUse
<1>3. ASSUME NEW s \in Slot
      PROVE  /\ s \notin InUse => Cardinality(InUse \cup {s}) = Cardinality(InUse) + 1
             /\ s \in InUse => /\ Cardinality(InUse \ {s}) = Cardinality(InUse) - 1
                               /\ Cardinality(InUse) > 0
  <2>1. s \notin InUse => Cardinality(InUse \cup {s}) = Cardinality(InUse) + 1
    BY <1>2, FS_AddElement
  <2>2. s \in InUse => Cardinality(InUse \ {s}) = Cardinality(InUse) - 1
    BY <1>2, FS_RemoveElement
  <2>3. s \in InUse => Cardinality(InUse) > 0
    BY <1>2, FS_EmptySet
  <2> QED BY <2>1, <2>2, <2>3
<1> QED BY <1>2, <1>3

\* Cleaning a slot in use takes it, and nothing else, out of InUse.
LEMMA CleanedInUse ==
    ASSUME TypeOK, NEW s \in Slot,
           elements' = [elements EXCEPT ![s] = clean_req(elements[s])]
    PROVE  InUse' = InUse \ {s}
<1>1. elements \in [Slot -> XRequest] /\ ~clean_req(elements[s]).is_inused
  BY CleanFacts DEF TypeOK
<1>2. \A u \in Slot : elements'[u] = IF u = s THEN clean_req(elements[s]) ELSE elements[u]
  BY <1>1
<1> QED BY <1>1, <1>2 DEF InUse

\* The loss of a connection empties the table, unless the XTunnel is discarded.
LEMMA LostInUse ==
    ASSUME TypeOK, on_tunnel_closed, ~discarded
    PROVE  \A s \in Slot : ~elements'[s].is_inused
<1>1. \A s \in Slot : elements'[s] = clean_req(elements[s]) /\ elements[s] \in XRequest
  BY DEF on_tunnel_closed, clear_all, TypeOK
<1> QED BY <1>1, CleanFacts

\* What the steps do to the difference of req_count and the slots in use.
LEMMA CountStep ==
    ASSUME IInv, [Next]_vars
    PROVE  [Drift >= 0 /\ Drift' # Drift /\ ~discarded' =>
              \/ tun_tx /\ ~tun_tx' /\ InUse' = {} /\ req_count' = req_count
              \/ req_count = CountMod - 1 /\ req_count' = 0]_vars
<1> USE DEF connVars, reqVars, peerVars
<1>1. /\ TypeOK /\ SlotsKnown /\ req_count \in 0 .. CountMod - 1
      /\ CountMod \in Nat \ {0} /\ elements \in [Slot -> XRequest]
  BY XTunnelAssumption DEF IInv, TypeOK
<1>2. /\ Cardinality(InUse) \in Nat
      /\ \A s \in Slot :
           /\ s \notin InUse => Cardinality(InUse \cup {s}) = Cardinality(InUse) + 1
           /\ s \in InUse => /\ Cardinality(InUse \ {s}) = Cardinality(InUse) - 1
                             /\ Cardinality(InUse) > 0
  BY <1>1, InUseFacts
<1> SUFFICES ASSUME Drift >= 0, Drift' # Drift, ~discarded', Next
             PROVE  \/ tun_tx /\ ~tun_tx' /\ InUse' = {} /\ req_count' = req_count
                    \/ req_count = CountMod - 1 /\ req_count' = 0
  BY DEF InUse, Drift, vars
<1>3. req_count >= Cardinality(InUse)
  BY <1>1, <1>2 DEF Drift
<1>4. ASSUME InUse' = InUse, req_count' = req_count
      PROVE  FALSE
  BY <1>4 DEF Drift
<1>5. ASSUME UNCHANGED << elements, req_count >>
      PROVE  FALSE
  BY <1>4, <1>5 DEF InUse
\* A slot is freed and counted off.
<1>6. ASSUME NEW s \in Slot, s \in InUse, InUse' = InUse \ {s}, req_count' = req_count - 1
      PROVE  FALSE
  BY <1>1, <1>2, <1>6 DEF Drift
<1>7. CASE on_tunnel_closed
  <2>1. ~discarded /\ tun_tx /\ ~tun_tx' /\ req_count' = req_count
    BY <1>7 DEF on_tunnel_closed
  <2>2. InUse' = {}
    BY <1>1, <1>7, <2>1, LostInUse DEF InUse
  <2> QED BY <2>1, <2>2
<1>8. CASE on_tunnel_created \/ on_tunnel_build_error \/ keepalive \/ on_pong \/ stop
  BY <1>5, <1>8 DEF on_tunnel_created, on_tunnel_build_error, keepalive, on_pong, stop
<1>9. ASSUME NEW s \in Slot, NEW r \in Req, PeerCreates(s, r)
      PROVE  req_count = CountMod - 1 /\ req_count' = 0
  <2>1. PICK e \in XRequest :
          /\ e.is_inused /\ elements' = [elements EXCEPT ![s] = e]
          /\ peer[s] = 0 /\ tun_tx
          /\ ~discarded => req_count' = Wrap(req_count + 1)
          /\ UNCHANGED connVars
    BY <1>1, <1>9, CreateFacts
  <2>2. s \notin InUse
    BY <1>1, <2>1 DEF SlotsKnown, InUse
  <2>3. InUse' = InUse \cup {s}
    BY <1>1, <2>1 DEF InUse
  <2>4. req_count' = Wrap(req_count + 1)
    BY <2>1
  <2>5. req_count' # req_count + 1
    BY <1>1, <1>2, <2>2, <2>3 DEF Drift
  <2> QED BY <1>1, <2>4, <2>5, WrapFacts
<1>10. ASSUME NEW s \in Slot, PeerFinishes(s)
       PROVE  FALSE
  <2>1. \A u \in Slot : elements'[u].is_inused = elements[u].is_inused
    BY <1>1, <1>10 DEF PeerFinishes, XRequest
  <2>2. InUse' = InUse
    BY <2>1 DEF InUse
  <2> QED BY <1>4, <1>10, <2>2 DEF PeerFinishes
<1>11. ASSUME NEW s \in Slot, PeerCloses(s)
       PROVE  FALSE
  <2>1. CASE check_req_valid(s, peer[s])
    <3>1. s \in InUse
      BY <2>1 DEF check_req_valid, InUse
    <3>2. InUse' = InUse \ {s}
      <4>1. elements' = [elements EXCEPT ![s] = clean_req(elements[s])]
        BY <1>11, <2>1 DEF PeerCloses
      <4> QED BY <1>1, <4>1, CleanedInUse
    <3>3. req_count > 0
      <4>1. Cardinality(InUse) > 0
        BY <1>2, <3>1
      <4> QED BY <1>1, <1>2, <1>3, <4>1
    <3>4. req_count' = req_count - 1
      BY <1>11, <2>1, <3>3 DEF PeerCloses
    <3> QED BY <1>6, <3>1, <3>2, <3>4
  <2>2. CASE ~check_req_valid(s, peer[s])
    BY <1>5, <1>11, <2>2 DEF PeerCloses
  <2> QED BY <2>1, <2>2
<1>12. ASSUME NEW s \in Slot, NEW t \in Tag, PeerToldClosed(s, t)
       PROVE  FALSE
  BY <1>5, <1>12 DEF PeerToldClosed
<1>13. ASSUME NEW r \in Req, TaskNext(r)
       PROVE  FALSE
  <2>1. UNCHANGED << elements, req_count >> \/ on_request_closed(r)
    BY <1>1, <1>13, TaskFacts
  <2>2. CASE on_request_closed(r) /\ ~ UNCHANGED << elements, req_count >>
    <3> DEFINE i == task[r].req_idx
    <3>1. /\ i \in Slot /\ check_req_valid(i, task[r].req_tag)
          /\ elements' = [elements EXCEPT ![i] = clean_req(elements[i])]
          /\ req_count' = Wrap(req_count - 1)
      BY <1>1, <2>2, ClosedFacts
    <3>2. i \in InUse
      BY <3>1 DEF check_req_valid, InUse
    <3> HIDE DEF i
    <3>3. InUse' = InUse \ {i}
      BY <1>1, <3>1, CleanedInUse
    <3>4. req_count > 0
      <4>1. Cardinality(InUse) > 0
        BY <1>2, <3>1, <3>2
      <4> QED BY <1>1, <1>2, <1>3, <4>1
    <3>5. req_count' = req_count - 1
      BY <1>1, <3>1, <3>4, WrapFacts
    <3> QED BY <1>6, <3>1, <3>2, <3>3, <3>5
  <2> QED BY <1>5, <2>1, <2>2
<1> QED BY <1>7, <1>8, <1>9, <1>10, <1>11, <1>12, <1>13 DEF Next, ConnNext, PeerNext

\* A slot in use is the peer's open request, and what the peer is told of is closed.
LEMMA SlotsStep ==
    ASSUME IInv, [Next]_vars
    PROVE  SlotsKnown'
<1> USE DEF connVars, reqVars, peerVars
<1> DEFINE Known(s) ==
      /\ peer[s] <= peer_tag[s]
      /\ elements[s].is_inused => /\ elements[s].tag # 0
                                  /\ tun_tx \/ discarded
                                  /\ tun_tx => peer[s] = elements[s].tag
      /\ \A t \in Tag : << s, t >> \in to_peer =>
                          /\ t <= peer_tag[s]
                          /\ ~(elements[s].tag = t /\ elements[s].is_inused)
<1>1. /\ TypeOK /\ OneOwner /\ connecting \in Nat
      /\ elements \in [Slot -> XRequest] /\ peer \in [Slot -> Tag] /\ peer_tag \in [Slot -> Tag]
      /\ Tag \subseteq Nat /\ 0 \in Tag
  BY XTunnelAssumption DEF IInv, TypeOK, Tag
<1>2. \A s \in Slot : Known(s)
  BY DEF IInv, SlotsKnown, check_req_valid
<1>3. SUFFICES ASSUME NEW s \in Slot
               PROVE  Known(s)'
  BY DEF SlotsKnown, check_req_valid
<1>4. ASSUME elements'[s] = elements[s], peer'[s] = peer[s], peer_tag'[s] = peer_tag[s],
             \A t \in Tag : << s, t >> \in to_peer' => << s, t >> \in to_peer,
             tun_tx' = tun_tx, discarded => discarded'
      PROVE  Known(s)'
  BY <1>2, <1>4
\* The tables of the peer are new.
<1>5. ASSUME peer'[s] = 0, peer_tag'[s] = 0, to_peer' = {}, ~elements'[s].is_inused
      PROVE  Known(s)'
  BY <1>5
<1>6. CASE on_tunnel_created
  <2>1. CASE discarded
    BY <1>4, <1>6, <2>1 DEF on_tunnel_created
  <2>2. CASE ~discarded
    <3>1. ~tun_tx /\ elements' = elements
      BY <1>1, <1>6 DEF on_tunnel_created, OneOwner
    <3>2. ~elements'[s].is_inused
      BY <1>2, <2>2, <3>1
    <3> QED BY <1>5, <1>6, <2>2, <3>2 DEF on_tunnel_created
  <2> QED BY <2>1, <2>2
<1>7. CASE on_tunnel_closed
  <2>1. CASE discarded
    BY <1>2, <1>7, <2>1 DEF on_tunnel_closed, clear_all
  <2>2. CASE ~discarded
    BY <1>1, <1>5, <1>7, <2>2, LostInUse DEF on_tunnel_closed
  <2> QED BY <2>1, <2>2
<1>8. CASE on_tunnel_build_error \/ keepalive \/ on_pong \/ stop \/ UNCHANGED vars
  BY <1>4, <1>8 DEF on_tunnel_build_error, keepalive, on_pong, stop, vars
<1>9. ASSUME NEW u \in Slot, NEW r \in Req, PeerCreates(u, r)
      PROVE  Known(s)'
  <2>1. PICK t \in Tag, e \in XRequest :
          /\ t = peer_tag[u] + 1 /\ t # 0 /\ tun_tx
          /\ e.tag = t /\ e.is_inused
          /\ elements' = [elements EXCEPT ![u] = e]
          /\ peer' = [peer EXCEPT ![u] = t] /\ peer_tag' = [peer_tag EXCEPT ![u] = t]
          /\ UNCHANGED << connVars, to_peer >>
    BY <1>1, <1>9, CreateFacts
  <2>2. CASE u = s
    <3>1. elements'[s] = e /\ peer'[s] = t /\ peer_tag'[s] = t
      BY <1>1, <2>1, <2>2
    <3>2. ASSUME NEW d \in Tag, << s, d >> \in to_peer
          PROVE  d <= t /\ e.tag # d
      <4>1. d <= peer_tag[s]
        BY <1>2, <3>2
      <4>2. d \in Nat /\ peer_tag[s] \in Nat /\ t = peer_tag[s] + 1
        BY <1>1, <2>1, <2>2
      <4> QED BY <2>1, <4>1, <4>2
    <3>3. t \in Nat /\ t <= t
      BY <1>1
    <3> QED BY <2>1, <3>1, <3>2, <3>3
  <2>3. CASE u # s
    <3>1. UNCHANGED << elements[s], peer[s], peer_tag[s], to_peer, tun_tx, discarded >>
      BY <1>1, <2>1, <2>3
    <3> QED BY <1>4, <3>1
  <2> QED BY <2>2, <2>3
<1>10. ASSUME NEW u \in Slot, PeerFinishes(u)
       PROVE  Known(s)'
  <2>1. /\ elements'[s].is_inused = elements[s].is_inused /\ elements'[s].tag = elements[s].tag
        /\ UNCHANGED << peer, peer_tag, to_peer, tun_tx, discarded >>
    BY <1>1, <1>10 DEF PeerFinishes, XRequest
  <2> QED BY <1>2, <2>1
\* A slot that is cleaned.
<1>11. ASSUME NEW u \in Slot, elements' = [elements EXCEPT ![u] = clean_req(elements[u])]
       PROVE  /\ ~elements'[u].is_inused
              /\ u # s => elements'[s] = elements[s]
  BY <1>1, <1>11, CleanFacts
<1>12. ASSUME NEW u \in Slot, PeerCloses(u)
       PROVE  Known(s)'
  <2>1. peer' = [peer EXCEPT ![u] = 0] /\ UNCHANGED << peer_tag, to_peer, tun_tx, discarded >>
    BY <1>12 DEF PeerCloses
  <2>2. \/ elements' = [elements EXCEPT ![u] = clean_req(elements[u])]
        \/ elements' = elements /\ ~(elements[u].tag = peer[u] /\ elements[u].is_inused)
    BY <1>12 DEF PeerCloses, check_req_valid
  <2>3. CASE u = s
    <3>1. tun_tx
      BY <1>12 DEF PeerCloses
    <3>2. ~elements'[s].is_inused
      BY <1>2, <1>11, <2>2, <2>3, <3>1
    <3>3. peer'[s] = 0 /\ peer_tag[s] \in Nat
      BY <1>1, <2>1, <2>3
    <3> QED BY <1>2, <2>1, <3>2, <3>3
  <2>4. CASE u # s
    <3>1. elements'[s] = elements[s] /\ peer'[s] = peer[s]
      BY <1>1, <1>11, <2>1, <2>2, <2>4
    <3> QED BY <1>4, <2>1, <3>1
  <2> QED BY <2>3, <2>4
<1>13. ASSUME NEW u \in Slot, NEW t \in Tag, PeerToldClosed(u, t)
       PROVE  Known(s)'
  <2>1. /\ << u, t >> \in to_peer /\ to_peer' \subseteq to_peer
        /\ UNCHANGED << elements, peer_tag, tun_tx, discarded >>
        /\ peer'[s] = IF u = s /\ peer[s] = t THEN 0 ELSE peer[s]
    BY <1>1, <1>13 DEF PeerToldClosed
  <2>2. CASE u = s /\ peer[s] = t
    <3>1. ~(elements[s].tag = t /\ elements[s].is_inused)
      BY <1>2, <2>1, <2>2
    <3>2. tun_tx => ~elements[s].is_inused
      BY <1>2, <2>2, <3>1
    <3>3. peer'[s] = 0 /\ peer_tag[s] \in Nat
      BY <1>1, <2>1, <2>2
    <3> QED BY <1>2, <2>1, <3>2, <3>3
  <2>3. CASE ~(u = s /\ peer[s] = t)
    BY <1>4, <2>1, <2>3
  <2> QED BY <2>2, <2>3
<1>14. ASSUME NEW r \in Req, TaskNext(r)
       PROVE  Known(s)'
  <2>1. /\ UNCHANGED << tun_tx, discarded, peer, peer_tag >>
        /\ (UNCHANGED << elements, to_peer >> \/ on_request_closed(r))
    BY <1>1, <1>14, TaskFacts
  <2>2. CASE UNCHANGED << elements, to_peer >>
    BY <1>4, <2>1, <2>2
  <2>3. CASE on_request_closed(r) /\ ~ UNCHANGED << elements, to_peer >>
    <3> DEFINE i == task[r].req_idx
               d == task[r].req_tag
    <3>1. /\ i \in Slot /\ check_req_valid(i, d) /\ tun_tx
          /\ elements' = [elements EXCEPT ![i] = clean_req(elements[i])]
          /\ to_peer' = to_peer \cup {<< i, d >>}
      BY <1>1, <2>3, ClosedFacts
    <3> HIDE DEF i, d
    <3>2. CASE i = s
      <4>1. elements[s].tag = d /\ elements[s].is_inused
        BY <3>1, <3>2 DEF check_req_valid
      <4>2. d <= peer_tag[s]
        BY <1>2, <3>1, <4>1
      <4>3. ~elements'[s].is_inused
        BY <1>11, <3>1, <3>2
      <4> QED BY <1>2, <2>1, <3>1, <4>2, <4>3
    <3>3. CASE i # s
      BY <1>4, <1>11, <2>1, <3>1, <3>3
    <3> QED BY <3>2, <3>3
  <2> QED BY <2>1, <2>2, <2>3
<1> QED BY <1>6, <1>7, <1>8, <1>9, <1>10, <1>12, <1>13, <1>14 DEF Next, ConnNext, PeerNext

\* What the peer has open is open here, or its end is on its way.
LEMMA KnowStep ==
    ASSUME IInv, [Next]_vars
    PROVE  PeerWillKnow'
<1> USE DEF connVars, reqVars, peerVars
<1>1. /\ TypeOK /\ PeerWillKnow
      /\ elements \in [Slot -> XRequest] /\ peer \in [Slot -> Tag]
  BY DEF IInv, TypeOK
<1> DEFINE Known(s) == tun_tx /\ peer[s] # 0 =>
                         check_req_valid(s, peer[s]) \/ << s, peer[s] >> \in to_peer
<1>2. \A s \in Slot : Known(s)
  BY <1>1 DEF PeerWillKnow
<1>3. ASSUME tun_tx' = tun_tx, UNCHANGED << elements, peer, to_peer >>
      PROVE  PeerWillKnow'
  BY <1>2, <1>3 DEF PeerWillKnow, check_req_valid
<1>4. CASE on_tunnel_created
  <2>1. CASE discarded
    BY <1>3, <1>4, <2>1 DEF on_tunnel_created
  <2>2. CASE ~discarded
    BY <1>4, <2>2 DEF on_tunnel_created, PeerWillKnow
  <2> QED BY <2>1, <2>2
<1>5. CASE on_tunnel_closed
  BY <1>5 DEF on_tunnel_closed, PeerWillKnow
<1>6. CASE on_tunnel_build_error \/ keepalive \/ on_pong \/ stop \/ UNCHANGED vars
  BY <1>3, <1>6 DEF on_tunnel_build_error, keepalive, on_pong, stop, vars
<1>7. ASSUME NEW s \in Slot, NEW r \in Req, PeerCreates(s, r)
      PROVE  PeerWillKnow'
  <2>1. PICK t \in Tag, e \in XRequest :
          /\ e.tag = t /\ e.is_inused
          /\ elements' = [elements EXCEPT ![s] = e]
          /\ peer' = [peer EXCEPT ![s] = t]
          /\ UNCHANGED << connVars, to_peer >>
    BY <1>1, <1>7, CreateFacts
  <2>2. \A u \in Slot : u # s => elements'[u] = elements[u] /\ peer'[u] = peer[u]
    BY <1>1, <2>1
  <2>3. elements'[s] = e /\ peer'[s] = t
    BY <1>1, <2>1
  <2> QED BY <1>2, <2>1, <2>2, <2>3 DEF PeerWillKnow, check_req_valid
<1>8. ASSUME NEW s \in Slot, PeerFinishes(s)
      PROVE  PeerWillKnow'
  <2>1. \A u \in Slot : /\ elements'[u].is_inused = elements[u].is_inused
                        /\ elements'[u].tag = elements[u].tag
    BY <1>1, <1>8 DEF PeerFinishes, XRequest
  <2>2. UNCHANGED << peer, to_peer, tun_tx >>
    BY <1>8 DEF PeerFinishes
  <2> QED BY <1>2, <2>1, <2>2 DEF PeerWillKnow, check_req_valid
<1>9. ASSUME NEW s \in Slot, PeerCloses(s)
      PROVE  PeerWillKnow'
  <2>1. peer'[s] = 0 /\ UNCHANGED << to_peer, tun_tx >>
        /\ \A u \in Slot : u # s => elements'[u] = elements[u] /\ peer'[u] = peer[u]
    BY <1>1, <1>9 DEF PeerCloses
  <2> QED BY <1>2, <2>1 DEF PeerWillKnow, check_req_valid
<1>10. ASSUME NEW s \in Slot, NEW t \in Tag, PeerToldClosed(s, t)
       PROVE  PeerWillKnow'
  <2>1. /\ to_peer' = to_peer \ {<< s, t >>} /\ UNCHANGED << elements, tun_tx >>
        /\ \A u \in Slot : peer'[u] = IF u = s /\ peer[u] = t THEN 0 ELSE peer[u]
    BY <1>1, <1>10 DEF PeerToldClosed
  <2> QED BY <1>2, <2>1 DEF PeerWillKnow, check_req_valid
<1>11. ASSUME NEW r \in Req, TaskNext(r)
       PROVE  PeerWillKnow'
  <2>1. UNCHANGED << tun_tx, peer >>
        /\ (UNCHANGED << elements, to_peer >> \/ on_request_closed(r))
    BY <1>1, <1>11, TaskFacts
  <2>2. CASE UNCHANGED << elements, to_peer >>
    BY <1>3, <2>1, <2>2
  <2>3. CASE on_request_closed(r) /\ ~ UNCHANGED << elements, to_peer >>
    <3> DEFINE i == task[r].req_idx
               t == task[r].req_tag
    <3>1. /\ i \in Slot /\ check_req_valid(i, t)
          /\ elements' = [elements EXCEPT ![i] = clean_req(elements[i])]
          /\ to_peer' = to_peer \cup {<< i, t >>}
      BY <1>1, <2>3, ClosedFacts
    <3> HIDE DEF i, t
    <3>2. \A u \in Slot : u # i => elements'[u] = elements[u]
      BY <1>1, <3>1
    <3>3. elements[i].tag = t
      BY <3>1 DEF check_req_valid
    <3> QED BY <1>2, <2>1, <3>1, <3>2, <3>3 DEF PeerWillKnow, check_req_valid
  <2> QED BY <2>1, <2>2, <2>3
<1> QED BY <1>4, <1>5, <1>6, <1>7, <1>8, <1>9, <1>10, <1>11 DEF Next, ConnNext, PeerNext

\* The tags of the tasks of the present connection.
LEMMA TagsStep ==
    ASSUME IInv, [Next]_vars
    PROVE  TagsOrdered'
<1> USE DEF connVars, reqVars, peerVars
<1>1. /\ TypeOK /\ TagsOrdered /\ OneOwner
      /\ elements \in [Slot -> XRequest] /\ peer_tag \in [Slot -> Tag]
      /\ task \in [Req -> Task] /\ connecting \in Nat
      /\ \A r \in Req : task[r].req_idx \in Slot /\ task[r].req_tag \in Tag
  BY DEF IInv, TypeOK, Task
<1>2. ASSUME NEW r \in Req, task[r].now
      PROVE  /\ tun_tx /\ task[r].req_tag <= peer_tag[task[r].req_idx]
             /\ /\ elements[task[r].req_idx].tag = task[r].req_tag
                /\ elements[task[r].req_idx].is_inused
                => elements[task[r].req_idx].trigger = r
  BY <1>1, <1>2 DEF TagsOrdered, check_req_valid, SlotOf
\* A slot may be cleaned, but is not given a trigger.
<1>3. ASSUME tun_tx' = tun_tx, UNCHANGED << peer_tag >>,
             \A r \in Req : task'[r].now => /\ task[r].now
                                            /\ task'[r].req_idx = task[r].req_idx
                                            /\ task'[r].req_tag = task[r].req_tag,
             \A s \in Slot : elements'[s].is_inused =>
                               /\ elements[s].is_inused
                               /\ elements'[s].tag = elements[s].tag
                               /\ elements'[s].trigger = elements[s].trigger
      PROVE  TagsOrdered'
  <2> SUFFICES ASSUME NEW r \in Req, task'[r].now
               PROVE  /\ tun_tx' /\ task'[r].req_tag <= peer_tag'[task'[r].req_idx]
                      /\ /\ elements'[task'[r].req_idx].tag = task'[r].req_tag
                         /\ elements'[task'[r].req_idx].is_inused
                         => elements'[task'[r].req_idx].trigger = r
    BY DEF TagsOrdered, check_req_valid, SlotOf
  <2>1. task[r].now /\ task'[r].req_idx = task[r].req_idx /\ task'[r].req_tag = task[r].req_tag
        /\ task[r].req_idx \in Slot
    BY <1>1, <1>3
  <2> QED BY <1>2, <1>3, <2>1
<1>4. CASE on_tunnel_created
  <2>1. CASE discarded
    BY <1>3, <1>4, <2>1 DEF on_tunnel_created
  <2>2. CASE ~discarded
    <3>1. ~tun_tx /\ task' = task
      BY <1>1, <1>4 DEF on_tunnel_created, OneOwner
    <3> QED BY <1>2, <3>1 DEF TagsOrdered
  <2> QED BY <2>1, <2>2
<1>5. CASE on_tunnel_closed
  <2>1. \A r \in Req : ~task'[r].now
    BY <1>1, <1>5 DEF on_tunnel_closed, Task
  <2> QED BY <2>1 DEF TagsOrdered
<1>6. CASE on_tunnel_build_error \/ keepalive \/ on_pong \/ stop \/ UNCHANGED vars
  <2>1. UNCHANGED << tun_tx, peer_tag, task, elements >>
    BY <1>6 DEF on_tunnel_build_error, keepalive, on_pong, stop, vars
  <2> QED BY <1>3, <2>1
<1>7. ASSUME NEW s \in Slot, NEW r \in Req, PeerCreates(s, r)
      PROVE  TagsOrdered'
  <2>1. PICK t \in Tag, e \in XRequest :
          /\ t = peer_tag[s] + 1 /\ tun_tx /\ e.tag = t
          /\ elements' = [elements EXCEPT ![s] = e]
          /\ peer_tag' = [peer_tag EXCEPT ![s] = t]
          /\ UNCHANGED << connVars, to_peer >>
          /\ \/ discarded /\ UNCHANGED << req_count, task >>
             \/ /\ e.trigger = r
                /\ task' = [task EXCEPT ![r] =
                              [st |-> "connecting", req_idx |-> s, req_tag |-> t,
                               now |-> TRUE, sending |-> FALSE, receiving |-> FALSE]]
    BY <1>1, <1>7, CreateFacts
  <2>2. t \in Nat /\ peer_tag[s] \in Nat
    BY <1>1, XTunnelAssumption DEF Tag
  <2>3. \A u \in Slot : /\ elements'[u] = IF u = s THEN e ELSE elements[u]
                        /\ peer_tag'[u] = IF u = s THEN t ELSE peer_tag[u]
    BY <1>1, <2>1
  <2>4. ASSUME NEW d \in Req, task'[d] = task[d], task[d].now
        PROVE  /\ task'[d].req_tag <= peer_tag'[task'[d].req_idx]
               /\ /\ elements'[task'[d].req_idx].tag = task'[d].req_tag
                  /\ elements'[task'[d].req_idx].is_inused
                  => elements'[task'[d].req_idx].trigger = d
    <3>1. task[d].req_idx \in Slot /\ task[d].req_tag \in Nat
          /\ task[d].req_tag <= peer_tag[task[d].req_idx]
      BY <1>1, <1>2, <2>4, XTunnelAssumption DEF Tag
    <3>2. CASE task[d].req_idx = s
      BY <2>1, <2>2, <2>3, <2>4, <3>1, <3>2
    <3>3. CASE task[d].req_idx # s
      BY <1>2, <2>3, <2>4, <3>1, <3>3
    <3> QED BY <3>2, <3>3
  <2>5. ASSUME NEW d \in Req, task'[d].now, task'[d] # task[d]
        PROVE  /\ task'[d].req_tag <= peer_tag'[task'[d].req_idx]
               /\ elements'[task'[d].req_idx].trigger = d
    <3>1. d = r /\ task'[d].req_idx = s /\ task'[d].req_tag = t /\ e.trigger = r
      BY <1>1, <2>1, <2>5
    <3> QED BY <2>1, <2>2, <2>3, <3>1
  <2>6. tun_tx'
    BY <2>1
  <2> QED BY <2>4, <2>5, <2>6 DEF TagsOrdered, check_req_valid, SlotOf
<1>8. ASSUME NEW s \in Slot, PeerFinishes(s)
      PROVE  TagsOrdered'
  <2>1. /\ UNCHANGED << tun_tx, peer_tag, task >>
        /\ \A u \in Slot : /\ elements'[u].is_inused = elements[u].is_inused
                           /\ elements'[u].tag = elements[u].tag
                           /\ elements'[u].trigger = elements[u].trigger
    BY <1>1, <1>8 DEF PeerFinishes, XRequest
  <2> QED BY <1>3, <2>1
<1>9. ASSUME NEW s \in Slot, elements' = [elements EXCEPT ![s] = clean_req(elements[s])],
             NEW u \in Slot, elements'[u].is_inused
      PROVE  elements'[u] = elements[u]
  BY <1>1, <1>9, CleanFacts
<1>10. ASSUME NEW s \in Slot, PeerCloses(s)
       PROVE  TagsOrdered'
  <2>1. /\ UNCHANGED << tun_tx, peer_tag, task >>
        /\ elements' = [elements EXCEPT ![s] = clean_req(elements[s])] \/ elements' = elements
    BY <1>10 DEF PeerCloses
  <2>2. \A u \in Slot : elements'[u].is_inused => elements'[u] = elements[u]
    BY <1>9, <2>1
  <2> QED BY <1>3, <2>1, <2>2
<1>11. ASSUME NEW s \in Slot, NEW t \in Tag, PeerToldClosed(s, t)
       PROVE  TagsOrdered'
  <2>1. UNCHANGED << tun_tx, peer_tag, task, elements >>
    BY <1>11 DEF PeerToldClosed
  <2> QED BY <1>3, <2>1
<1>12. ASSUME NEW r \in Req, TaskNext(r)
       PROVE  TagsOrdered'
  <2>1. /\ UNCHANGED << tun_tx, peer_tag >>
        /\ elements' = elements \/ on_request_closed(r)
    BY <1>1, <1>12, TaskFacts
  <2>2. PICK t \in Task :
          /\ task' = [task EXCEPT ![r] = t]
          /\ t.now => /\ task[r].now /\ t.req_idx = task[r].req_idx
                      /\ t.req_tag = task[r].req_tag
    BY <1>1, <1>12, TaskFacts
  <2>3. \A d \in Req : task'[d].now => /\ task[d].now
                                       /\ task'[d].req_idx = task[d].req_idx
                                       /\ task'[d].req_tag = task[d].req_tag
    BY <1>1, <2>2
  <2>4. \A u \in Slot : elements'[u].is_inused => elements'[u] = elements[u]
    <3>1. CASE elements' = elements
      BY <3>1
    <3>2. CASE on_request_closed(r) /\ elements' # elements
      <4>1. task[r].req_idx \in Slot
            /\ elements' = [elements EXCEPT ![task[r].req_idx] = clean_req(elements[task[r].req_idx])]
        BY <1>1, <3>2, ClosedFacts
      <4> QED BY <1>9, <4>1
    <3> QED BY <2>1, <3>1, <3>2
  <2> QED BY <1>3, <2>1, <2>3, <2>4
<1> QED BY <1>4, <1>5, <1>6, <1>7, <1>8, <1>10, <1>11, <1>12 DEF Next, ConnNext, PeerNext

-----------------------------------------------------------------------------
(***************************************************************************)
(* The theorems.                                                           *)
(***************************************************************************)

\* The invariant holds in every state.
THEOREM Invariance == Spec => []IInv
<1>1. Init => IInv
  BY InitIInv
<1>2. IInv /\ [Next]_vars => IInv'
  <2> SUFFICES ASSUME IInv, [Next]_vars PROVE IInv'
    OBVIOUS
  <2> QED BY TypeStep, OwnerStep, SlotsStep, KnowStep, TagsStep DEF IInv
<1> QED BY <1>1, <1>2, PTL DEF Spec

\* The variables have their types.
THEOREM TypeCorrect == Spec => []TypeOK
<1>1. IInv => TypeOK
  BY DEF IInv
<1> QED BY <1>1, Invariance, PTL

\* req_count departs from the slots in use only when a connection is lost or when
\* the u16 wraps: until then the unguarded decrement of on_request_closed
\* (xtunnel.rs:447) does not underflow.
THEOREM CountCorrect == Spec => CountKeepsPace
<1>1. IInv /\ [Next]_vars =>
        [Drift >= 0 /\ Drift' # Drift /\ ~discarded' =>
           \/ tun_tx /\ ~tun_tx' /\ InUse' = {} /\ req_count' = req_count
           \/ req_count = CountMod - 1 /\ req_count' = 0]_vars
  BY CountStep
<1> QED BY <1>1, Invariance, PTL DEF Spec, CountKeepsPace

\* The peer learns of every request that is closed here (on_request_closed sends
\* the message for whichever task frees the slot).
THEOREM PeerLearns == Spec => []PeerWillKnow
<1>1. IInv => PeerWillKnow
  BY DEF IInv
<1> QED BY <1>1, Invariance, PTL

\* A request that closes over its own connection frees its own slot and no other
\* (check_req_valid compares the tags).
THEOREM OwnSlotFreed == Spec => OwnFree
<1>1. IInv /\ [Next]_vars =>
        [\A r \in Req :
           task[r].st # "idle" /\ task'[r].st = "idle" /\ task[r].now
             /\ elements' # elements => SlotOf(r).trigger = r]_vars
  <2> SUFFICES ASSUME IInv, Next, NEW r \in Req, task[r].st # "idle", task'[r].st = "idle",
                      task[r].now, elements' # elements
               PROVE  SlotOf(r).trigger = r
    OBVIOUS
  <2> USE DEF connVars, reqVars, peerVars
  <2>1. TypeOK /\ TagsOrdered /\ task \in [Req -> Task]
    BY DEF IInv, TypeOK
  <2>2. ~ConnNext
    <3>1. \A d \in Req : on_tunnel_closed => task'[d].st = task[d].st
      BY <2>1 DEF on_tunnel_closed, Task
    <3> QED BY <3>1 DEF ConnNext, on_tunnel_created, on_tunnel_build_error, keepalive, on_pong,
                        stop
  <2>3. ASSUME NEW s \in Slot, PeerNext(s)
        PROVE  FALSE
    <3>1. ASSUME NEW d \in Req, PeerCreates(s, d)
          PROVE  task'[r].st # "idle"
      <4>1. PICK t \in Tag :
              \/ UNCHANGED << req_count, task >>
              \/ task' = [task EXCEPT ![d] =
                            [st |-> "connecting", req_idx |-> s, req_tag |-> t,
                             now |-> TRUE, sending |-> FALSE, receiving |-> FALSE]]
        BY <2>1, <3>1, CreateFacts
      <4>2. CASE UNCHANGED << req_count, task >>
        BY <4>2
      <4>3. CASE task' = [task EXCEPT ![d] =
                            [st |-> "connecting", req_idx |-> s, req_tag |-> t,
                             now |-> TRUE, sending |-> FALSE, receiving |-> FALSE]]
        BY <2>1, <4>3
      <4> QED BY <4>1, <4>2, <4>3
    <3> QED BY <2>3, <3>1 DEF PeerNext, PeerFinishes, PeerCloses, PeerToldClosed
  <2>4. PICK d \in Req : TaskNext(d)
    BY <2>2, <2>3 DEF Next
  <2>5. d = r
    <3>1. \E t \in Task : task' = [task EXCEPT ![d] = t]
      BY <2>1, <2>4, TaskFacts
    <3> QED BY <2>1, <3>1
  <2>6. check_req_valid(task[r].req_idx, task[r].req_tag)
    BY <2>1, <2>4, <2>5, TaskFacts, ClosedFacts
  <2> QED BY <2>1, <2>6 DEF TagsOrdered
<1> QED BY <1>1, Invariance, PTL DEF Spec, OwnFree

-----------------------------------------------------------------------------
(***************************************************************************)
(* The XTunnel implements a Pool of one connection.                        *)
(***************************************************************************)
Place == IF connecting = 1 THEN "attempt"
         ELSE IF tun_tx THEN "up"
         ELSE IF discarded THEN "gone" ELSE "waiting"

PlaceWhere == [i \in {0} |-> Place]

LEMMA WhereLemma == IInv => PoolWhere = PlaceWhere
<1> SUFFICES ASSUME IInv PROVE PoolPlace = Place
  BY DEF PoolWhere, PlaceWhere
<1>1. /\ connecting \in Nat /\ tun_tx \in BOOLEAN /\ need_reconnect \in BOOLEAN
      /\ discarded \in BOOLEAN
      /\ connecting <= 1 /\ ~(connecting = 1 /\ tun_tx)
      /\ need_reconnect => connecting = 0 /\ ~tun_tx
      /\ ~discarded => connecting = 1 \/ tun_tx \/ need_reconnect
  BY DEF IInv, TypeOK, OneOwner
<1>2. Waiting <=> ~discarded /\ connecting # 1 /\ ~tun_tx
  BY <1>1 DEF Waiting
<1>3. ~(Owners > 1)
  BY <1>1, <1>2 DEF Owners
<1> QED BY <1>1, <1>2, <1>3 DEF PoolPlace, Place

LEMMA WhereStep ==
    ASSUME IInv, IInv'
    PROVE  PoolWhere = PlaceWhere /\ PoolWhere' = PlaceWhere'
<1>1. (IInv => PoolWhere = PlaceWhere)'
  BY WhereLemma, PTL
<1> QED BY <1>1, WhereLemma

\* Every step of the XTunnel is a step of the Pool or none.
LEMMA PoolStep ==
    ASSUME IInv, IInv', [Next]_vars
    PROVE  [P!Next]_(P!vars)
<1> USE DEF connVars
<1>1. /\ PoolWhere = PlaceWhere /\ PoolWhere' = PlaceWhere' /\ PoolWhere[0] = Place
      /\ connecting \in Nat /\ connecting <= 1 /\ ~(connecting = 1 /\ tun_tx)
      /\ need_reconnect => connecting = 0 /\ ~tun_tx
      /\ ~discarded => connecting = 1 \/ tun_tx \/ need_reconnect
  BY WhereStep DEF IInv, TypeOK, OneOwner, PlaceWhere
<1>2. PoolWhere' = [PoolWhere EXCEPT ![0] = Place'] /\ 0 \in {0}
  BY <1>1 DEF PlaceWhere
<1>3. CASE on_tunnel_created
  <2>1. /\ Place = "attempt" /\ discarded' = discarded
        /\ Place' = IF discarded THEN "gone" ELSE "up"
    BY <1>1, <1>3 DEF on_tunnel_created, Place
  <2>2. P!AttemptEnds(0)
    BY <1>1, <1>2, <2>1 DEF P!AttemptEnds, P!Rest
  <2> QED BY <1>2, <2>2 DEF P!Next
<1>4. CASE on_tunnel_build_error
  <2>1. /\ Place = "attempt" /\ discarded' = discarded
        /\ Place' = IF discarded THEN "gone" ELSE "waiting"
    BY <1>1, <1>4 DEF on_tunnel_build_error, Place
  <2>2. P!AttemptEnds(0)
    BY <1>1, <1>2, <2>1 DEF P!AttemptEnds, P!Rest
  <2> QED BY <1>2, <2>2 DEF P!Next
<1>5. CASE on_tunnel_closed
  <2>1. /\ Place = "up" /\ discarded' = discarded
        /\ Place' = IF discarded THEN "gone" ELSE "waiting"
    BY <1>1, <1>5 DEF on_tunnel_closed, Place
  <2>2. P!Lose(0)
    BY <1>1, <1>2, <2>1 DEF P!Lose, P!Rest
  <2> QED BY <1>2, <2>2 DEF P!Next
<1>6. CASE keepalive
  <2>1. ~discarded /\ discarded' = discarded
    BY <1>6 DEF keepalive
  <2>2. Place' = IF Place = "waiting" THEN "attempt" ELSE Place
    BY <1>1, <1>6 DEF keepalive, Place
  <2>3. PoolWhere' = [i \in {0} |-> IF PoolWhere[i] = "waiting" THEN "attempt"
                                                               ELSE PoolWhere[i]]
    BY <1>1, <2>2 DEF PlaceWhere
  <2> QED BY <2>1, <2>3 DEF P!Next, P!Retry
<1>7. CASE stop
  <2>1. ~discarded /\ discarded' = TRUE
    BY <1>7 DEF stop
  <2>2. Place' = IF Place = "waiting" THEN "gone" ELSE Place
    BY <1>7 DEF stop, Place
  <2>3. PoolWhere' = [i \in {0} |-> IF PoolWhere[i] = "waiting" \/ i \in {} THEN "gone"
                                                                           ELSE PoolWhere[i]]
    BY <1>1, <2>2 DEF PlaceWhere
  <2>4. \E dead \in SUBSET {i \in {0} : PoolWhere[i] = "up"} :
          PoolWhere' = [i \in {0} |-> IF PoolWhere[i] = "waiting" \/ i \in dead
                                        THEN "gone" ELSE PoolWhere[i]]
    <3> WITNESS {} \in SUBSET {i \in {0} : PoolWhere[i] = "up"}
    <3> QED BY <2>3
  <2> QED BY <2>1, <2>4 DEF P!Next, P!Stop
<1>8. ASSUME UNCHANGED << connecting, tun_tx, discarded >>
      PROVE  UNCHANGED P!vars
  BY <1>1, <1>8 DEF P!vars, PlaceWhere, Place
<1>9. CASE on_pong \/ UNCHANGED vars
  BY <1>8, <1>9 DEF on_pong, vars
<1>10. ASSUME NEW s \in Slot, PeerNext(s)
       PROVE  UNCHANGED P!vars
  <2>1. UNCHANGED connVars
    BY <1>10 DEF PeerNext, PeerCreates, PeerFinishes, PeerCloses, PeerToldClosed
  <2> QED BY <1>8, <2>1
<1>11. ASSUME NEW r \in Req, TaskNext(r)
       PROVE  UNCHANGED P!vars
  <2>1. UNCHANGED connVars
    BY <1>11, TaskFacts DEF IInv
  <2> QED BY <1>8, <2>1
<1> QED BY <1>3, <1>4, <1>5, <1>6, <1>7, <1>9, <1>10, <1>11 DEF Next, ConnNext

\* There is never a second connection or attempt, a lost one is tried again by a
\* keep-alive, and none is taken after the stop: the XTunnel implements a Pool.
THEOREM PoolImplemented == Spec => ImplementsPool
<1>1. Init => P!Init
  <2> SUFFICES ASSUME Init PROVE P!Init
    OBVIOUS
  <2>1. PoolWhere = PlaceWhere
    BY InitIInv, WhereLemma
  <2>2. Place = "attempt"
    BY DEF Init, Place
  <2> QED BY <2>1, <2>2 DEF Init, P!Init, PlaceWhere
<1>2. IInv /\ IInv' /\ [Next]_vars => [P!Next]_(P!vars)
  BY PoolStep
<1> QED BY <1>1, <1>2, Invariance, PTL DEF Spec, P!Spec, ImplementsPool

=============================================================================
