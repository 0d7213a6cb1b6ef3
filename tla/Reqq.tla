-------------------------------- MODULE Reqq --------------------------------
(***************************************************************************)
(* The slot table of one tunnel (src/tunnels/reqq.rs and request.rs).      *)
(*                                                                         *)
(* A tunnel multiplexes requests: each one owns a slot of the table, and a *)
(* message on the wire names its request by (slot index, tag).  A slot     *)
(* keeps the sender of the request's channel (request_tx) and the trigger  *)
(* whose drop ends the request's receiving half.  Both are represented by  *)
(* the request they belong to, or NoReq once they have been dropped.       *)
(*                                                                         *)
(* The module is a library of operators on tables, without variables.      *)
(***************************************************************************)
EXTENDS Integers, Sequences

CONSTANTS
    ReqCap,   \* number of slots: tunnel_req_cap
    TagMod,   \* tags are u16 in the code: 2^16
    Req,      \* the request tasks
    NoReq     \* None: no sender, no trigger

ASSUME ReqqAssumption ==
    /\ ReqCap \in Nat \ {0}
    /\ TagMod \in Nat \ {0}
    /\ TagMod % 2 = 0
    /\ NoReq \notin Req

Slot == 0 .. ReqCap - 1
Tag == 0 .. TagMod - 1

Element == [tag : Tag, request_tx : Req \cup {NoReq}, trigger : Req \cup {NoReq}]
Table == [elements : [Slot -> Element], free : Seq(Slot)]

\* A table as Reqq::new builds it: popping `free' from its end yields 0 first.
new ==
    [elements |-> [s \in Slot |->
                     [tag |-> 0, request_tx |-> NoReq, trigger |-> NoReq]],
     free |-> [n \in 1 .. ReqCap |-> ReqCap - n]]

\* tag + 1 on a u16; the release build wraps around.
bump(t) == (t + 1) % TagMod

\* The slot and the tag that the next alloc hands out; `free' is a stack.
alloc_idx(q) == q.free[Len(q.free)]
alloc_tag(q) == bump(q.elements[alloc_idx(q)].tag)

\* Only used when `free' is not empty; otherwise alloc returns (MAX, MAX).
alloc(q, r) ==
    [elements |-> [q.elements EXCEPT ![alloc_idx(q)] =
                     [tag |-> alloc_tag(q), request_tx |-> r, trigger |-> r]],
     free |-> SubSeq(q.free, 1, Len(q.free) - 1)]

\* Mutant: the tag is not advanced when a slot is cleaned.
clean_req_same_tag(e) == [e EXCEPT !.request_tx = NoReq, !.trigger = NoReq]

\* Mutant: the sender of the request's channel is not dropped.
clean_req_keeps_tx(e) == [e EXCEPT !.tag = bump(@), !.trigger = NoReq]

clean_req(e) == [tag |-> bump(e.tag), request_tx |-> NoReq, trigger |-> NoReq]

\* Mutant: the tag is not compared.
free_ok_untagged(q, s, t) == s \in Slot

\* The two tests of Reqq::free.  There is no test that the slot is in use.
free_ok(q, s, t) == s \in Slot /\ q.elements[s].tag = t

free(q, s, t) ==
    IF free_ok(q, s, t)
      THEN [elements |-> [q.elements EXCEPT ![s] = clean_req(q.elements[s])],
            free |-> Append(q.free, s)]
      ELSE q

\* The table of a closed tunnel: everything dropped, nothing can be allocated.
clear_all(q) ==
    [elements |-> [s \in Slot |-> clean_req(q.elements[s])], free |-> << >>]

\* The slots of a table, split by the parity of their tags: alloc makes a tag
\* odd and clean_req makes it even again, which survives the wrap-around of
\* the u16.  The free stack holds each slot with an even tag once, a slot with
\* an odd tag is in use, and n counts the slots in use.
Accounted(q, n) ==
    /\ \A s \in Slot : /\ (\E k \in DOMAIN q.free : q.free[k] = s)
                           <=> q.elements[s].tag % 2 = 0
                       /\ q.elements[s].trigger = NoReq
                           <=> q.elements[s].tag % 2 = 0
                       /\ q.elements[s].request_tx # NoReq
                           => q.elements[s].request_tx = q.elements[s].trigger
    /\ \A k, l \in DOMAIN q.free : q.free[k] = q.free[l] => k = l
    /\ n = ReqCap - Len(q.free)
=============================================================================
