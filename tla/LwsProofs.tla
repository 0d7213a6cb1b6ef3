----------------------------- MODULE LwsProofs -----------------------------
(***************************************************************************)
(* Whatever the sizes, and however a connection cuts the bytes, messages   *)
(* come through the framing whole and in order (FramesStayIntact).         *)
(*                                                                         *)
(* The invariant (IInv) says of every byte that is under way where it is:  *)
(* what the reader has, what the handshake passed on, what the connection  *)
(* has and what is left of the message that is being written are, behind   *)
(* the response of the handshake, the messages that have left the channel  *)
(* and were not received (PipeInv, Framed).  A header that the reader has  *)
(* is then the header of the next message, and the length that it knows is *)
(* that message's (ReadInv).  The same is said of the data: what was       *)
(* written to the socket is followed by the bodies of the messages that    *)
(* come next (LocalInv).                                                   *)
(***************************************************************************)
EXTENDS Lws, SequenceTheorems, TLAPS

-----------------------------------------------------------------------------
(***************************************************************************)
(* Sequences that are cut and joined.                                      *)
(***************************************************************************)

Bytes == Seq(Int)

\* The first n elements of a sequence, and the others.
Upto(s, n) == SubSeq(s, 1, n)
From(s, n) == SubSeq(s, n + 1, Len(s))

\* What SubSeq is, element by element.
LEMMA Cut ==
    ASSUME NEW s \in Bytes, NEW a \in 0 .. Len(s), NEW b \in a .. Len(s)
    PROVE  /\ SubSeq(s, a + 1, b) \in Bytes
           /\ Len(SubSeq(s, a + 1, b)) = b - a
           /\ \A i \in 1 .. b - a : SubSeq(s, a + 1, b)[i] = s[a + i]
<1>1. Len(s) \in Nat /\ a \in Int /\ b \in Int
  BY LenProperties DEF Bytes
<1>2. \A i \in a + 1 .. b : s[i] \in Int
  BY <1>1 DEF Bytes
<1>3. /\ SubSeq(s, a + 1, b) \in Seq(Int)
      /\ Len(SubSeq(s, a + 1, b)) = IF a + 1 <= b THEN b - (a + 1) + 1 ELSE 0
      /\ \A i \in 1 .. b - (a + 1) + 1 : SubSeq(s, a + 1, b)[i] = s[a + 1 + i - 1]
  BY <1>1, <1>2, SubSeqProperties, a + 1 \in Int
<1> QED BY <1>1, <1>3 DEF Bytes

\* The two halves of a sequence.
LEMMA Halves ==
    ASSUME NEW s \in Bytes, NEW n \in 0 .. Len(s)
    PROVE  /\ Upto(s, n) \in Bytes /\ From(s, n) \in Bytes
           /\ Len(Upto(s, n)) = n /\ Len(From(s, n)) = Len(s) - n
           /\ \A i \in 1 .. n : Upto(s, n)[i] = s[i]
           /\ \A i \in 1 .. Len(s) - n : From(s, n)[i] = s[n + i]
           /\ Upto(s, n) \o From(s, n) = s
<1>1. Len(s) \in Nat /\ n \in Nat
  BY LenProperties DEF Bytes
<1>2. /\ Upto(s, n) \in Bytes /\ Len(Upto(s, n)) = n
      /\ \A i \in 1 .. n : Upto(s, n)[i] = s[i]
  BY <1>1, Cut, 0 \in 0 .. Len(s), n \in 0 .. Len(s), 0 + 1 = 1 DEF Upto
<1>3. /\ From(s, n) \in Bytes /\ Len(From(s, n)) = Len(s) - n
      /\ \A i \in 1 .. Len(s) - n : From(s, n)[i] = s[n + i]
  BY <1>1, Cut, Len(s) \in n .. Len(s) DEF From
<1>4. ASSUME NEW p \in Bytes, NEW q \in Bytes, Len(p) = n, Len(q) = Len(s) - n,
             \A i \in 1 .. n : p[i] = s[i],
             \A i \in 1 .. Len(s) - n : q[i] = s[n + i]
      PROVE  p \o q = s
  <2>1. /\ p \o q \in Seq(Int) /\ Len(p \o q) = Len(s)
        /\ \A i \in 1 .. Len(s) : (p \o q)[i] = IF i <= n THEN p[i] ELSE q[i - n]
    <3>1. /\ p \o q \in Seq(Int) /\ Len(p \o q) = Len(p) + Len(q)
          /\ \A i \in 1 .. Len(p) + Len(q) : (p \o q)[i] = IF i <= Len(p) THEN p[i] ELSE q[i - Len(p)]
      BY ConcatProperties DEF Bytes
    <3>2. Len(p) + Len(q) = Len(s)
      BY <1>1, <1>4
    <3> QED BY <3>1, <3>2, <1>4
  <2>2. ASSUME NEW i \in 1 .. Len(s)
        PROVE  (p \o q)[i] = s[i]
    <3>1. CASE i <= n
      BY <1>1, <1>4, <2>1, <3>1
    <3>2. CASE i > n
      <4>1. i - n \in 1 .. Len(s) - n /\ n + (i - n) = i
        BY <1>1, <3>2
      <4> QED BY <1>1, <1>4, <2>1, <3>2, <4>1
    <3>3. i <= n \/ i > n
      BY <1>1
    <3> QED BY <3>1, <3>2, <3>3
  <2> QED BY <2>1, <2>2, SeqEqual DEF Bytes
<1>5. Upto(s, n) \o From(s, n) = s
  BY <1>2, <1>3, <1>4
<1> QED BY <1>2, <1>3, <1>5

\* Joining, and what is before and after the joint.
LEMMA Joined ==
    ASSUME NEW s \in Bytes, NEW t \in Bytes
    PROVE  /\ s \o t \in Bytes /\ Len(s \o t) = Len(s) + Len(t)
           /\ Len(s) \in Nat /\ Len(t) \in Nat
           /\ \A i \in 1 .. Len(s) : (s \o t)[i] = s[i]
           /\ \A i \in 1 .. Len(t) : (s \o t)[Len(s) + i] = t[i]
<1>1. Len(s) \in Nat /\ Len(t) \in Nat
  BY LenProperties DEF Bytes
<1> QED BY <1>1, ConcatProperties DEF Bytes

\* Joining is associative.
LEMMA Assoc ==
    ASSUME NEW s \in Bytes, NEW t \in Bytes, NEW u \in Bytes
    PROVE  (s \o t) \o u = s \o (t \o u)
BY ConcatAssociative DEF Bytes

\* The empty sequence.
LEMMA Empty ==
    ASSUME NEW s \in Bytes
    PROVE  /\ << >> \in Bytes /\ Len(<< >>) = 0
           /\ s \o << >> = s /\ << >> \o s = s
           /\ Len(s) = 0 => s = << >>
           /\ From(s, 0) = s
<1>1. << >> \in Seq(Int) /\ Len(<< >>) = 0
  BY EmptySeq
<1>2. s \o << >> = s /\ << >> \o s = s
  BY ConcatEmptySeq DEF Bytes
<1>3. Len(s) = 0 => s = << >>
  BY EmptySeq DEF Bytes
<1>4. From(s, 0) = s
  BY SubSeqFull, 0 + 1 = 1 DEF Bytes, From
<1> QED BY <1>1, <1>2, <1>3, <1>4 DEF Bytes

\* The first n bytes of the second sequence move to the end of the first.
LEMMA Moved ==
    ASSUME NEW s \in Bytes, NEW t \in Bytes, NEW n \in 0 .. Len(t)
    PROVE  (s \o Upto(t, n)) \o From(t, n) = s \o t
<1>1. Upto(t, n) \in Bytes /\ From(t, n) \in Bytes /\ Upto(t, n) \o From(t, n) = t
  BY Halves
<1>2. (s \o Upto(t, n)) \o From(t, n) = s \o (Upto(t, n) \o From(t, n))
  BY <1>1, Assoc
<1> QED BY <1>1, <1>2

\* Two pieces that follow one another.
LEMMA Adjacent ==
    ASSUME NEW s \in Bytes, NEW a \in 0 .. Len(s), NEW b \in a .. Len(s), NEW c \in b .. Len(s)
    PROVE  SubSeq(s, a + 1, b) \o SubSeq(s, b + 1, c) = SubSeq(s, a + 1, c)
<1>1. Len(s) \in Nat
  BY LenProperties DEF Bytes
<1>2. a + 1 \in 1 .. Len(s) + 1 /\ b \in (a + 1) - 1 .. Len(s) /\ c \in b .. Len(s)
  BY <1>1
<1>3. s \in Seq(Int)
  BY DEF Bytes
<1> QED BY <1>2, <1>3, ConcatAdjacentSubSeq

\* A piece of a piece.
LEMMA SubSub ==
    ASSUME NEW s \in Bytes, NEW a \in 0 .. Len(s), NEW b \in a .. Len(s), NEW n \in 0 .. b - a
    PROVE  /\ Upto(SubSeq(s, a + 1, b), n) = SubSeq(s, a + 1, a + n)
           /\ From(SubSeq(s, a + 1, b), n) = SubSeq(s, a + n + 1, b)
<1>1. Len(s) \in Nat /\ a \in Nat /\ b \in Nat /\ n \in Nat /\ a + n \in a .. Len(s)
      /\ a + n \in 0 .. Len(s) /\ b \in a + n .. Len(s)
  BY LenProperties DEF Bytes
<1> DEFINE u == SubSeq(s, a + 1, b)
<1>2. u \in Bytes /\ Len(u) = b - a /\ \A i \in 1 .. b - a : u[i] = s[a + i]
  BY Cut
<1> HIDE DEF u
<1>3. n \in 0 .. Len(u)
  BY <1>2
<1>4. /\ Upto(u, n) \in Bytes /\ From(u, n) \in Bytes
      /\ Len(Upto(u, n)) = n /\ Len(From(u, n)) = Len(u) - n
      /\ \A i \in 1 .. n : Upto(u, n)[i] = u[i]
      /\ \A i \in 1 .. Len(u) - n : From(u, n)[i] = u[n + i]
  BY <1>2, <1>3, Halves
<1>5. /\ SubSeq(s, a + 1, a + n) \in Bytes /\ Len(SubSeq(s, a + 1, a + n)) = a + n - a
      /\ \A i \in 1 .. a + n - a : SubSeq(s, a + 1, a + n)[i] = s[a + i]
  <2> DEFINE c == a + n
  <2>1. c \in a .. Len(s)
    BY <1>1
  <2> HIDE DEF c
  <2>2. /\ SubSeq(s, a + 1, c) \in Bytes /\ Len(SubSeq(s, a + 1, c)) = c - a
        /\ \A i \in 1 .. c - a : SubSeq(s, a + 1, c)[i] = s[a + i]
    BY <2>1, Cut
  <2> QED BY <2>2 DEF c
<1>6. /\ SubSeq(s, a + n + 1, b) \in Bytes /\ Len(SubSeq(s, a + n + 1, b)) = b - (a + n)
      /\ \A i \in 1 .. b - (a + n) : SubSeq(s, a + n + 1, b)[i] = s[a + n + i]
  BY <1>1, Cut
<1>7. a + n - a = n /\ b - (a + n) = b - a - n
  BY <1>1
<1>8. Upto(u, n) = SubSeq(s, a + 1, a + n)
  <2>1. \A i \in 1 .. n : Upto(u, n)[i] = SubSeq(s, a + 1, a + n)[i]
    <3> TAKE i \in 1 .. n
    <3>1. i \in 1 .. b - a
      BY <1>1
    <3> QED BY <1>2, <1>4, <1>5, <1>7, <3>1
  <2> QED BY <1>4, <1>5, <1>7, <2>1, SeqEqual DEF Bytes
<1>9. From(u, n) = SubSeq(s, a + n + 1, b)
  <2>1. ASSUME NEW i \in 1 .. b - a - n
        PROVE  From(u, n)[i] = SubSeq(s, a + n + 1, b)[i]
    <3>1. n + i \in 1 .. b - a /\ a + (n + i) = a + n + i
      BY <1>1
    <3> QED BY <1>2, <1>4, <1>6, <1>7, <3>1
  <2>2. Len(From(u, n)) = b - a - n /\ Len(SubSeq(s, a + n + 1, b)) = b - a - n
    BY <1>2, <1>4, <1>6, <1>7
  <2> QED BY <1>4, <1>6, <2>1, <2>2, SeqEqual DEF Bytes
<1> QED BY <1>8, <1>9 DEF u

\* A sequence that begins with s, cut behind s.
LEMMA CutBehind ==
    ASSUME NEW s \in Bytes, NEW t \in Bytes, NEW n \in 0 .. Len(s)
    PROVE  /\ From(s \o t, n) = From(s, n) \o t
           /\ From(s \o t, Len(s)) = t
<1>1. Len(s) \in Nat /\ Len(t) \in Nat /\ n \in Nat
  BY LenProperties DEF Bytes
<1>2. ASSUME NEW k \in 0 .. Len(s)
      PROVE  From(s \o t, k) = From(s, k) \o t
  <2>1. /\ s \o t \in Bytes /\ Len(s \o t) = Len(s) + Len(t)
        /\ \A i \in 1 .. Len(s) : (s \o t)[i] = s[i]
        /\ \A i \in 1 .. Len(t) : (s \o t)[Len(s) + i] = t[i]
    BY Joined
  <2>2. /\ From(s \o t, k) \in Bytes /\ Len(From(s \o t, k)) = Len(s) + Len(t) - k
        /\ \A i \in 1 .. Len(s) + Len(t) - k : From(s \o t, k)[i] = (s \o t)[k + i]
    <3>1. k \in 0 .. Len(s \o t)
      BY <1>1, <2>1
    <3> DEFINE st == s \o t
    <3>2. /\ From(st, k) \in Bytes /\ Len(From(st, k)) = Len(st) - k
          /\ \A i \in 1 .. Len(st) - k : From(st, k)[i] = st[k + i]
      <4>1. st \in Bytes /\ k \in 0 .. Len(st)
        BY <2>1, <3>1
      <4> HIDE DEF st
      <4> QED BY <4>1, Halves
    <3>3. Len(st) = Len(s) + Len(t)
      BY <2>1
    <3> HIDE DEF st
    <3>4. /\ From(st, k) \in Bytes /\ Len(From(st, k)) = Len(s) + Len(t) - k
          /\ \A i \in 1 .. Len(s) + Len(t) - k : From(st, k)[i] = st[k + i]
      BY <3>2, <3>3
    <3> QED BY <3>4 DEF st
  <2>3. /\ From(s, k) \in Bytes /\ Len(From(s, k)) = Len(s) - k
        /\ \A i \in 1 .. Len(s) - k : From(s, k)[i] = s[k + i]
    BY Halves
  <2>4. /\ From(s, k) \o t \in Bytes /\ Len(From(s, k) \o t) = Len(s) - k + Len(t)
        /\ \A i \in 1 .. Len(s) - k : (From(s, k) \o t)[i] = s[k + i]
        /\ \A i \in 1 .. Len(t) : (From(s, k) \o t)[Len(s) - k + i] = t[i]
    <3> DEFINE f == From(s, k)
    <3>1. /\ f \o t \in Bytes /\ Len(f \o t) = Len(f) + Len(t)
          /\ \A i \in 1 .. Len(f) : (f \o t)[i] = f[i]
          /\ \A i \in 1 .. Len(t) : (f \o t)[Len(f) + i] = t[i]
      <4>1. f \in Bytes
        BY <2>3
      <4> HIDE DEF f
      <4> QED BY <4>1, Joined
    <3> HIDE DEF f
    <3>2. Len(f) = Len(s) - k /\ \A i \in 1 .. Len(s) - k : f[i] = s[k + i]
      BY <2>3 DEF f
    <3>3. /\ f \o t \in Bytes /\ Len(f \o t) = Len(s) - k + Len(t)
          /\ \A i \in 1 .. Len(s) - k : (f \o t)[i] = s[k + i]
          /\ \A i \in 1 .. Len(t) : (f \o t)[Len(s) - k + i] = t[i]
      BY <3>1, <3>2
    <3> QED BY <3>3 DEF f
  <2>5. ASSUME NEW i \in 1 .. Len(s) + Len(t) - k
        PROVE  From(s \o t, k)[i] = (From(s, k) \o t)[i]
    <3>1. CASE i <= Len(s) - k
      BY <1>1, <2>1, <2>2, <2>4, <3>1, k + i \in 1 .. Len(s)
    <3>2. CASE i > Len(s) - k
      <4>1. PICK j \in 1 .. Len(t) : i = Len(s) - k + j
        <5>1. i - (Len(s) - k) \in 1 .. Len(t)
          BY <1>1, <3>2
        <5>2. i = Len(s) - k + (i - (Len(s) - k))
          BY <1>1
        <5> QED BY <5>1, <5>2
      <4>2. k + i = Len(s) + j
        BY <1>1, <4>1
      <4>3. (From(s, k) \o t)[i] = t[j] /\ (s \o t)[k + i] = t[j]
        BY <2>1, <2>4, <4>1, <4>2
      <4> QED BY <2>2, <4>3
    <3>3. i <= Len(s) - k \/ i > Len(s) - k
      BY <1>1
    <3> QED BY <3>1, <3>2, <3>3
  <2>6. Len(From(s \o t, k)) = Len(From(s, k) \o t)
    BY <1>1, <2>2, <2>4
  <2>7. \A i \in 1 .. Len(From(s \o t, k)) : From(s \o t, k)[i] = (From(s, k) \o t)[i]
    BY <2>2, <2>5
  <2> QED BY <2>2, <2>4, <2>6, <2>7, SeqEqual DEF Bytes
<1>3. From(s \o t, Len(s)) = t
  <2>1. From(s \o t, Len(s)) = From(s, Len(s)) \o t
    BY <1>1, <1>2, Len(s) \in 0 .. Len(s)
  <2>2. From(s, Len(s)) = << >>
    BY <1>1, Halves, Empty, Len(s) \in 0 .. Len(s)
  <2> QED BY <2>1, <2>2, Empty
<1> QED BY <1>2, <1>3

-----------------------------------------------------------------------------
(***************************************************************************)
(* The bytes of several messages, one after the other.                     *)
(***************************************************************************)

\* p is the messages a + 1 to b of ms, joined: there are places off[i] at which
\* message i ends and the next one begins.
Framed(p, ms, a, b) ==
    \E off \in [a .. b -> Nat] :
      /\ off[a] = 0 /\ off[b] = Len(p)
      /\ \A i, j \in a .. b : i <= j => off[i] <= off[j]
      /\ \A i \in a + 1 .. b :
           /\ Len(ms[i]) = off[i] - off[i - 1]
           /\ \A j \in 1 .. Len(ms[i]) : p[off[i - 1] + j] = ms[i][j]

\* No bytes are no messages.
LEMMA FramedNone ==
    ASSUME NEW ms, NEW a \in Nat
    PROVE  Framed(<< >>, ms, a, a)
<1> DEFINE off == [i \in a .. a |-> 0]
<1>1. off \in [a .. a -> Nat] /\ off[a] = 0
  OBVIOUS
<1>2. \A i \in a .. a : i = a
  OBVIOUS
<1>3. \A i \in a + 1 .. a : FALSE
  OBVIOUS
<1>4. Len(<< >>) = 0
  BY EmptySeq
<1> HIDE DEF off
<1> QED BY <1>1, <1>2, <1>3, <1>4 DEF Framed

\* No messages are no bytes.
LEMMA FramedEmpty ==
    ASSUME NEW p, NEW ms, NEW a \in Nat, Framed(p, ms, a, a)
    PROVE  Len(p) = 0
BY DEF Framed

\* Only these messages matter.
LEMMA FramedSame ==
    ASSUME NEW p, NEW ms, NEW ns, NEW a \in Nat, NEW b \in Nat,
           Framed(p, ms, a, b), \A i \in a + 1 .. b : ms[i] = ns[i]
    PROVE  Framed(p, ns, a, b)
<1>1. PICK off \in [a .. b -> Nat] :
        /\ off[a] = 0 /\ off[b] = Len(p)
        /\ \A i, j \in a .. b : i <= j => off[i] <= off[j]
        /\ \A i \in a + 1 .. b :
             /\ Len(ms[i]) = off[i] - off[i - 1]
             /\ \A j \in 1 .. Len(ms[i]) : p[off[i - 1] + j] = ms[i][j]
  BY DEF Framed
<1>2. \A i \in a + 1 .. b :
        /\ Len(ns[i]) = off[i] - off[i - 1]
        /\ \A j \in 1 .. Len(ns[i]) : p[off[i - 1] + j] = ns[i][j]
  <2> TAKE i \in a + 1 .. b
  <2>1. ms[i] = ns[i]
    OBVIOUS
  <2> QED BY <1>1, <2>1
<1> QED BY <1>1, <1>2 DEF Framed

\* One more message at the end.
LEMMA FramedAppend ==
    ASSUME NEW p \in Bytes, NEW ms, NEW a \in Nat, NEW b \in Nat, a <= b,
           Framed(p, ms, a, b), NEW m \in Bytes, ms[b + 1] = m
    PROVE  Framed(p \o m, ms, a, b + 1)
<1>1. PICK off \in [a .. b -> Nat] :
        /\ off[a] = 0 /\ off[b] = Len(p)
        /\ \A i, j \in a .. b : i <= j => off[i] <= off[j]
        /\ \A i \in a + 1 .. b :
             /\ Len(ms[i]) = off[i] - off[i - 1]
             /\ \A j \in 1 .. Len(ms[i]) : p[off[i - 1] + j] = ms[i][j]
  BY DEF Framed
<1> DEFINE o == [i \in a .. b + 1 |-> IF i = b + 1 THEN Len(p) + Len(m) ELSE off[i]]
           q == p \o m
<1>2. /\ q \in Bytes /\ Len(q) = Len(p) + Len(m)
      /\ Len(p) \in Nat /\ Len(m) \in Nat
      /\ \A i \in 1 .. Len(p) : q[i] = p[i]
      /\ \A i \in 1 .. Len(m) : q[Len(p) + i] = m[i]
  BY Joined
<1> HIDE DEF q
<1>3. /\ o \in [a .. b + 1 -> Nat]
      /\ \A i \in a .. b : o[i] = off[i] /\ off[i] \in Nat
      /\ o[b + 1] = Len(p) + Len(m)
  BY <1>1, <1>2
<1> HIDE DEF o
<1>4. a \in a .. b /\ b \in a .. b
  OBVIOUS
<1>5. o[a] = 0 /\ o[b + 1] = Len(q)
  BY <1>1, <1>2, <1>3, <1>4
<1>6. \A i, j \in a .. b + 1 : i <= j => o[i] <= o[j]
  <2> SUFFICES ASSUME NEW i \in a .. b + 1, NEW j \in a .. b + 1, i <= j
               PROVE  o[i] <= o[j]
    OBVIOUS
  <2>1. CASE j \in a .. b
    <3>1. i \in a .. b
      BY <2>1
    <3> QED BY <1>1, <1>3, <2>1, <3>1
  <2>2. CASE j = b + 1 /\ i = b + 1
    BY <1>2, <1>3, <2>2
  <2>3. CASE j = b + 1 /\ i \in a .. b
    <3>1. off[i] <= off[b]
      BY <1>1, <1>4, <2>3
    <3> QED BY <1>1, <1>2, <1>3, <2>3, <3>1
  <2> QED BY <2>1, <2>2, <2>3
<1>7. ASSUME NEW i \in a + 1 .. b + 1
      PROVE  /\ Len(ms[i]) = o[i] - o[i - 1]
             /\ \A j \in 1 .. Len(ms[i]) : q[o[i - 1] + j] = ms[i][j]
  <2>1. i - 1 \in a .. b /\ o[i - 1] = off[i - 1]
    BY <1>3
  <2>2. CASE i = b + 1
    <3>1. ms[i] = m /\ o[i - 1] = Len(p) /\ o[i] = Len(p) + Len(m)
      BY <1>1, <1>3, <2>1, <2>2
    <3> QED BY <1>2, <3>1
  <2>3. CASE i \in a + 1 .. b
    <3>1. /\ o[i] = off[i] /\ Len(ms[i]) = off[i] - off[i - 1] /\ i \in a .. b
          /\ \A j \in 1 .. Len(ms[i]) : p[off[i - 1] + j] = ms[i][j]
      BY <1>1, <1>3, <2>3
    <3>2. off[i] <= Len(p)
      BY <1>1, <1>4, <3>1
    <3>3. Len(ms[i]) = off[i] - off[i - 1] /\ off[i] \in Nat /\ off[i - 1] \in Nat
      BY <1>3, <2>1, <3>1
    <3>4. ASSUME NEW j \in 1 .. Len(ms[i])
          PROVE  q[off[i - 1] + j] = ms[i][j]
      <4>1. off[i - 1] + j \in 1 .. Len(p)
        <5>1. \A x, y, k, c \in Int :
                0 <= x /\ y <= k /\ 1 <= c /\ c <= y - x => 1 <= x + c /\ x + c <= k
          OBVIOUS
        <5>2. /\ off[i - 1] \in Int /\ 0 <= off[i - 1] /\ off[i] \in Int /\ Len(p) \in Int
              /\ j \in Int /\ 1 <= j /\ j <= off[i] - off[i - 1]
          BY <1>2, <3>3
        <5> QED BY <3>2, <5>1, <5>2
      <4> QED BY <1>2, <3>1, <4>1
    <3> QED BY <2>1, <3>1, <3>4
  <2> QED BY <2>2, <2>3
<1> QED BY <1>3, <1>5, <1>6, <1>7 DEF Framed, q

\* The first message, and what is behind it.
LEMMA FramedFirst ==
    ASSUME NEW p \in Bytes, NEW ms, NEW a \in Nat, NEW b \in Nat, a < b,
           Framed(p, ms, a, b), ms[a + 1] \in Bytes
    PROVE  /\ Len(ms[a + 1]) \in 0 .. Len(p)
           /\ \A j \in 1 .. Len(ms[a + 1]) : p[j] = ms[a + 1][j]
           /\ Upto(p, Len(ms[a + 1])) = ms[a + 1]
           /\ Framed(From(p, Len(ms[a + 1])), ms, a + 1, b)
<1> DEFINE n == Len(ms[a + 1])
<1>1. PICK off \in [a .. b -> Nat] :
        /\ off[a] = 0 /\ off[b] = Len(p)
        /\ \A i, j \in a .. b : i <= j => off[i] <= off[j]
        /\ \A i \in a + 1 .. b :
             /\ Len(ms[i]) = off[i] - off[i - 1]
             /\ \A j \in 1 .. Len(ms[i]) : p[off[i - 1] + j] = ms[i][j]
  BY DEF Framed
<1>2. Len(p) \in Nat /\ n \in Nat
  BY LenProperties DEF Bytes
<1>3. a + 1 \in a + 1 .. b /\ a + 1 - 1 = a /\ a + 1 \in a .. b /\ b \in a .. b
  OBVIOUS
<1>4. off[a + 1] = n /\ \A j \in 1 .. n : p[0 + j] = ms[a + 1][j]
  <2>1. n = off[a + 1] - 0 /\ off[a + 1] \in Nat
    BY <1>1, <1>3
  <2>2. off[a + 1] = n
    BY <1>2, <2>1
  <2>3. \A j \in 1 .. n : p[off[a + 1 - 1] + j] = ms[a + 1][j]
    <3>1. PICK i \in a + 1 .. b : i = a + 1
      BY <1>3
    <3>2. \A j \in 1 .. Len(ms[i]) : p[off[i - 1] + j] = ms[i][j]
      BY <1>1
    <3> QED BY <3>1, <3>2
  <2>4. off[a + 1 - 1] = 0
    BY <1>1, <1>3
  <2> QED BY <2>2, <2>3, <2>4
<1>5. n <= Len(p)
  BY <1>1, <1>3, <1>4
<1>6. \A j \in 1 .. n : p[j] = ms[a + 1][j]
  BY <1>2, <1>4, \A j \in 1 .. n : 0 + j = j
<1> HIDE DEF n
<1>7. n \in 0 .. Len(p)
  BY <1>2, <1>5
<1>8. Upto(p, n) = ms[a + 1]
  <2>1. Upto(p, n) \in Bytes /\ Len(Upto(p, n)) = n /\ \A i \in 1 .. n : Upto(p, n)[i] = p[i]
    BY <1>7, Halves
  <2> QED BY <1>6, <2>1, SeqEqual DEF Bytes, n
<1> DEFINE o == [i \in a + 1 .. b |-> off[i] - n]
           q == From(p, n)
<1>9. /\ q \in Bytes /\ Len(q) = Len(p) - n
      /\ \A i \in 1 .. Len(p) - n : q[i] = p[n + i]
  BY <1>7, Halves
<1> HIDE DEF q
<1>10. \A i \in a + 1 .. b : off[i] \in Nat /\ n <= off[i] /\ off[i] <= Len(p) /\ o[i] = off[i] - n
  <2> SUFFICES ASSUME NEW i \in a + 1 .. b
               PROVE  off[i] \in Nat /\ n <= off[i] /\ off[i] <= Len(p)
    OBVIOUS
  <2>1. i \in a .. b /\ a + 1 <= i /\ i <= b
    OBVIOUS
  <2> QED BY <1>1, <1>3, <1>4, <2>1
<1>11. o \in [a + 1 .. b -> Nat]
  <2>1. \A i \in a + 1 .. b : off[i] - n \in Nat
    BY <1>2, <1>10
  <2> QED BY <2>1
<1> HIDE DEF o
<1>12. o[a + 1] = 0 /\ o[b] = Len(q)
  <2>1. a + 1 \in a + 1 .. b /\ b \in a + 1 .. b
    OBVIOUS
  <2>2. o[a + 1] = off[a + 1] - n /\ o[b] = off[b] - n
    BY <1>10, <2>1
  <2> QED BY <1>1, <1>2, <1>4, <1>9, <2>2
<1>13. \A i, j \in a + 1 .. b : i <= j => o[i] <= o[j]
  <2> SUFFICES ASSUME NEW i \in a + 1 .. b, NEW j \in a + 1 .. b, i <= j
               PROVE  o[i] <= o[j]
    OBVIOUS
  <2>1. off[i] <= off[j]
    BY <1>1, i \in a .. b, j \in a .. b
  <2> QED BY <1>2, <1>10, <2>1
<1>14. ASSUME NEW i \in a + 1 + 1 .. b
       PROVE  /\ Len(ms[i]) = o[i] - o[i - 1]
              /\ \A j \in 1 .. Len(ms[i]) : q[o[i - 1] + j] = ms[i][j]
  <2>1. i \in a + 1 .. b /\ i - 1 \in a + 1 .. b
    OBVIOUS
  <2>2. /\ Len(ms[i]) = off[i] - off[i - 1]
        /\ \A j \in 1 .. Len(ms[i]) : p[off[i - 1] + j] = ms[i][j]
    BY <1>1, <2>1
  <2>3. /\ off[i] \in Nat /\ off[i - 1] \in Nat
        /\ o[i] = off[i] - n /\ o[i - 1] = off[i - 1] - n
        /\ n <= off[i - 1] /\ off[i] <= Len(p)
    BY <1>10, <2>1
  <2> DEFINE l == Len(ms[i])
  <2>4. l = off[i] - off[i - 1]
    BY <2>2, <2>3
  <2> HIDE DEF l
  <2>5. l = o[i] - o[i - 1]
    BY <1>2, <2>3, <2>4
  <2>6. ASSUME NEW j \in 1 .. l
        PROVE  q[o[i - 1] + j] = ms[i][j]
    <3>1. o[i - 1] + j \in 1 .. Len(p) - n /\ n + (o[i - 1] + j) = off[i - 1] + j
      <4>2. /\ off[i - 1] \in Int /\ off[i] \in Int /\ n \in Int /\ Len(p) \in Int
            /\ j \in Int /\ 1 <= j /\ j <= off[i] - off[i - 1]
        BY <1>2, <2>3, <2>4
      <4>3. /\ 1 <= off[i - 1] - n + j /\ off[i - 1] - n + j <= Len(p) - n
            /\ n + (off[i - 1] - n + j) = off[i - 1] + j
        <5> DEFINE x == off[i - 1]
                   y == off[i]
                   k == Len(p)
        <5>1. /\ x \in Int /\ y \in Int /\ n \in Int /\ k \in Int /\ j \in Int
              /\ n <= x /\ y <= k /\ 1 <= j /\ j <= y - x
          BY <2>3, <4>2
        <5> HIDE DEF x, y, k
        <5>2. 1 <= x - n + j /\ x - n + j <= k - n /\ n + (x - n + j) = x + j
          BY <5>1
        <5> QED BY <5>2 DEF x, k
      <4> QED BY <2>3, <4>2, <4>3
    <3>2. p[off[i - 1] + j] = ms[i][j]
      BY <2>2 DEF l
    <3> QED BY <1>9, <3>1, <3>2
  <2> QED BY <2>5, <2>6 DEF l
<1>15. Framed(q, ms, a + 1, b)
  BY <1>11, <1>12, <1>13, <1>14 DEF Framed
<1> QED BY <1>6, <1>7, <1>8, <1>15 DEF n, q

-----------------------------------------------------------------------------
(***************************************************************************)
(* The inductive invariant.                                                *)
(***************************************************************************)

\* A buffer that the client's side put in the channel: its header tells its
\* length, and it is longer than its headers, or does not fit at the other end.
Frame(m) ==
    /\ m \in Bytes /\ Len(m) \in HEAD_SIZE .. U16 - 1
    /\ m[1] + Base * m[2] = Len(m)
    /\ Len(m) <= DEFAULT_CAP => Len(m) > TMESSAGE_KEEP

\* What the socket of the request gets of a buffer.
Body(m) == IF Len(m) <= DEFAULT_CAP THEN From(m, TMESSAGE_KEEP) ELSE << >>

\* What a WMessage can be, in LwsFramed and in TcpFramed.
Writing(w) ==
    /\ w \in [buf : Bytes, cursor : Nat]
    /\ w = Nothing \/ (w.cursor < Len(w.buf) /\ Len(w.buf) < U16)

\* The messages sent, those that wait, and those that were received: the first
\* ones in order, and none too long.
SentInv ==
    /\ sent \in Seq(Bytes) /\ \A i \in 1 .. Len(sent) : Frame(sent[i])
    /\ channel \in Seq(Bytes) /\ Len(channel) <= Len(sent)
    /\ \A i \in 1 .. Len(channel) : channel[i] = sent[Len(sent) - Len(channel) + i]
    /\ out \in Seq(Bytes) /\ Len(out) <= Len(sent) - Len(channel)
    /\ \A i \in 1 .. Len(out) : out[i] = sent[i] /\ Len(out[i]) <= DEFAULT_CAP

\* The bytes under way: those that the reader or the handshake has, those in the
\* connection and those that are being written.
Ahead == IF state = "Done" THEN reading.buf \o tail ELSE read_buf
Stream == Ahead \o (wire \o Rest(writing))
ResponseAhead == IF state = "ReadingResponse" THEN Response ELSE << >>

\* The messages that have left the channel and were not received.
Following(p) == Framed(p, sent, Len(out), Len(sent) - Len(channel))

\* Behind the response of the handshake they are these messages, and nothing
\* else.
PipeInv ==
    /\ writing = Nothing \/ state # "WritingHeader"
    /\ Writing(writing) /\ wire \in Bytes /\ read_buf \in Bytes /\ tail \in Bytes
    /\ state \in {"WritingHeader", "ReadingResponse", "Done", "Failed"}
    /\ state = "WritingHeader" => Stream = << >>
    /\ state = "ReadingResponse" => Len(read_buf) < Len(Response)
    /\ state = "Failed" => closed
    /\ state # "Done" => tail = << >> /\ reading = NewRMessage /\ finished = "no"
    /\ state # "Failed" => \E p \in Bytes : Stream = ResponseAhead \o p /\ Following(p)

\* RMessage: it knows its length when it has a header.
ReadInv ==
    /\ reading \in [buf : Bytes, cached_length : Int, error : BOOLEAN]
    /\ Len(reading.buf) < HEAD_SIZE => reading.cached_length = 0 /\ ~reading.error
    /\ Len(reading.buf) >= HEAD_SIZE =>
         /\ reading.cached_length = reading.buf[1] + Base * reading.buf[2]
         /\ reading.error <=> reading.cached_length \notin 1 .. DEFAULT_CAP
         /\ IF reading.error THEN Len(reading.buf) = HEAD_SIZE
            ELSE Len(reading.buf) < reading.cached_length
    /\ finished = "no" => ~reading.error
    /\ finished = "error" => \E i \in DOMAIN sent : Len(sent[i]) > DEFAULT_CAP

\* The socket of the request: it has the first bytes of the data, and those
\* that come next are in the messages that were not written yet.
Written == got \o Rest(lwriting)
Bodies == [i \in DOMAIN sent |-> Body(sent[i])]
LocalInv ==
    /\ taken \in 0 .. DataLen
    /\ got \in Bytes /\ Writing(lwriting)
    /\ requests \in Seq(Bytes) /\ Len(requests) <= Len(out)
    /\ \A i \in 1 .. Len(requests) : requests[i] = out[Len(out) - Len(requests) + i]
    /\ Len(Written) <= taken
    /\ Written = Upto(Data, Len(Written))
    /\ Framed(SubSeq(Data, Len(Written) + 1, taken), Bodies,
              Len(out) - Len(requests), Len(sent))

IInv == SentInv /\ PipeInv /\ ReadInv /\ LocalInv

-----------------------------------------------------------------------------
(***************************************************************************)
(* The operators of the framing.                                           *)
(***************************************************************************)

\* The constants, and Base * Base as a number.
LEMMA Consts ==
    /\ U16 \in Nat /\ DEFAULT_CAP \in Nat /\ DEFAULT_CAP < U16
    /\ TMESSAGE_KEEP \in Nat /\ TMESSAGE_KEEP >= 3 /\ TMESSAGE_KEEP < DEFAULT_CAP
    /\ TMESSAGE_KEEP = 3 + THEADER_SIZE /\ THEADER_SIZE \in Nat
    /\ Base \in Nat \ {0} /\ DataLen \in Nat /\ HEAD_SIZE = 2
    /\ \A n \in UdpSizes : n \in Nat /\ DEFAULT_CAP < n /\ n < U16
<1>1. U16 \in Nat
  BY LwsAssumption DEF U16
<1> QED BY <1>1, LwsAssumption DEF HEAD_SIZE

\* A length is not cut when it is kept in a u16.
LEMMA Small ==
    ASSUME NEW n \in Nat, n < U16
    PROVE  n % U16 = n
BY Consts

\* The two bytes of a header give its length back (RMessage::advance_mut, and
\* the headers that on_request_msg writes).
LEMMA Decoded ==
    ASSUME NEW n \in Nat, n < U16
    PROVE  /\ Header(n) \in Bytes /\ Len(Header(n)) = 2
           /\ Header(n)[1] + Base * Header(n)[2] = n
<1> DEFINE x == n % Base
           y == n \div Base
<1>1. x \in Int /\ y \in Int /\ x + Base * y = n
  BY Consts
<1> HIDE DEF x, y
<1>2. << x, y >> \in Seq(Int) /\ Len(<< x, y >>) = 2
      /\ << x, y >>[1] = x /\ << x, y >>[2] = y
  BY <1>1
<1>3. Header(n) = << x, y >>
  BY DEF Header, x, y
<1> QED BY <1>1, <1>2, <1>3 DEF Bytes

\* n bytes behind m bytes.
LEMMA FromFrom ==
    ASSUME NEW s \in Bytes, NEW m \in 0 .. Len(s), NEW n \in 0 .. Len(s) - m
    PROVE  From(From(s, m), n) = From(s, m + n)
<1>1. Len(s) \in Nat /\ m \in Nat /\ n \in Nat /\ m + n \in 0 .. Len(s)
  BY LenProperties DEF Bytes
<1> DEFINE u == From(s, m)
<1>2. /\ u \in Bytes /\ Len(u) = Len(s) - m
      /\ \A i \in 1 .. Len(s) - m : u[i] = s[m + i]
  BY Halves
<1> HIDE DEF u
<1>3. /\ From(u, n) \in Bytes /\ Len(From(u, n)) = Len(s) - m - n
      /\ \A i \in 1 .. Len(s) - m - n : From(u, n)[i] = u[n + i]
  BY <1>2, Halves
<1>4. /\ From(s, m + n) \in Bytes /\ Len(From(s, m + n)) = Len(s) - (m + n)
      /\ \A i \in 1 .. Len(s) - (m + n) : From(s, m + n)[i] = s[m + n + i]
  BY <1>1, Halves
<1>5. Len(From(u, n)) = Len(From(s, m + n))
  <2>1. Len(s) - m - n = Len(s) - (m + n)
    BY <1>1
  <2> QED BY <1>3, <1>4, <2>1
<1>6. ASSUME NEW i \in 1 .. Len(From(u, n))
      PROVE  From(u, n)[i] = From(s, m + n)[i]
  <2>1. /\ i \in 1 .. Len(s) - m - n /\ i \in 1 .. Len(s) - (m + n)
        /\ n + i \in 1 .. Len(s) - m /\ m + (n + i) = m + n + i
    BY <1>1, <1>3
  <2> QED BY <1>2, <1>3, <1>4, <2>1
<1>7. From(u, n) = From(s, m + n)
  BY <1>3, <1>4, <1>5, <1>6, SeqEqual DEF Bytes
<1> QED BY <1>7 DEF u

\* What is left of a message that is being written.
LEMMA RestOf ==
    ASSUME NEW w, Writing(w)
    PROVE  /\ Rest(w) \in Bytes /\ Len(Rest(w)) \in Nat
           /\ w = Nothing => Rest(w) = << >>
           /\ w # Nothing => /\ Rest(w) = From(w.buf, w.cursor)
                             /\ w.cursor \in 0 .. Len(w.buf)
                             /\ Len(Rest(w)) = Len(w.buf) - w.cursor
<1>1. CASE w = Nothing
  <2>1. w.buf = << >> /\ w.cursor = 0 /\ Len(<< >>) = 0 /\ << >> \in Bytes
    BY <1>1, Empty DEF Nothing, Bytes
  <2>2. Rest(w) = From(<< >>, 0)
    BY <2>1 DEF Rest, From
  <2>3. Rest(w) = << >>
    BY <2>1, <2>2, Empty
  <2> QED BY <1>1, <2>1, <2>3
<1>2. CASE w # Nothing
  <2>1. w.buf \in Bytes /\ w.cursor \in Nat /\ w.cursor < Len(w.buf)
    BY <1>2 DEF Writing
  <2>2. Rest(w) = From(w.buf, w.cursor)
    BY DEF Rest, From
  <2>3. w.cursor \in 0 .. Len(w.buf) /\ Len(w.buf) \in Nat
    BY <2>1, LenProperties DEF Bytes
  <2>4. From(w.buf, w.cursor) \in Bytes /\ Len(From(w.buf, w.cursor)) = Len(w.buf) - w.cursor
    BY <2>1, <2>3, Halves
  <2> QED BY <1>2, <2>1, <2>2, <2>3, <2>4
<1> QED BY <1>1, <1>2

\* WMessage after n bytes of it were written: cursor does not wrap around.
LEMMA AdvancedBy ==
    ASSUME NEW w, Writing(w), w # Nothing, NEW n \in Nat, n <= Len(Rest(w))
    PROVE  Writing(Advanced(w, n)) /\ Rest(Advanced(w, n)) = From(Rest(w), n)
<1> DEFINE l == Len(w.buf)
           c == w.cursor
<1>1. /\ w \in [buf : Bytes, cursor : Nat] /\ w.buf \in Bytes /\ c \in Nat /\ l \in Nat
      /\ c < l /\ l < U16 /\ n <= l - c
      /\ Rest(w) = From(w.buf, c) /\ c \in 0 .. l
  <2>1. w \in [buf : Bytes, cursor : Nat] /\ c < l /\ l < U16
    BY DEF Writing
  <2> QED BY <2>1, RestOf, LenProperties DEF Bytes
<1>2. c + n \in Nat /\ c + n < U16 /\ c + n <= l
  BY <1>1, Consts
<1>3. (c + n) % U16 = c + n /\ l % U16 = l
  BY <1>1, <1>2, Small
<1>4. From(Rest(w), n) = From(w.buf, c + n)
  BY <1>1, FromFrom
<1>5. CASE c + n = l
  <2>1. Advanced(w, n) = Nothing
    BY <1>3, <1>5 DEF Advanced
  <2>2. Nothing \in [buf : Bytes, cursor : Nat] /\ Rest(Nothing) = << >> /\ Writing(Nothing)
    <3>1. Nothing \in [buf : Bytes, cursor : Nat]
      BY <1>1, Empty DEF Nothing
    <3> QED BY <3>1, RestOf DEF Writing
  <2>3. From(w.buf, c + n) \in Bytes /\ Len(From(w.buf, c + n)) = 0
    <3>1. c + n \in 0 .. Len(w.buf)
      BY <1>1, <1>5
    <3>2. From(w.buf, c + n) \in Bytes /\ Len(From(w.buf, c + n)) = l - (c + n)
      BY <1>1, <3>1, Halves
    <3> QED BY <1>1, <1>5, <3>2
  <2> QED BY <1>4, <2>1, <2>2, <2>3, Empty
<1>6. CASE c + n # l
  <2>1. Advanced(w, n) = [w EXCEPT !.cursor = c + n]
    BY <1>3, <1>6 DEF Advanced
  <2>2. /\ Advanced(w, n) \in [buf : Bytes, cursor : Nat]
        /\ Advanced(w, n).buf = w.buf /\ Advanced(w, n).cursor = c + n
    BY <1>1, <1>2, <2>1
  <2>3. c + n < l
    BY <1>1, <1>2, <1>6
  <2>4. Writing(Advanced(w, n))
    BY <1>1, <2>2, <2>3 DEF Writing
  <2>5. Rest(Advanced(w, n)) = From(w.buf, c + n)
    BY <2>2 DEF Rest, From
  <2> QED BY <1>4, <2>4, <2>5
<1> QED BY <1>5, <1>6

\* A buffer that TMessage makes of what was read from the client's socket.
LEMMA Made ==
    ASSUME NEW d \in Bytes, Len(d) \in 1 .. DEFAULT_CAP - TMESSAGE_KEEP
    PROVE  Frame(TMessage(d)) /\ Body(TMessage(d)) = d
<1> DEFINE l == TMESSAGE_KEEP + Len(d)
           z == [i \in 1 .. TMESSAGE_KEEP - HEAD_SIZE |-> 0]
           m == TMessage(d)
           h == Header(l)
<1>1. l \in Nat /\ l <= DEFAULT_CAP /\ l < U16 /\ l > TMESSAGE_KEEP /\ l >= 2 /\ Len(d) \in Nat
  BY Consts
<1>2. h \in Bytes /\ Len(h) = 2 /\ h[1] + Base * h[2] = l
  BY <1>1, Decoded
<1>3. z \in Bytes /\ Len(z) = TMESSAGE_KEEP - 2
  <2>1. TMESSAGE_KEEP - 2 \in Nat /\ HEAD_SIZE = 2
    BY Consts
  <2> QED BY <2>1 DEF Bytes
<1>4. m = (h \o z) \o d
  <2>1. l % U16 = l
    BY <1>1, Small
  <2> QED BY <2>1 DEF TMessage
<1> HIDE DEF h, z
<1>5. h \o z \in Bytes /\ Len(h \o z) = TMESSAGE_KEEP
      /\ (h \o z)[1] = h[1] /\ (h \o z)[2] = h[2]
  <2>1. /\ h \o z \in Bytes /\ Len(h \o z) = Len(h) + Len(z)
        /\ \A i \in 1 .. Len(h) : (h \o z)[i] = h[i]
    BY <1>2, <1>3, Joined
  <2>2. 2 + (TMESSAGE_KEEP - 2) = TMESSAGE_KEEP
    BY Consts
  <2>3. 1 \in 1 .. Len(h) /\ 2 \in 1 .. Len(h)
    BY <1>2
  <2> QED BY <1>2, <1>3, <2>1, <2>2, <2>3
<1> DEFINE g == h \o z
<1> HIDE DEF g
<1>6. /\ g \o d \in Bytes /\ Len(g \o d) = TMESSAGE_KEEP + Len(d)
      /\ (g \o d)[1] = g[1] /\ (g \o d)[2] = g[2]
      /\ From(g \o d, TMESSAGE_KEEP) = d
  <2>1. g \in Bytes /\ Len(g) = TMESSAGE_KEEP
    BY <1>5 DEF g
  <2>2. /\ g \o d \in Bytes /\ Len(g \o d) = Len(g) + Len(d)
        /\ \A i \in 1 .. Len(g) : (g \o d)[i] = g[i]
        /\ From(g \o d, Len(g)) = d
    BY <2>1, Joined, CutBehind, Consts, 0 \in 0 .. Len(g)
  <2>3. 1 \in 1 .. Len(g) /\ 2 \in 1 .. Len(g)
    BY <2>1, Consts
  <2> QED BY <2>1, <2>2, <2>3
<1>7. /\ m \in Bytes /\ Len(m) = l /\ m[1] = h[1] /\ m[2] = h[2]
      /\ From(m, TMESSAGE_KEEP) = d
  <2>1. m = g \o d
    BY <1>4 DEF g
  <2>2. g[1] = h[1] /\ g[2] = h[2]
    BY <1>5 DEF g
  <2> HIDE DEF m
  <2> QED BY <1>6, <2>1, <2>2
<1> HIDE DEF m
<1>8. Frame(m)
  <2>1. m[1] + Base * m[2] = Len(m)
    BY <1>2, <1>7
  <2>2. Len(m) \in HEAD_SIZE .. U16 - 1
    BY <1>1, <1>7, Consts
  <2> QED BY <1>1, <1>7, <2>1, <2>2 DEF Frame
<1>9. Body(m) = d
  BY <1>1, <1>7 DEF Body
<1> QED BY <1>8, <1>9 DEF m

\* A packet that does not fit at the other end.
LEMMA MadeUdp ==
    ASSUME NEW n \in UdpSizes
    PROVE  LET m == Header(n % U16) \o [i \in 1 .. n - HEAD_SIZE |-> 0]
           IN  Frame(m) /\ Len(m) > DEFAULT_CAP /\ Body(m) = << >>
<1> DEFINE h == Header(n)
           z == [i \in 1 .. n - HEAD_SIZE |-> 0]
<1>1. n \in Nat /\ DEFAULT_CAP < n /\ n < U16 /\ n > 3 /\ DEFAULT_CAP \in Nat /\ U16 \in Nat
  BY Consts
<1>2. h \in Bytes /\ Len(h) = 2 /\ h[1] + Base * h[2] = n
  BY <1>1, Decoded
<1>3. z \in Bytes /\ Len(z) = n - 2
  <2>1. n - 2 \in Nat /\ HEAD_SIZE = 2
    BY <1>1, Consts
  <2> QED BY <2>1 DEF Bytes
<1>4. n % U16 = n
  BY <1>1, Small
<1> HIDE DEF h, z
<1> DEFINE m == h \o z
<1>5. m \in Bytes /\ Len(m) = n /\ m[1] = h[1] /\ m[2] = h[2]
  <2>1. /\ m \in Bytes /\ Len(m) = Len(h) + Len(z)
        /\ \A i \in 1 .. Len(h) : m[i] = h[i]
    BY <1>2, <1>3, Joined
  <2>2. 2 + (n - 2) = n
    BY <1>1
  <2>3. 1 \in 1 .. Len(h) /\ 2 \in 1 .. Len(h)
    BY <1>2
  <2> HIDE DEF m
  <2> QED BY <1>2, <1>3, <2>1, <2>2, <2>3
<1> HIDE DEF m
<1>6. Frame(m)
  <2>1. m[1] + Base * m[2] = Len(m)
    BY <1>2, <1>5
  <2>2. Len(m) \in HEAD_SIZE .. U16 - 1
    BY <1>1, <1>5, Consts
  <2>3. ~(Len(m) <= DEFAULT_CAP)
    BY <1>1, <1>5
  <2> QED BY <1>5, <2>1, <2>2, <2>3 DEF Frame
<1>7. Len(m) > DEFAULT_CAP /\ Body(m) = << >>
  BY <1>1, <1>5 DEF Body
<1>8. m = Header(n % U16) \o [i \in 1 .. n - HEAD_SIZE |-> 0]
  BY <1>4 DEF m, h, z
<1> QED BY <1>6, <1>7, <1>8

\* The response, byte by byte.
LEMMA ResponseBytes ==
    /\ Response \in Bytes /\ Len(Response) = 7
    /\ Response[1] = -1 /\ Response[2] = -2 /\ Response[3] = -3 /\ Response[4] = -1
    /\ Response[5] = -2 /\ Response[6] = -1 /\ Response[7] = -2
    /\ Needle \in Bytes /\ Len(Needle) = 4
    /\ Needle[1] = -1 /\ Needle[2] = -2 /\ Needle[3] = -1 /\ Needle[4] = -2
<1>1. /\ Needle \in Bytes /\ Len(Needle) = 4
      /\ Needle[1] = -1 /\ Needle[2] = -2 /\ Needle[3] = -1 /\ Needle[4] = -2
  BY DEF Needle, CR, LF, Bytes
<1> DEFINE r == << CR, LF, 0 - 3 >>
<1>2. r \in Bytes /\ Len(r) = 3 /\ r[1] = -1 /\ r[2] = -2 /\ r[3] = -3
  BY DEF CR, LF, Bytes
<1> HIDE DEF r
<1>3. /\ r \o Needle \in Bytes /\ Len(r \o Needle) = Len(r) + Len(Needle)
      /\ \A i \in 1 .. Len(r) : (r \o Needle)[i] = r[i]
      /\ \A i \in 1 .. Len(Needle) : (r \o Needle)[Len(r) + i] = Needle[i]
  BY <1>1, <1>2, Joined
<1>4. Response = r \o Needle
  BY DEF Response, r
<1>5. /\ \A i \in 1 .. 3 : Response[i] = r[i]
      /\ \A i \in 1 .. 4 : Response[3 + i] = Needle[i]
      /\ Response \in Bytes /\ Len(Response) = 7
  BY <1>1, <1>2, <1>3, <1>4
<1>6. /\ 3 + 1 = 4 /\ 3 + 2 = 5 /\ 3 + 3 = 6 /\ 3 + 4 = 7
      /\ 1 \in 1 .. 4 /\ 2 \in 1 .. 4 /\ 3 \in 1 .. 4 /\ 4 \in 1 .. 4
      /\ 1 \in 1 .. 3 /\ 2 \in 1 .. 3 /\ 3 \in 1 .. 3
  OBVIOUS
<1>7. /\ Response[1] = -1 /\ Response[2] = -2 /\ Response[3] = -3
  BY <1>2, <1>5, <1>6
<1>8. Response[4] = -1 /\ Response[5] = -2 /\ Response[6] = -1 /\ Response[7] = -2
  BY <1>1, <1>5, <1>6
<1> QED BY <1>1, <1>5, <1>7, <1>8

\* parse_response finds the end of the response where it is, as soon as the
\* whole response was read, and passes on what follows it.
LEMMA Parsed ==
    ASSUME NEW B \in Bytes, NEW X \in Bytes, NEW p \in Bytes, B \o X = Response \o p
    PROVE  /\ Len(B) < 7 => parse_response(B) = [found |-> FALSE, rest |-> B]
           /\ Len(B) >= 7 => /\ parse_response(B) = [found |-> TRUE, rest |-> From(B, 7)]
                             /\ From(B, 7) \o X = p
<1> DEFINE ends == {i \in 4 .. Len(B) : SubSeq(B, i - 3, i) = Needle}
<1>1. Len(B) \in Nat /\ Len(X) \in Nat /\ Len(p) \in Nat
  BY LenProperties DEF Bytes
<1>2. \A i \in 1 .. Len(B) : i <= 7 => B[i] = Response[i]
  <2> SUFFICES ASSUME NEW i \in 1 .. Len(B), i <= 7 PROVE B[i] = Response[i]
    OBVIOUS
  <2>1. (B \o X)[i] = B[i]
    BY Joined
  <2>2. (Response \o p)[i] = Response[i]
    <3>1. Response \in Bytes /\ i \in 1 .. Len(Response)
      BY ResponseBytes
    <3> QED BY <3>1, Joined
  <2> QED BY <2>1, <2>2
<1>3. ASSUME NEW i \in 4 .. Len(B)
      PROVE  SubSeq(B, i - 3, i) = Needle
               <=> B[i - 3] = -1 /\ B[i - 2] = -2 /\ B[i - 1] = -1 /\ B[i] = -2
  <2> DEFINE u == SubSeq(B, i - 3, i)
  <2>1. /\ u \in Seq(Int) /\ Len(u) = 4
        /\ u[1] = B[i - 3] /\ u[2] = B[i - 2] /\ u[3] = B[i - 1] /\ u[4] = B[i]
    <3>1. i - 4 \in 0 .. Len(B) /\ i \in i - 4 .. Len(B) /\ i - 4 + 1 = i - 3 /\ i - (i - 4) = 4
      BY <1>1
    <3>2. /\ SubSeq(B, i - 4 + 1, i) \in Bytes
          /\ Len(SubSeq(B, i - 4 + 1, i)) = i - (i - 4)
          /\ \A j \in 1 .. i - (i - 4) : SubSeq(B, i - 4 + 1, i)[j] = B[i - 4 + j]
      BY <3>1, Cut
    <3>3. u \in Bytes /\ Len(u) = 4 /\ \A j \in 1 .. 4 : u[j] = B[i - 4 + j]
      BY <3>1, <3>2
    <3> HIDE DEF u
    <3>4. i - 4 + 1 = i - 3 /\ i - 4 + 2 = i - 2 /\ i - 4 + 3 = i - 1 /\ i - 4 + 4 = i
      OBVIOUS
    <3>5. 1 \in 1 .. 4 /\ 2 \in 1 .. 4 /\ 3 \in 1 .. 4 /\ 4 \in 1 .. 4
      OBVIOUS
    <3> QED BY <3>3, <3>4, <3>5 DEF Bytes
  <2> HIDE DEF u
  <2>2. ASSUME u[1] = -1, u[2] = -2, u[3] = -1, u[4] = -2
        PROVE  u = Needle
    <3>1. \A j \in 1 .. 4 : j = 1 \/ j = 2 \/ j = 3 \/ j = 4
      OBVIOUS
    <3>2. \A j \in 1 .. 4 : u[j] = Needle[j]
      BY <2>2, <3>1, ResponseBytes
    <3> QED BY <2>1, <3>2, ResponseBytes, SeqEqual DEF Bytes
  <2>3. u = Needle <=> u[1] = -1 /\ u[2] = -2 /\ u[3] = -1 /\ u[4] = -2
    BY <2>2, ResponseBytes
  <2> QED BY <2>1, <2>3 DEF u
<1>4. \A i \in ends : i >= 7 /\ i \in Nat
  <2> SUFFICES ASSUME NEW i \in ends, i < 7 PROVE FALSE
    BY <1>1
  <2>1. i \in 4 .. Len(B) /\ SubSeq(B, i - 3, i) = Needle
    OBVIOUS
  <2>2. B[i - 3] = -1 /\ B[i - 2] = -2 /\ B[i - 1] = -1 /\ B[i] = -2
    BY <1>3, <2>1
  <2>3. i = 4 \/ i = 5 \/ i = 6
    BY <2>1
  <2>4. 1 <= i - 3 /\ \A j \in i - 3 .. i : B[j] = Response[j]
    BY <1>1, <1>2, <2>1
  <2>5. CASE i = 4
    BY <2>2, <2>4, <2>5, ResponseBytes
  <2>6. CASE i = 5
    <3>1. B[2] = -1 /\ B[2] = Response[2]
      BY <2>2, <2>4, <2>6
    <3> QED BY <3>1, ResponseBytes
  <2>7. CASE i = 6
    <3>1. B[3] = -1 /\ B[3] = Response[3]
      BY <2>2, <2>4, <2>7
    <3> QED BY <3>1, ResponseBytes
  <2> QED BY <2>3, <2>5, <2>6, <2>7
<1>5. ASSUME Len(B) < 7
      PROVE  parse_response(B) = [found |-> FALSE, rest |-> B]
  <2>1. ends = {}
    <3> SUFFICES ASSUME NEW i \in ends PROVE FALSE
      OBVIOUS
    <3>1. i <= Len(B) /\ i \in Nat
      OBVIOUS
    <3>2. i >= 7
      BY <1>4
    <3> QED BY <1>1, <1>5, <3>1, <3>2
  <2> QED BY <2>1 DEF parse_response
<1>6. ASSUME Len(B) >= 7
      PROVE  /\ parse_response(B) = [found |-> TRUE, rest |-> From(B, 7)]
             /\ From(B, 7) \o X = p
  <2>1. 7 \in ends
    <3>1. B[4] = -1 /\ B[5] = -2 /\ B[6] = -1 /\ B[7] = -2
      <4>1. 4 \in 1 .. Len(B) /\ 5 \in 1 .. Len(B) /\ 6 \in 1 .. Len(B) /\ 7 \in 1 .. Len(B)
        BY <1>1, <1>6
      <4>2. B[4] = Response[4] /\ B[5] = Response[5] /\ B[6] = Response[6] /\ B[7] = Response[7]
        BY <1>2, <4>1
      <4> QED BY <4>2, ResponseBytes
    <3>2. 7 \in 4 .. Len(B) /\ 7 - 3 = 4 /\ 7 - 2 = 5 /\ 7 - 1 = 6
      BY <1>1, <1>6
    <3>3. SubSeq(B, 7 - 3, 7) = Needle
      BY <1>3, <3>1, <3>2
    <3> QED BY <3>2, <3>3
  <2>2. Min(ends) = 7
    <3> HIDE DEF ends
    <3>1. \A x \in ends : (\A y \in ends : x <= y) => x = 7
      BY <1>4, <2>1
    <3>2. 7 \in ends /\ \A y \in ends : 7 <= y
      BY <1>4, <2>1
    <3> QED BY <3>1, <3>2 DEF Min
  <2>3. parse_response(B) = [found |-> ends # {}, rest |-> IF ends = {} THEN B ELSE SubSeq(B, Min(ends) + 1, Len(B))]
    BY DEF parse_response
  <2>4. parse_response(B) = [found |-> TRUE, rest |-> From(B, 7)]
    <3> HIDE DEF ends
    <3> QED BY <2>1, <2>2, <2>3 DEF From
  <2>5. From(B \o X, 7) = From(B, 7) \o X
    BY <1>1, <1>6, CutBehind, 7 \in 0 .. Len(B)
  <2>6. From(Response \o p, 7) = p
    <3>1. Response \in Bytes /\ Len(Response) = 7 /\ 0 \in 0 .. Len(Response)
      BY ResponseBytes
    <3>2. From(Response \o p, Len(Response)) = p
      BY <3>1, CutBehind
    <3> QED BY <3>1, <3>2
  <2> QED BY <2>4, <2>5, <2>6
<1> QED BY <1>5, <1>6

-----------------------------------------------------------------------------
(***************************************************************************)
(* What the reader makes of the bytes it gets.                             *)
(***************************************************************************)

\* A header that was read is the header of the next message, and that message
\* is the length that the reader knows.
LEMMA NextMessage ==
    ASSUME SentInv, NEW p \in Bytes, Following(p), Len(p) > 0
    PROVE  /\ Len(out) < Len(sent) - Len(channel)
           /\ Len(out) + 1 \in 1 .. Len(sent)
           /\ Frame(sent[Len(out) + 1])
           /\ Len(sent[Len(out) + 1]) \in 2 .. U16 - 1
           /\ Len(sent[Len(out) + 1]) <= Len(p)
           /\ p[1] + Base * p[2] = Len(sent[Len(out) + 1])
           /\ Upto(p, Len(sent[Len(out) + 1])) = sent[Len(out) + 1]
           /\ Framed(From(p, Len(sent[Len(out) + 1])), sent, Len(out) + 1, Len(sent) - Len(channel))
<1> DEFINE a == Len(out)
           b == Len(sent) - Len(channel)
           m == sent[a + 1]
           n == Len(m)
<1>1. a \in Nat /\ Len(sent) \in Nat /\ Len(channel) \in Nat /\ a <= b /\ b \in Nat /\ b <= Len(sent)
  BY LenProperties DEF SentInv
<1>2. a # b
  <2>1. ASSUME a = b PROVE FALSE
    <3>1. Framed(p, sent, a, a)
      BY <2>1 DEF Following
    <3> HIDE DEF a
    <3> QED BY <1>1, <3>1, FramedEmpty
  <2> QED BY <2>1
<1>3. a < b /\ a + 1 \in 1 .. Len(sent)
  BY <1>1, <1>2
<1>4. Frame(m)
  BY <1>3 DEF SentInv
<1>5. m \in Bytes /\ n \in 2 .. U16 - 1 /\ m[1] + Base * m[2] = n
  BY <1>4, Consts DEF Frame
<1> HIDE DEF a, b
<1>6. /\ n \in 0 .. Len(p) /\ \A j \in 1 .. n : p[j] = m[j]
      /\ Upto(p, n) = m /\ Framed(From(p, n), sent, a + 1, b)
  <2>1. Framed(p, sent, a, b)
    BY DEF Following, a, b
  <2>2. sent[a + 1] \in Bytes
    BY <1>5
  <2>3. /\ Len(sent[a + 1]) \in 0 .. Len(p)
        /\ \A j \in 1 .. Len(sent[a + 1]) : p[j] = sent[a + 1][j]
        /\ Upto(p, Len(sent[a + 1])) = sent[a + 1]
        /\ Framed(From(p, Len(sent[a + 1])), sent, a + 1, b)
    <3> HIDE DEF m, n
    <3> QED BY <1>1, <1>3, <2>1, <2>2, FramedFirst
  <2> QED BY <2>3
<1>7. p[1] = m[1] /\ p[2] = m[2]
  <2>1. 1 \in 1 .. n /\ 2 \in 1 .. n
    BY <1>5, Consts
  <2> QED BY <1>6, <2>1
<1>8. n <= Len(p) /\ p[1] + Base * p[2] = n
  BY <1>5, <1>6, <1>7
<1> QED BY <1>1, <1>3, <1>4, <1>5, <1>6, <1>8 DEF a, b

\* advance_mut and the rest of poll_next (Received).  The bytes are the next
\* ones: the message grows, or it is complete and the next one follows, or its
\* length is refused.
LEMMA Reads ==
    ASSUME IInv, finished = "no", state = "Done",
           NEW d \in Bytes, Len(d) \in 1 .. remaining_mut(reading), NEW X \in Bytes,
           Following((reading.buf \o d) \o X),
           Received(advance_mut(reading, d)), UNCHANGED << sent, channel >>
    PROVE  /\ SentInv' /\ ReadInv'
           /\ Following(reading.buf \o X)'
           /\ \/ UNCHANGED << out, requests >>
              \/ \E m \in Bytes : out' = Append(out, m) /\ requests' = Append(requests, m)
<1> DEFINE k == Len(reading.buf)
           e == reading.buf \o d
           p == e \o X
           a == Len(out)
           b == Len(sent) - Len(channel)
           m == sent[a + 1]
           n == Len(m)
           w == advance_mut(reading, d)
<1> USE DEF IInv
<1>1. /\ reading.buf \in Bytes /\ k \in Nat /\ Len(d) \in Nat /\ Len(X) \in Nat /\ Len(d) >= 1
      /\ ~reading.error /\ reading.cached_length \in Int
  <2>1. reading.buf \in Bytes /\ ~reading.error /\ reading.cached_length \in Int
    BY DEF ReadInv
  <2>2. Len(d) \in Nat /\ Len(d) >= 1
    BY LenProperties DEF Bytes
  <2> QED BY <2>1, <2>2, LenProperties DEF Bytes
<1>2. /\ e \in Bytes /\ Len(e) = k + Len(d) /\ \A i \in 1 .. k : e[i] = reading.buf[i]
  BY <1>1, Joined
<1> HIDE DEF e, k
<1>3. /\ p \in Bytes /\ Len(p) = Len(e) + Len(X) /\ \A i \in 1 .. Len(e) : p[i] = e[i]
      /\ From(p, Len(e)) = X
  <2>1. Len(e) \in Nat /\ 0 \in 0 .. Len(e)
    BY <1>1, <1>2
  <2> QED BY <1>2, <2>1, Joined, CutBehind
<1>4. Following(p) /\ Len(p) > 0
  BY <1>1, <1>2, <1>3 DEF e
<1> HIDE DEF p
<1>5. /\ a < b /\ a + 1 \in 1 .. Len(sent) /\ Frame(m) /\ n \in 2 .. U16 - 1 /\ n <= Len(p)
      /\ p[1] + Base * p[2] = n /\ Upto(p, n) = m
      /\ Framed(From(p, n), sent, a + 1, b)
  BY <1>3, <1>4, NextMessage
<1>6. a \in Nat /\ Len(sent) \in Nat /\ Len(channel) \in Nat /\ b \in Nat /\ n \in Nat /\ n < U16
  BY <1>5, LenProperties, Consts DEF SentInv
<1>7. SentInv /\ ReadInv
  OBVIOUS
<1> HIDE DEF a, b, m, n, w
<1>8. Len(e) >= 2 => e[1] + Base * e[2] = n
  <2> SUFFICES ASSUME Len(e) >= 2 PROVE e[1] + Base * e[2] = n
    OBVIOUS
  <2>1. 1 \in 1 .. Len(e) /\ 2 \in 1 .. Len(e)
    BY <1>1, <1>2
  <2> QED BY <1>3, <1>5, <2>1
<1>9. k >= 2 => reading.cached_length = n /\ n \in 1 .. DEFAULT_CAP /\ k < n
  <2> SUFFICES ASSUME k >= 2 PROVE reading.cached_length = n /\ n \in 1 .. DEFAULT_CAP /\ k < n
    OBVIOUS
  <2>1. /\ reading.cached_length = reading.buf[1] + Base * reading.buf[2]
        /\ reading.cached_length \in 1 .. DEFAULT_CAP
        /\ k < reading.cached_length
    BY <1>1, Consts DEF ReadInv, k
  <2>2. e[1] = reading.buf[1] /\ e[2] = reading.buf[2] /\ Len(e) >= 2
    <3>1. 1 \in 1 .. k /\ 2 \in 1 .. k
      BY <1>1
    <3> QED BY <1>1, <1>2, <3>1
  <2> QED BY <1>8, <2>1, <2>2
<1>10. k < 2 => reading.cached_length = 0
  BY Consts DEF ReadInv, k
<1>11. Len(e) <= n /\ (k < 2 => Len(e) <= 2) /\ Len(e) \in Nat /\ Len(e) >= 1
  <2>1. CASE k < 2
    <3>1. remaining_mut(reading) = 2 - k
      BY <2>1, Consts DEF remaining_mut, k
    <3> QED BY <1>1, <1>2, <1>5, <2>1, <3>1, Consts
  <2>2. CASE k >= 2
    <3>1. remaining_mut(reading) = n - k
      BY <1>1, <1>9, <2>2, Consts DEF remaining_mut, k
    <3> QED BY <1>1, <1>2, <1>6, <1>9, <2>2, <3>1
  <2> QED BY <1>1, <2>1, <2>2
<1>12. /\ w.buf = e
       /\ w.cached_length = IF Len(e) >= 2 THEN n ELSE 0
       /\ w.error <=> Len(e) >= 2 /\ n > DEFAULT_CAP
       /\ w = [buf |-> w.buf, cached_length |-> w.cached_length, error |-> w.error]
       /\ w.error \in BOOLEAN
  <2> DEFINE c == IF reading.cached_length = 0 /\ Len(e) >= HEAD_SIZE
                    THEN e[1] + Base * e[2] ELSE reading.cached_length
  <2>1. w = [buf |-> e, cached_length |-> c, error |-> Len(e) >= HEAD_SIZE /\ c \notin 1 .. DEFAULT_CAP]
    BY DEF w, advance_mut, e
  <2>2. c = IF Len(e) >= 2 THEN n ELSE 0
    <3>1. CASE Len(e) >= 2
      <4>1. CASE k >= 2
        BY <1>6, <1>8, <1>9, <3>1, <4>1, Consts
      <4>2. CASE k < 2
        BY <1>8, <1>10, <3>1, <4>2, Consts
      <4> QED BY <1>1, <4>1, <4>2
    <3>2. CASE ~(Len(e) >= 2)
      <4>1. k < 2
        BY <1>1, <1>2, <3>2
      <4> QED BY <1>10, <3>2, <4>1, Consts
    <3> QED BY <3>1, <3>2
  <2> HIDE DEF c
  <2>3. w.error = (Len(e) >= 2 /\ c \notin 1 .. DEFAULT_CAP)
    BY <2>1, Consts
  <2>4. Len(e) >= 2 => (c \notin 1 .. DEFAULT_CAP <=> n > DEFAULT_CAP)
    BY <1>5, <1>6, <2>2, Consts
  <2> QED BY <2>1, <2>2, <2>3, <2>4
<1>13. CASE w.error
  <2>1. Len(e) >= 2 /\ n > DEFAULT_CAP
    BY <1>12, <1>13
  <2>2. k < 2 /\ Len(e) = 2
    <3>1. k < 2
      BY <1>1, <1>6, <1>9, <2>1, Consts
    <3>2. Len(e) <= 2 /\ Len(e) \in Nat
      BY <1>11, <3>1
    <3>3. Len(e) = 2
      <4>1. \A x \in Nat : x <= 2 /\ x >= 2 => x = 2
        OBVIOUS
      <4>2. Len(e) >= 2
        BY <2>1
      <4> QED BY <3>2, <4>1, <4>2
    <3> QED BY <3>1, <3>3
  <2>3. finished' = "error" /\ reading' = w /\ UNCHANGED << out, requests >>
    BY <1>13 DEF Received, w
  <2>4. SentInv'
    BY <1>7, <2>3 DEF SentInv
  <2>5. ReadInv'
    <3>1. reading' \in [buf : Bytes, cached_length : Int, error : BOOLEAN]
      BY <1>2, <1>6, <1>12, <2>1, <2>3
    <3>2. /\ reading'.buf = e /\ reading'.error /\ reading'.cached_length = n
          /\ Len(reading'.buf) = 2
      BY <1>12, <1>13, <2>1, <2>2, <2>3
    <3>3. n \notin 1 .. DEFAULT_CAP /\ n = reading'.buf[1] + Base * reading'.buf[2]
      BY <1>6, <1>8, <2>1, <3>2, Consts
    <3>4. \E i \in DOMAIN sent' : Len(sent'[i]) > DEFAULT_CAP
      <4>1. a + 1 \in DOMAIN sent /\ Len(sent[a + 1]) > DEFAULT_CAP
        BY <1>5, <1>7, <2>1, LenProperties DEF SentInv, n, m
      <4> QED BY <4>1
    <3>5. finished' # "no"
      BY <2>3
    <3>6. HEAD_SIZE = 2
      BY Consts
    <3> QED BY <3>1, <3>2, <3>3, <3>4, <3>5, <3>6 DEF ReadInv
  <2>6. Following(reading.buf \o X)'
    <3>1. reading'.buf \o X = p
      BY <1>12, <2>3 DEF p
    <3>2. Framed(reading'.buf \o X, sent', Len(out'), Len(sent') - Len(channel'))
      BY <1>4, <2>3, <3>1 DEF Following
    <3> QED BY <3>2 DEF Following
  <2> QED BY <2>3, <2>4, <2>5, <2>6
<1>14. CASE ~w.error /\ ~is_completed(w)
  <2>1. reading' = w /\ UNCHANGED << finished, out, requests >>
    BY <1>14 DEF Received, w
  <2>2. Len(e) >= 2 => n \in 1 .. DEFAULT_CAP /\ Len(e) < n
    <3> SUFFICES ASSUME Len(e) >= 2 PROVE n \in 1 .. DEFAULT_CAP /\ Len(e) < n
      OBVIOUS
    <3>1. n <= DEFAULT_CAP
      BY <1>6, <1>12, <1>14, Consts
    <3>2. Len(e) % U16 = Len(e)
      BY <1>6, <1>11, Small, Consts
    <3>3. n > 0 /\ n # Len(e)
      <4>1. w.cached_length = n /\ w.buf = e
        BY <1>12
      <4>2. ~(n > 0 /\ n = Len(e))
        BY <1>14, <3>2, <4>1 DEF is_completed
      <4>3. n > 0
        BY <1>5, <1>6
      <4> QED BY <4>2, <4>3
    <3> QED BY <1>6, <1>11, <3>1, <3>3
  <2>3. SentInv'
    BY <1>7, <2>1 DEF SentInv
  <2>4. ReadInv'
    <3>1. reading' \in [buf : Bytes, cached_length : Int, error : BOOLEAN]
      BY <1>2, <1>6, <1>12, <2>1
    <3>2. /\ reading'.buf = e /\ ~reading'.error
          /\ reading'.cached_length = IF Len(e) >= 2 THEN n ELSE 0
      BY <1>12, <1>14, <2>1
    <3>3. HEAD_SIZE = 2 /\ Len(e) \in Nat
      BY <1>11, Consts
    <3>4. finished' = "no"
      BY <2>1
    <3>5. Len(reading'.buf) < HEAD_SIZE => reading'.cached_length = 0 /\ ~reading'.error
      BY <3>2, <3>3
    <3>6. Len(reading'.buf) >= HEAD_SIZE =>
            /\ reading'.cached_length = reading'.buf[1] + Base * reading'.buf[2]
            /\ reading'.error <=> reading'.cached_length \notin 1 .. DEFAULT_CAP
            /\ IF reading'.error THEN Len(reading'.buf) = HEAD_SIZE
               ELSE Len(reading'.buf) < reading'.cached_length
      BY <1>8, <2>2, <3>2, <3>3
    <3> QED BY <3>1, <3>2, <3>4, <3>5, <3>6 DEF ReadInv
  <2>5. Following(reading.buf \o X)'
    <3>1. reading'.buf \o X = p
      BY <1>12, <2>1 DEF p
    <3>2. Framed(reading'.buf \o X, sent', Len(out'), Len(sent') - Len(channel'))
      BY <1>4, <2>1, <3>1 DEF Following
    <3> QED BY <3>2 DEF Following
  <2> QED BY <2>1, <2>3, <2>4, <2>5
<1>15. CASE ~w.error /\ is_completed(w)
  <2>1. /\ reading' = NewRMessage /\ UNCHANGED finished
        /\ out' = Append(out, e) /\ requests' = Append(requests, e)
    BY <1>12, <1>15 DEF Received, w
  <2>2. Len(e) >= 2 /\ n = Len(e) /\ n <= DEFAULT_CAP
    <3>1. Len(e) % U16 = Len(e)
      BY <1>6, <1>11, Small, Consts
    <3>2. w.cached_length > 0 /\ w.cached_length = Len(e)
      BY <1>12, <1>15, <3>1 DEF is_completed
    <3> QED BY <1>6, <1>11, <1>12, <1>15, <3>2, Consts
  <2>3. e = m
    <3>1. Upto(p, n) = e
      <4>1. /\ Upto(p, n) \in Bytes /\ Len(Upto(p, n)) = n
            /\ \A i \in 1 .. n : Upto(p, n)[i] = p[i]
        <5>1. n \in 0 .. Len(p)
          BY <1>5, <1>6, <1>3, LenProperties DEF Bytes
        <5> QED BY <1>3, <5>1, Halves
      <4> QED BY <1>2, <1>3, <2>2, <4>1, SeqEqual DEF Bytes
    <3> QED BY <1>5, <3>1
  <2>4. Framed(X, sent, a + 1, b)
    BY <1>3, <1>5, <2>2
  <2>5. /\ out' \in Seq(Bytes) /\ Len(out') = a + 1
        /\ \A i \in 1 .. a : out'[i] = out[i]
        /\ out'[a + 1] = e
    <3>1. out \in Seq(Bytes)
      BY <1>7 DEF SentInv
    <3> QED BY <1>2, <2>1, <3>1, AppendProperties DEF a
  <2>6. SentInv'
    <3>1. \A i \in 1 .. a + 1 : out'[i] = sent[i] /\ Len(out'[i]) <= DEFAULT_CAP
      <4> SUFFICES ASSUME NEW i \in 1 .. a + 1
                   PROVE  out'[i] = sent[i] /\ Len(out'[i]) <= DEFAULT_CAP
        OBVIOUS
      <4>1. CASE i = a + 1
        BY <2>2, <2>3, <2>5, <4>1 DEF m
      <4>2. CASE i \in 1 .. a
        BY <1>7, <2>5, <4>2 DEF SentInv, a
      <4> QED BY <1>6, <4>1, <4>2
    <3>2. a + 1 <= b
      BY <1>5, <1>6
    <3> QED BY <1>7, <2>5, <3>1, <3>2 DEF SentInv, b
  <2>7. ReadInv'
    <3>1. /\ reading'.buf = << >> /\ reading'.cached_length = 0 /\ ~reading'.error
          /\ reading' \in [buf : Bytes, cached_length : Int, error : BOOLEAN]
          /\ Len(reading'.buf) = 0
      BY <1>1, <2>1, Empty DEF NewRMessage
    <3>2. HEAD_SIZE = 2 /\ finished' = "no"
      BY <2>1, Consts
    <3> QED BY <3>1, <3>2 DEF ReadInv
  <2>8. Following(reading.buf \o X)'
    <3>1. reading'.buf \o X = X
      BY <2>1, Empty DEF NewRMessage
    <3>2. Framed(reading'.buf \o X, sent', Len(out'), Len(sent') - Len(channel'))
      BY <2>4, <2>5, <3>1 DEF b
    <3> QED BY <3>2 DEF Following
  <2> QED BY <1>2, <2>1, <2>6, <2>7, <2>8
<1> QED BY <1>12, <1>13, <1>14, <1>15

-----------------------------------------------------------------------------
(***************************************************************************)
(* The steps.                                                              *)
(***************************************************************************)

\* The body of a buffer is a sequence of bytes.
LEMMA BodyOf ==
    ASSUME NEW m, Frame(m)
    PROVE  Body(m) \in Bytes
<1>1. m \in Bytes /\ Len(m) \in Nat /\ (Len(m) <= DEFAULT_CAP => Len(m) > TMESSAGE_KEEP)
  BY LenProperties DEF Frame, Bytes
<1>2. CASE Len(m) <= DEFAULT_CAP
  <2>1. TMESSAGE_KEEP \in 0 .. Len(m)
    BY <1>1, <1>2, Consts
  <2> QED BY <1>1, <1>2, <2>1, Halves DEF Body
<1>3. CASE ~(Len(m) <= DEFAULT_CAP)
  BY <1>3, Empty, <1>1 DEF Body
<1> QED BY <1>2, <1>3

\* The data is a sequence of bytes.
LEMMA DataBytes ==
    /\ Data \in Bytes /\ Len(Data) = DataLen /\ DataLen \in Nat
<1>1. \A i \in 1 .. DataLen : Base + i \in Int
  BY Consts
<1> QED BY <1>1, Consts DEF Data, Bytes

\* Where the bytes under way are: they are bytes.
LEMMA StreamBytes ==
    ASSUME PipeInv, ReadInv
    PROVE  /\ Rest(writing) \in Bytes /\ wire \in Bytes /\ tail \in Bytes /\ read_buf \in Bytes
           /\ reading.buf \in Bytes /\ Ahead \in Bytes
           /\ wire \o Rest(writing) \in Bytes /\ Stream \in Bytes
<1>1. Rest(writing) \in Bytes /\ wire \in Bytes /\ tail \in Bytes /\ read_buf \in Bytes /\ reading.buf \in Bytes
  BY RestOf DEF PipeInv, ReadInv
<1>2. wire \o Rest(writing) \in Bytes /\ reading.buf \o tail \in Bytes
  BY <1>1, Joined
<1>3. Ahead \in Bytes
  BY <1>1, <1>2 DEF Ahead
<1> QED BY <1>1, <1>2, <1>3, Joined DEF Stream

\* A message is put in the channel, with the next bytes of the data, if any.
LEMMA QueueStep ==
    ASSUME IInv, NEW m \in Bytes, Frame(m), Queue(m),
           UNCHANGED << writing, wire, closed, handshakeVars, readerVars, localVars >>,
           taken' \in 0 .. DataLen, taken <= taken',
           Body(m) = SubSeq(Data, taken + 1, taken')
    PROVE  IInv'
<1> DEFINE s == Len(sent)
           c == Len(channel)
<1>1. /\ sent \in Seq(Bytes) /\ channel \in Seq(Bytes) /\ s \in Nat /\ c \in Nat /\ c <= s
      /\ out \in Seq(Bytes) /\ Len(out) \in Nat /\ Len(out) <= s - c
  BY LenProperties DEF IInv, SentInv
<1>2. /\ sent' \in Seq(Bytes) /\ Len(sent') = s + 1 /\ \A i \in 1 .. s : sent'[i] = sent[i]
      /\ sent'[s + 1] = m
      /\ channel' \in Seq(Bytes) /\ Len(channel') = c + 1 /\ \A i \in 1 .. c : channel'[i] = channel[i]
      /\ channel'[c + 1] = m
      /\ DOMAIN sent = 1 .. s /\ DOMAIN sent' = 1 .. s + 1
  BY <1>1, AppendProperties, LenProperties DEF Queue
<1> HIDE DEF s, c
<1>3. UNCHANGED << writing, wire, closed, state, wmsg, read_buf, tail, reading, finished, out,
                   requests, lwriting, got >>
  BY DEF handshakeVars, readerVars, localVars
<1>4. Len(sent') - Len(channel') = s - c
  BY <1>1, <1>2
<1>5. SentInv'
  <2>1. ASSUME NEW i \in 1 .. s + 1 PROVE Frame(sent'[i])
    <3>1. CASE i = s + 1
      BY <1>2, <3>1
    <3>2. CASE i \in 1 .. s
      BY <1>2, <3>2 DEF IInv, SentInv, s
    <3> QED BY <1>1, <3>1, <3>2
  <2>2. ASSUME NEW i \in 1 .. c + 1 PROVE channel'[i] = sent'[s - c + i]
    <3>1. CASE i = c + 1
      <4>1. s - c + (c + 1) = s + 1
        BY <1>1
      <4> QED BY <1>2, <3>1, <4>1
    <3>2. CASE i \in 1 .. c
      <4>1. s - c + i \in 1 .. s
        BY <1>1, <3>2
      <4>2. channel[i] = sent[s - c + i]
        BY <3>2 DEF IInv, SentInv, s, c
      <4> QED BY <1>2, <3>2, <4>1, <4>2
    <3> QED BY <1>1, <3>1, <3>2
  <2>3. \A i \in 1 .. Len(out') : out'[i] = sent'[i] /\ Len(out'[i]) <= DEFAULT_CAP
    <3> SUFFICES ASSUME NEW i \in 1 .. Len(out)
                 PROVE  out[i] = sent'[i] /\ Len(out[i]) <= DEFAULT_CAP
      BY <1>3
    <3>1. i \in 1 .. s
      BY <1>1
    <3> QED BY <1>2, <3>1 DEF IInv, SentInv
  <2>4. c + 1 <= s + 1
    BY <1>1
  <2> QED BY <1>1, <1>2, <1>3, <1>4, <2>1, <2>2, <2>3, <2>4 DEF SentInv
<1>6. ASSUME NEW p, Following(p) PROVE Following(p)'
  <2>1. Framed(p, sent, Len(out), s - c)
    BY <1>6 DEF Following, s, c
  <2>2. \A i \in Len(out) + 1 .. s - c : sent[i] = sent'[i]
    <3> SUFFICES ASSUME NEW i \in Len(out) + 1 .. s - c PROVE i \in 1 .. s
      BY <1>2
    <3> QED BY <1>1
  <2>3. Framed(p, sent', Len(out), s - c)
    BY <1>1, <2>1, <2>2, FramedSame
  <2> QED BY <1>3, <1>4, <2>3 DEF Following
<1>7. PipeInv'
  <2>1. Stream' = Stream /\ ResponseAhead' = ResponseAhead
    BY <1>3 DEF Stream, Ahead, ResponseAhead
  <2>2. state' # "Failed" => \E p \in Bytes : Stream' = ResponseAhead' \o p /\ Following(p)'
    BY <1>3, <1>6, <2>1 DEF IInv, PipeInv
  <2> QED BY <1>3, <2>1, <2>2 DEF IInv, PipeInv
<1>8. ReadInv'
  <2>1. (\E i \in DOMAIN sent : Len(sent[i]) > DEFAULT_CAP)
          => \E i \in DOMAIN sent' : Len(sent'[i]) > DEFAULT_CAP
    <3> SUFFICES ASSUME NEW i \in DOMAIN sent, Len(sent[i]) > DEFAULT_CAP
                 PROVE  \E j \in DOMAIN sent' : Len(sent'[j]) > DEFAULT_CAP
      OBVIOUS
    <3>1. i \in DOMAIN sent' /\ sent'[i] = sent[i]
      BY <1>1, <1>2
    <3> QED BY <3>1
  <2> QED BY <1>3, <2>1 DEF IInv, ReadInv
<1>9. LocalInv'
  <2>1. Written' = Written
    BY <1>3 DEF Written
  <2> DEFINE l == Len(Written)
             a == Len(out) - Len(requests)
             p == SubSeq(Data, l + 1, taken)
  <2>2. /\ taken \in 0 .. DataLen /\ l <= taken /\ l \in Nat /\ a \in Nat /\ a <= s
        /\ Framed(p, Bodies, a, s)
    <3>1. got \in Bytes /\ Rest(lwriting) \in Bytes
      BY RestOf DEF IInv, LocalInv
    <3>2. l \in Nat
      BY <3>1, Joined, LenProperties DEF Written, Bytes
    <3>3. Len(requests) \in Nat /\ Len(requests) <= Len(out)
      BY LenProperties DEF IInv, LocalInv
    <3> QED BY <1>1, <3>2, <3>3 DEF IInv, LocalInv, s
  <2>3. p \in Bytes /\ p \o Body(m) = SubSeq(Data, l + 1, taken')
    <3>1. /\ taken' \in taken .. Len(Data) /\ l \in 0 .. Len(Data) /\ taken \in l .. Len(Data)
      BY <2>2, DataBytes
    <3>2. SubSeq(Data, l + 1, taken) \o SubSeq(Data, taken + 1, taken') = SubSeq(Data, l + 1, taken')
      BY <3>1, DataBytes, Adjacent
    <3> QED BY <3>1, <3>2, DataBytes, Cut
  <2> HIDE DEF l, a, p
  <2>4. Framed(p, Bodies', a, s)
    <3>1. \A i \in a + 1 .. s : Bodies[i] = Bodies'[i]
      <4> SUFFICES ASSUME NEW i \in a + 1 .. s PROVE Bodies[i] = Bodies'[i]
        OBVIOUS
      <4>1. i \in DOMAIN sent /\ i \in DOMAIN sent' /\ sent'[i] = sent[i]
        BY <1>1, <1>2, <2>2
      <4> QED BY <4>1 DEF Bodies
    <3> QED BY <1>1, <2>2, <3>1, FramedSame
  <2>5. Bodies'[s + 1] = Body(m)
    <3>1. s + 1 \in DOMAIN sent' /\ sent'[s + 1] = m
      BY <1>1, <1>2
    <3> QED BY <3>1 DEF Bodies
  <2>6. Framed(p \o Body(m), Bodies', a, s + 1)
    BY <1>1, <2>2, <2>3, <2>4, <2>5, BodyOf, FramedAppend
  <2>7. Framed(SubSeq(Data, Len(Written') + 1, taken'), Bodies',
               Len(out') - Len(requests'), Len(sent'))
    BY <1>2, <1>3, <2>1, <2>3, <2>6 DEF l, a
  <2>8. Len(Written') <= taken' /\ Written' = Upto(Data, Len(Written'))
    <3>1. Len(Written) <= taken /\ Written = Upto(Data, Len(Written))
      BY DEF IInv, LocalInv
    <3>2. l <= taken'
      BY <2>2
    <3> QED BY <2>1, <3>1, <3>2 DEF l
  <2> QED BY <1>3, <2>7, <2>8 DEF IInv, LocalInv
<1> QED BY <1>5, <1>7, <1>8, <1>9 DEF IInv

\* TcpFramed reads from the client's socket (TcpFramed::poll_next).
LEMMA ReadClientStep ==
    ASSUME IInv, NEW n \in 1 .. DEFAULT_CAP, ReadClient(n)
    PROVE  IInv'
<1> DEFINE d == SubSeq(Data, taken + 1, taken + n)
<1>1. taken \in 0 .. DataLen /\ taken' = taken + n /\ n <= DataLen - taken /\ n <= DEFAULT_CAP - TMESSAGE_KEEP
  BY DEF ReadClient, IInv, LocalInv
<1>2. taken' \in 0 .. DataLen /\ taken <= taken' /\ taken \in 0 .. Len(Data) /\ taken + n \in taken .. Len(Data)
  BY <1>1, DataBytes
<1>3. d \in Bytes /\ Len(d) = taken + n - taken
  BY <1>2, DataBytes, Cut
<1>4. Len(d) \in 1 .. DEFAULT_CAP - TMESSAGE_KEEP
  <2>1. taken + n - taken = n
    BY <1>1
  <2> QED BY <1>1, <1>3, <2>1, Consts
<1> HIDE DEF d
<1>5. Frame(TMessage(d)) /\ Body(TMessage(d)) = d /\ TMessage(d) \in Bytes
  BY <1>3, <1>4, Made DEF Frame
<1>6. /\ Queue(TMessage(d))
      /\ UNCHANGED << writing, wire, closed, handshakeVars, readerVars, localVars >>
  BY DEF ReadClient, d
<1>7. Body(TMessage(d)) = SubSeq(Data, taken + 1, taken')
  BY <1>1, <1>5 DEF d
<1> QED BY <1>2, <1>5, <1>6, <1>7, QueueStep

\* A UDP packet that does not fit is sent (udp_proxy_north).
LEMMA SendUdpStep ==
    ASSUME IInv, NEW n \in UdpSizes, SendUdp(n)
    PROVE  IInv'
<1> DEFINE m == Header(n % U16) \o [i \in 1 .. n - HEAD_SIZE |-> 0]
<1>1. Frame(m) /\ Body(m) = << >>
  BY MadeUdp
<1> HIDE DEF m
<1>2. m \in Bytes
  BY <1>1 DEF Frame
<1>3. /\ Queue(m) /\ taken' = taken
      /\ UNCHANGED << writing, wire, closed, handshakeVars, readerVars, localVars >>
  BY DEF SendUdp, m
<1>4. taken \in 0 .. DataLen /\ SubSeq(Data, taken + 1, taken) = << >>
  <2>1. taken \in 0 .. DataLen
    BY DEF IInv, LocalInv
  <2>2. SubSeq(Data, taken + 1, taken) \in Bytes /\ Len(SubSeq(Data, taken + 1, taken)) = taken - taken
    BY <2>1, DataBytes, Cut, taken \in taken .. Len(Data)
  <2>3. taken - taken = 0
    BY <2>1
  <2> QED BY <2>1, <2>2, <2>3, Empty
<1>5. taken' \in 0 .. DataLen /\ taken <= taken' /\ Body(m) = SubSeq(Data, taken + 1, taken')
  BY <1>1, <1>3, <1>4
<1> QED BY <1>1, <1>2, <1>3, <1>5, QueueStep

\* A reader's step moves a message to the end of what was received and of what
\* waits for the socket of the request.
LEMMA LocalRead ==
    ASSUME IInv, UNCHANGED << taken, sent, lwriting, got >>,
           \/ UNCHANGED << out, requests >>
           \/ \E m \in Bytes : out' = Append(out, m) /\ requests' = Append(requests, m)
    PROVE  LocalInv'
<1>1. CASE UNCHANGED << out, requests >>
  <2>1. Written' = Written /\ Bodies' = Bodies
    BY DEF Written, Bodies
  <2> QED BY <1>1, <2>1 DEF IInv, LocalInv
<1>2. ASSUME NEW m \in Bytes, out' = Append(out, m), requests' = Append(requests, m)
      PROVE  LocalInv'
  <2> DEFINE o == Len(out)
             r == Len(requests)
  <2>1. /\ out \in Seq(Bytes) /\ requests \in Seq(Bytes) /\ o \in Nat /\ r \in Nat /\ r <= o
    BY LenProperties DEF IInv, SentInv, LocalInv
  <2>2. /\ out' \in Seq(Bytes) /\ Len(out') = o + 1 /\ \A i \in 1 .. o : out'[i] = out[i]
        /\ out'[o + 1] = m
        /\ requests' \in Seq(Bytes) /\ Len(requests') = r + 1
        /\ \A i \in 1 .. r : requests'[i] = requests[i]
        /\ requests'[r + 1] = m
    BY <1>2, <2>1, AppendProperties
  <2> HIDE DEF o, r
  <2>3. Len(out') - Len(requests') = o - r /\ r + 1 <= o + 1
    BY <2>1, <2>2
  <2>4. ASSUME NEW i \in 1 .. r + 1 PROVE requests'[i] = out'[o - r + i]
    <3>1. CASE i = r + 1
      <4>1. o - r + (r + 1) = o + 1
        BY <2>1
      <4> QED BY <2>2, <3>1, <4>1
    <3>2. CASE i \in 1 .. r
      <4>1. o - r + i \in 1 .. o
        BY <2>1, <3>2
      <4>2. requests[i] = out[o - r + i]
        BY <3>2 DEF IInv, LocalInv, o, r
      <4> QED BY <2>2, <3>2, <4>1, <4>2
    <3> QED BY <2>1, <3>1, <3>2
  <2>5. Written' = Written /\ Bodies' = Bodies
    BY DEF Written, Bodies
  <2>6. Framed(SubSeq(Data, Len(Written') + 1, taken'), Bodies',
               Len(out') - Len(requests'), Len(sent'))
    BY <2>3, <2>5 DEF IInv, LocalInv, o, r
  <2>7. \A i \in 1 .. Len(requests') : requests'[i] = out'[Len(out') - Len(requests') + i]
    BY <2>2, <2>3, <2>4
  <2>8. Len(requests') <= Len(out')
    BY <2>2, <2>3
  <2> QED BY <2>2, <2>5, <2>6, <2>7, <2>8 DEF IInv, LocalInv
<1> QED BY <1>1, <1>2

\* LwsFramed takes the next message of the channel.
LEMMA StartSendStep ==
    ASSUME IInv, StartSend
    PROVE  IInv'
<1> DEFINE s == Len(sent)
           c == Len(channel)
           m == Head(channel)
<1>1. /\ sent \in Seq(Bytes) /\ channel \in Seq(Bytes) /\ s \in Nat /\ c \in Nat /\ c <= s /\ c >= 1
      /\ Len(out) \in Nat /\ Len(out) <= s - c
      /\ state \in {"Done", "ReadingResponse"} /\ writing = Nothing
  <2>1. channel # << >> /\ state \in {"Done", "ReadingResponse"} /\ writing = Nothing
    BY DEF StartSend
  <2> QED BY <2>1, LenProperties, EmptySeq DEF IInv, SentInv
<1>2. /\ m = channel[1] /\ m \in Bytes
      /\ channel' \in Seq(Bytes) /\ Len(channel') = c - 1
      /\ \A i \in 1 .. c - 1 : channel'[i] = channel[i + 1]
  <2>1. channel # << >> /\ channel' = Tail(channel)
    BY DEF StartSend
  <2> QED BY <1>1, <2>1, HeadTailProperties
<1>3. /\ UNCHANGED << taken, sent, wire, closed, state, read_buf, tail, reading, finished, out, requests, lwriting, got >>
      /\ writing' = [buf |-> m, cursor |-> 0]
  BY DEF StartSend, handshakeVars, readerVars, localVars
<1> HIDE DEF s, c, m
<1>4. m = sent[s - c + 1] /\ Frame(m) /\ s - c + 1 \in 1 .. s
  <2>1. channel[1] = sent[s - c + 1]
    BY <1>1 DEF IInv, SentInv, s, c
  <2>2. s - c + 1 \in 1 .. s
    BY <1>1
  <2> QED BY <1>2, <2>1, <2>2 DEF IInv, SentInv, s
<1>5. Len(sent') - Len(channel') = s - c + 1
  BY <1>1, <1>2, <1>3 DEF s
<1>6. SentInv'
  <2>1. ASSUME NEW i \in 1 .. c - 1
        PROVE  channel'[i] = sent[s - c + 1 + i]
    <3>1. i + 1 \in 1 .. c /\ s - c + (i + 1) = s - c + 1 + i
      BY <1>1
    <3>2. channel[i + 1] = sent[s - c + (i + 1)]
      BY <3>1 DEF IInv, SentInv, s, c
    <3> QED BY <1>2, <3>1, <3>2
  <2>2. c - 1 <= s /\ Len(out) <= s - c + 1
    BY <1>1
  <2> QED BY <1>2, <1>3, <1>5, <2>1, <2>2 DEF IInv, SentInv, s
<1>7. /\ Rest(writing) = << >> /\ Writing(writing') /\ Rest(writing') = m /\ writing' # Nothing
  <2>1. m \in Bytes /\ Len(m) \in Nat /\ Len(m) >= 2 /\ Len(m) < U16
    BY <1>4, Consts DEF Frame
  <2>2. writing'.buf = m /\ writing'.cursor = 0 /\ writing' \in [buf : Bytes, cursor : Nat]
    BY <1>3, <2>1
  <2>3. Writing(writing')
    BY <2>1, <2>2 DEF Writing
  <2>4. writing'.buf # << >>
    BY <2>1, <2>2, Empty
  <2>5. writing' # Nothing
    BY <2>4 DEF Nothing
  <2>6. Rest(writing') = From(m, 0)
    BY <2>2 DEF Rest, From
  <2>7. Rest(writing) = << >>
    BY <1>1, RestOf DEF IInv, PipeInv
  <2> QED BY <2>1, <2>3, <2>5, <2>6, <2>7, Empty
<1>8. PICK p \in Bytes : Stream = ResponseAhead \o p /\ Following(p)
  BY <1>1 DEF IInv, PipeInv
<1>9. m \in Bytes /\ ResponseAhead \in Bytes /\ Ahead \in Bytes /\ wire \in Bytes
      /\ wire \o << >> = wire /\ wire \o m \in Bytes
  BY <1>2, StreamBytes, ResponseBytes, Empty, Joined DEF IInv, ResponseAhead
<1>10. Stream' = ResponseAhead' \o (p \o m)
  <2>1. Stream' = Ahead \o (wire \o m)
    BY <1>3, <1>7 DEF Stream, Ahead
  <2>2. Stream = Ahead \o wire
    BY <1>7, <1>9 DEF Stream
  <2>3. (Ahead \o wire) \o m = Ahead \o (wire \o m)
    BY <1>9, Assoc
  <2>4. (ResponseAhead \o p) \o m = ResponseAhead \o (p \o m)
    BY <1>9, Assoc
  <2>5. ResponseAhead' = ResponseAhead
    BY <1>3 DEF ResponseAhead
  <2> QED BY <1>8, <2>1, <2>2, <2>3, <2>4, <2>5
<1>11. PICK q \in Bytes : q = p \o m
  BY <1>9, Joined
<1>12. Following(q)'
  <2>1. Framed(p, sent, Len(out), s - c)
    BY <1>8 DEF Following, s, c
  <2>2. s - c \in Nat
    BY <1>1
  <2>3. Framed(p \o m, sent, Len(out), s - c + 1)
    BY <1>1, <1>4, <1>9, <2>1, <2>2, FramedAppend
  <2>4. Framed(q, sent', Len(out'), Len(sent') - Len(channel'))
    BY <1>3, <1>5, <1>11, <2>3
  <2> QED BY <2>4 DEF Following
<1>13. PipeInv'
  <2>1. \E u \in Bytes : Stream' = ResponseAhead' \o u /\ Following(u)'
    BY <1>10, <1>11, <1>12
  <2>2. state' \in {"Done", "ReadingResponse"}
    BY <1>1, <1>3
  <2> QED BY <1>3, <1>7, <2>1, <2>2 DEF IInv, PipeInv
<1>14. ReadInv' /\ LocalInv'
  BY <1>3, LocalRead DEF IInv, ReadInv
<1> QED BY <1>6, <1>13, <1>14 DEF IInv

\* The bytes stay the same and nothing is received: the messages that follow are
\* the same.
LEMMA SameStream ==
    ASSUME IInv, UNCHANGED << taken, channel, sent, reading, finished, out, requests, lwriting, got, tail, closed >>,
           Writing(writing'), wire' \in Bytes, read_buf' \in Bytes,
           state \in {"ReadingResponse", "Done"}, state' = state,
           state = "ReadingResponse" => Len(read_buf') < Len(Response),
           Stream' = Stream
    PROVE  IInv'
<1>1. ResponseAhead' = ResponseAhead
  BY DEF ResponseAhead
<1>2. ASSUME NEW p PROVE Following(p)' <=> Following(p)
  BY DEF Following
<1>3. \E p \in Bytes : Stream' = ResponseAhead' \o p /\ Following(p)'
  BY <1>1, <1>2 DEF IInv, PipeInv
<1>4. PipeInv'
  <2>1. state' # "WritingHeader" /\ state' # "Failed"
    OBVIOUS
  <2> QED BY <1>3, <2>1 DEF IInv, PipeInv
<1>5. SentInv' /\ ReadInv' /\ LocalInv'
  BY LocalRead DEF IInv, SentInv, ReadInv
<1> QED BY <1>4, <1>5 DEF IInv

\* The connection takes some bytes of the message that is being written.
LEMMA FlushStep ==
    ASSUME IInv, NEW n \in 1 .. DEFAULT_CAP, Flush(n)
    PROVE  IInv'
<1> DEFINE r == Rest(writing)
<1>1. /\ UNCHANGED << taken, channel, sent, closed, state, read_buf, tail, reading, finished, out, requests, lwriting, got >>
      /\ writing # Nothing /\ n <= Len(r) /\ ~closed
      /\ wire' = wire \o Upto(r, n) /\ writing' = Advanced(writing, n)
  BY DEF Flush, handshakeVars, readerVars, localVars, Upto
<1>2. Writing(writing) /\ r \in Bytes /\ wire \in Bytes /\ Len(r) \in Nat /\ n \in Nat
  BY RestOf DEF IInv, PipeInv
<1>3. Writing(writing') /\ Rest(writing') = From(r, n)
  BY <1>1, <1>2, AdvancedBy
<1>4. /\ n \in 0 .. Len(r) /\ Upto(r, n) \in Bytes /\ wire' \in Bytes
      /\ wire' \o Rest(writing') = wire \o r
  <2>1. n \in 0 .. Len(r)
    BY <1>1, <1>2
  <2>2. Upto(r, n) \in Bytes
    BY <1>2, <2>1, Halves
  <2> QED BY <1>1, <1>2, <1>3, <2>1, <2>2, Joined, Moved
<1>5. Stream' = Stream
  BY <1>1, <1>4 DEF Stream, Ahead
<1>6. state \in {"ReadingResponse", "Done"} /\ read_buf' \in Bytes
      /\ (state = "ReadingResponse" => Len(read_buf') < Len(Response))
  BY <1>1 DEF IInv, PipeInv
<1> QED BY <1>1, <1>3, <1>4, <1>5, <1>6, SameStream

\* The request of the handshake is written; the response comes behind nothing.
LEMMA WriteHeaderStep ==
    ASSUME IInv, NEW n \in 1 .. RequestLen, WriteHeader(n)
    PROVE  IInv'
<1>1. /\ UNCHANGED << taken, channel, sent, writing, closed, read_buf, tail, reading, finished, out, requests, lwriting, got >>
      /\ state = "WritingHeader"
      /\ \/ state' = "ReadingResponse" /\ wire' = Response
         \/ UNCHANGED << state, wire >>
  BY DEF WriteHeader, senderVars, readerVars, localVars
<1>2. SentInv' /\ ReadInv' /\ LocalInv'
  BY <1>1, LocalRead DEF IInv, SentInv, ReadInv
<1>3. CASE UNCHANGED << state, wire >>
  <2>1. Stream' = Stream /\ ResponseAhead' = ResponseAhead
    BY <1>1, <1>3 DEF Stream, Ahead, ResponseAhead
  <2>2. ASSUME NEW p PROVE Following(p)' <=> Following(p)
    BY <1>1 DEF Following
  <2>3. \E p \in Bytes : Stream' = ResponseAhead' \o p /\ Following(p)'
    BY <1>1, <2>1, <2>2 DEF IInv, PipeInv
  <2>4. PipeInv'
    BY <1>1, <1>3, <2>1, <2>3 DEF IInv, PipeInv
  <2> QED BY <1>2, <2>4 DEF IInv
<1>4. CASE state' = "ReadingResponse" /\ wire' = Response
  <2>1. /\ Ahead \in Bytes /\ wire \o Rest(writing) \in Bytes /\ Rest(writing) \in Bytes
        /\ Stream = << >> /\ writing = Nothing /\ Rest(writing) = << >>
        /\ read_buf \in Bytes /\ Ahead = read_buf
    BY <1>1, StreamBytes, RestOf DEF IInv, PipeInv, Ahead
  <2>2. read_buf = << >>
    <3>1. Len(Stream) = Len(Ahead) + Len(wire \o Rest(writing)) /\ Len(Stream) = 0
          /\ Len(Ahead) \in Nat /\ Len(wire \o Rest(writing)) \in Nat
      <4>1. Len(Ahead \o (wire \o Rest(writing))) = Len(Ahead) + Len(wire \o Rest(writing))
            /\ Len(Ahead) \in Nat /\ Len(wire \o Rest(writing)) \in Nat
        BY <2>1, Joined
      <4> QED BY <2>1, <4>1, Empty DEF Stream
    <3>2. Len(Ahead) = 0
      BY <3>1
    <3> QED BY <2>1, <3>2, Empty
  <2>3. Response \in Bytes /\ << >> \in Bytes /\ Response \o << >> = Response /\ << >> \o Response = Response
        /\ Len(<< >>) = 0 /\ Len(Response) = 7
    BY ResponseBytes, Empty
  <2>4. Stream' = ResponseAhead' \o << >>
    <3>1. Stream' = read_buf \o (Response \o Rest(writing))
      BY <1>1, <1>4 DEF Stream, Ahead
    <3>2. ResponseAhead' = Response
      BY <1>4 DEF ResponseAhead
    <3> QED BY <2>1, <2>2, <2>3, <3>1, <3>2
  <2>5. Following(<< >>)
    <3>1. PICK p \in Bytes : Stream = ResponseAhead \o p /\ Following(p)
      BY <1>1 DEF IInv, PipeInv
    <3>2. ResponseAhead = << >>
      BY <1>1 DEF ResponseAhead
    <3>3. p = << >>
      BY <2>1, <3>1, <3>2, Empty
    <3> QED BY <3>1, <3>3
  <2>6. Following(<< >>)'
    BY <1>1, <2>5 DEF Following
  <2>7. PipeInv'
    <3>1. \E p \in Bytes : Stream' = ResponseAhead' \o p /\ Following(p)'
      BY <2>3, <2>4, <2>6
    <3>2. Len(read_buf') < Len(Response)
      BY <1>1, <2>2, <2>3
    <3> QED BY <1>1, <1>4, <2>3, <3>1, <3>2 DEF IInv, PipeInv
  <2> QED BY <1>2, <2>7 DEF IInv
<1> QED BY <1>1, <1>3, <1>4

\* The response is read, to its end or not; what follows it is passed on.
LEMMA ReadResponseStep ==
    ASSUME IInv, NEW n \in 1 .. DEFAULT_CAP + Len(Response), ReadResponse(n)
    PROVE  IInv'
<1> DEFINE R == Rest(writing)
           B == read_buf \o Upto(wire, n)
           X == From(wire, n) \o R
<1>1. /\ UNCHANGED << taken, channel, sent, writing, closed, reading, finished, out, requests, lwriting, got >>
      /\ state = "ReadingResponse" /\ n <= Len(wire) /\ wire' = From(wire, n)
      /\ IF parse_response(B).found
           THEN state' = "Done" /\ tail' = parse_response(B).rest /\ read_buf' = << >>
           ELSE read_buf' = parse_response(B).rest /\ UNCHANGED << state, tail >>
  BY DEF ReadResponse, senderVars, localVars, Upto, From
<1>2. /\ wire \in Bytes /\ read_buf \in Bytes /\ R \in Bytes /\ n \in 0 .. Len(wire)
      /\ Upto(wire, n) \in Bytes /\ From(wire, n) \in Bytes
      /\ Upto(wire, n) \o From(wire, n) = wire
  <2>1. wire \in Bytes /\ read_buf \in Bytes /\ R \in Bytes
    BY StreamBytes DEF IInv
  <2>2. n \in 0 .. Len(wire)
    BY <1>1, <2>1, LenProperties, ResponseBytes, Consts DEF Bytes
  <2> QED BY <2>1, <2>2, Halves
<1>3. B \in Bytes /\ X \in Bytes /\ Len(B) \in Nat
  BY <1>2, Joined, LenProperties DEF Bytes
<1>4. PICK p \in Bytes : Stream = Response \o p /\ Following(p)
  BY <1>1 DEF IInv, PipeInv, ResponseAhead
<1>5. Stream = B \o X
  <2>1. Stream = read_buf \o (wire \o R)
    BY <1>1 DEF Stream, Ahead
  <2>2. wire \o R = Upto(wire, n) \o X
    <3>1. (Upto(wire, n) \o From(wire, n)) \o R = Upto(wire, n) \o (From(wire, n) \o R)
      BY <1>2, Assoc
    <3> QED BY <1>2, <3>1
  <2>3. read_buf \o (Upto(wire, n) \o X) = B \o X
    <3> DEFINE f == Upto(wire, n)
    <3>1. f \in Bytes /\ B = read_buf \o f
      BY <1>2
    <3> HIDE DEF f, X, B
    <3>2. (read_buf \o f) \o X = read_buf \o (f \o X)
      <4>1. read_buf \in Bytes /\ f \in Bytes /\ X \in Bytes
        BY <1>2, <1>3, <3>1
      <4> QED BY <4>1, Assoc
    <3> QED BY <3>1, <3>2 DEF f
  <2> QED BY <2>1, <2>2, <2>3
<1>6. SentInv' /\ ReadInv' /\ LocalInv'
  BY <1>1, LocalRead DEF IInv, SentInv, ReadInv
<1> DEFINE r == parse_response(B)
<1>7. /\ Len(B) < 7 => r = [found |-> FALSE, rest |-> B]
      /\ Len(B) >= 7 => r = [found |-> TRUE, rest |-> From(B, 7)] /\ From(B, 7) \o X = p
  <2> HIDE DEF B, X
  <2> QED BY <1>3, <1>4, <1>5, Parsed
<1>8. CASE Len(B) < 7
  <2>1. ~r.found /\ r.rest = B
    BY <1>7, <1>8
  <2>2. read_buf' = B /\ UNCHANGED << state, tail >>
    BY <1>1, <2>1
  <2>3. Stream' = Stream
    <3>1. Stream' = B \o X
      BY <1>1, <2>2 DEF Stream, Ahead
    <3> QED BY <1>5, <3>1
  <2>4. read_buf' \in Bytes /\ Len(read_buf') < Len(Response)
    BY <1>3, <1>8, <2>2, ResponseBytes
  <2> HIDE DEF B, X, R
  <2>5. Writing(writing') /\ wire' \in Bytes
    BY <1>1, <1>2 DEF IInv, PipeInv
  <2> QED BY <1>1, <2>2, <2>3, <2>4, <2>5, SameStream
<1>9. CASE Len(B) >= 7
  <2>1. r.found /\ r.rest = From(B, 7) /\ From(B, 7) \o X = p /\ From(B, 7) \in Bytes
    <3>1. From(B, 7) \in Bytes
      <4>1. 7 \in 0 .. Len(B)
        BY <1>3, <1>9
      <4> HIDE DEF B
      <4> QED BY <1>3, <4>1, Halves
    <3> QED BY <1>7, <1>9, <3>1
  <2>2. state' = "Done" /\ tail' = From(B, 7) /\ read_buf' = << >>
    BY <1>1, <2>1
  <2>3. reading' = NewRMessage /\ finished' = "no"
    BY <1>1 DEF IInv, PipeInv
  <2>4. Stream' = ResponseAhead' \o p
    <3>1. Stream' = (<< >> \o From(B, 7)) \o X
      BY <1>1, <2>2, <2>3 DEF Stream, Ahead, NewRMessage
    <3>2. << >> \o From(B, 7) = From(B, 7)
      <4> HIDE DEF B
      <4> QED BY <2>1, Empty
    <3>3. << >> \o p = p
      BY Empty
    <3>4. ResponseAhead' = << >>
      BY <2>2 DEF ResponseAhead
    <3> QED BY <2>1, <3>1, <3>2, <3>3, <3>4
  <2>5. Following(p)'
    BY <1>1, <1>4 DEF Following
  <2>6. \E u \in Bytes : Stream' = ResponseAhead' \o u /\ Following(u)'
    BY <2>4, <2>5
  <2>7. /\ tail' \in Bytes /\ read_buf' \in Bytes /\ wire' \in Bytes
        /\ state' = "Done" /\ Writing(writing')
    BY <1>1, <1>2, <2>1, <2>2, Empty DEF IInv, PipeInv
  <2>8. PipeInv'
    BY <2>6, <2>7 DEF PipeInv
  <2> QED BY <1>6, <2>8 DEF IInv
<1> QED BY <1>3, <1>8, <1>9

\* The bytes that the reader has taken are in reading, or a message is complete.
LEMMA ReadStep ==
    ASSUME IInv, state = "Done", finished = "no",
           NEW d \in Bytes, Len(d) \in 1 .. remaining_mut(reading), NEW X \in Bytes,
           Received(advance_mut(reading, d)), Stream = (reading.buf \o d) \o X,
           UNCHANGED << taken, channel, sent, writing, closed, state, read_buf, lwriting, got >>,
           tail' \in Bytes, wire' \in Bytes, Stream' = reading'.buf \o X
    PROVE  IInv'
<1>1. Following((reading.buf \o d) \o X)
  <2>1. PICK p \in Bytes : Stream = << >> \o p /\ Following(p)
    BY DEF IInv, PipeInv, ResponseAhead
  <2>2. p = Stream
    BY <2>1, Empty
  <2> QED BY <2>1, <2>2
<1>2. /\ SentInv' /\ ReadInv' /\ Following(reading.buf \o X)'
      /\ \/ UNCHANGED << out, requests >>
         \/ \E m \in Bytes : out' = Append(out, m) /\ requests' = Append(requests, m)
  BY <1>1, Reads
<1>3. LocalInv'
  BY <1>2, LocalRead
<1>4. PipeInv'
  <2>1. PICK u \in Bytes : u = reading'.buf \o X
    BY <1>2, Joined DEF ReadInv
  <2>2. Stream' = ResponseAhead' \o u
    <3>1. ResponseAhead' = << >>
      BY DEF ResponseAhead
    <3> QED BY <2>1, <3>1, Empty
  <2>3. Following(u)'
    BY <1>2, <2>1 DEF Following
  <2>4. \E v \in Bytes : Stream' = ResponseAhead' \o v /\ Following(v)'
    BY <2>2, <2>3
  <2> QED BY <2>4 DEF IInv, PipeInv
<1> QED BY <1>2, <1>3, <1>4 DEF IInv

\* The reader takes bytes of the tail (LwsFramed::read_from_tail).
LEMMA ReadTailStep ==
    ASSUME IInv, ReadTail
    PROVE  IInv'
<1> DEFINE W == wire \o Rest(writing)
           n == Min({Len(tail), remaining_mut(reading)})
           d == Upto(tail, n)
           X == From(tail, n) \o W
<1>1. /\ UNCHANGED << taken, channel, sent, writing, wire, closed, state, read_buf, lwriting, got >>
      /\ state = "Done" /\ finished = "no" /\ tail # << >>
      /\ tail' = From(tail, n) /\ Received(advance_mut(reading, d))
  BY DEF ReadTail, senderVars, handshakeVars, read_from_tail, Upto, From
<1>2. tail \in Bytes /\ W \in Bytes /\ reading.buf \in Bytes /\ Len(tail) \in Nat /\ Len(tail) >= 1
      /\ wire \in Bytes
  BY <1>1, StreamBytes, EmptySeq DEF IInv, Bytes
<1>3. remaining_mut(reading) \in Int /\ remaining_mut(reading) >= 1
  <2>1. Len(reading.buf) \in Nat /\ HEAD_SIZE = 2
    BY <1>2, Consts, LenProperties DEF Bytes
  <2>2. CASE Len(reading.buf) < 2
    BY <2>1, <2>2 DEF remaining_mut
  <2>3. CASE Len(reading.buf) >= 2
    <3>1. Len(reading.buf) < reading.cached_length /\ reading.cached_length \in Int
      BY <1>1, <2>1, <2>3 DEF IInv, ReadInv
    <3> QED BY <2>1, <2>3, <3>1 DEF remaining_mut
  <2> QED BY <2>1, <2>2, <2>3
<1>4. n \in 1 .. Len(tail) /\ n \in 1 .. remaining_mut(reading) /\ n \in 0 .. Len(tail)
  <2>1. ASSUME NEW x \in Int, NEW y \in Int, x >= 1, y >= 1
        PROVE  Min({x, y}) \in 1 .. x /\ Min({x, y}) \in 1 .. y
    <3>1. \E z \in {x, y} : \A u \in {x, y} : z <= u
      <4>1. x <= y \/ y <= x
        OBVIOUS
      <4> QED BY <4>1
    <3>2. Min({x, y}) \in {x, y} /\ \A u \in {x, y} : Min({x, y}) <= u
      BY <3>1 DEF Min
    <3> QED BY <2>1, <3>2
  <2> DEFINE x == Len(tail)
             y == remaining_mut(reading)
  <2>2. x \in Int /\ y \in Int /\ x >= 1 /\ y >= 1
    BY <1>2, <1>3
  <2>3. n = Min({x, y})
    OBVIOUS
  <2> HIDE DEF x, y, n
  <2>4. n \in 1 .. x /\ n \in 1 .. y
    BY <2>1, <2>2, <2>3
  <2>5. n \in 0 .. x
    BY <2>2, <2>4
  <2> QED BY <2>4, <2>5 DEF x, y
<1> HIDE DEF n
<1>5. d \in Bytes /\ Len(d) = n /\ From(tail, n) \in Bytes /\ d \o From(tail, n) = tail
  BY <1>2, <1>4, Halves
<1>6. X \in Bytes /\ Len(d) \in 1 .. remaining_mut(reading)
  BY <1>2, <1>4, <1>5, Joined
<1>7. Stream = (reading.buf \o d) \o X
  <2> HIDE DEF W, d
  <2>1. Stream = (reading.buf \o tail) \o W
    BY <1>1 DEF Stream, Ahead, W
  <2> DEFINE f == From(tail, n)
             e == reading.buf \o d
  <2>2. e \o f = reading.buf \o tail
    <3>1. d \in Bytes /\ f \in Bytes /\ d \o f = tail
      BY <1>5
    <3> HIDE DEF f
    <3>2. (reading.buf \o d) \o f = reading.buf \o (d \o f)
      BY <1>2, <3>1, Assoc
    <3> QED BY <3>1, <3>2
  <2>3. (e \o f) \o W = e \o (f \o W)
    <3>1. e \in Bytes
      BY <1>2, <1>5, Joined
    <3>2. f \in Bytes
      BY <1>5
    <3>3. W \in Bytes
      BY <1>2
    <3> HIDE DEF f, e
    <3> QED BY <3>1, <3>2, <3>3, Assoc
  <2> QED BY <2>1, <2>2, <2>3
<1>8. Stream' = reading'.buf \o X
  <2>1. reading'.buf \in Bytes
    <3>1. reading' = advance_mut(reading, d) \/ reading' = NewRMessage
      BY <1>1 DEF Received
    <3>2. advance_mut(reading, d).buf = reading.buf \o d
      BY DEF advance_mut
    <3>3. NewRMessage.buf = << >>
      BY DEF NewRMessage
    <3>4. reading.buf \o d \in Bytes /\ << >> \in Bytes
      <4> HIDE DEF d
      <4> QED BY <1>2, <1>5, Joined, Empty
    <3> QED BY <3>1, <3>2, <3>3, <3>4
  <2>2. Stream' = (reading'.buf \o From(tail, n)) \o W
    BY <1>1 DEF Stream, Ahead
  <2>3. (reading'.buf \o From(tail, n)) \o W = reading'.buf \o (From(tail, n) \o W)
    <3> HIDE DEF W
    <3> QED BY <1>2, <1>5, <2>1, Assoc
  <2> QED BY <2>2, <2>3
<1>9. tail' \in Bytes /\ wire' \in Bytes
  BY <1>1, <1>2, <1>5
<1> HIDE DEF d, X
<1> QED BY <1>1, <1>5, <1>6, <1>7, <1>8, <1>9, ReadStep

\* The reader takes bytes of the connection (LwsFramed::poll_next).
LEMMA ReadIoStep ==
    ASSUME IInv, NEW n \in 1 .. DEFAULT_CAP, ReadIo(n)
    PROVE  IInv'
<1> DEFINE R == Rest(writing)
           d == Upto(wire, n)
           X == From(wire, n) \o R
<1>1. /\ UNCHANGED << taken, channel, sent, writing, closed, state, read_buf, tail, lwriting, got >>
      /\ state = "Done" /\ finished = "no" /\ tail = << >>
      /\ n <= Len(wire) /\ n <= remaining_mut(reading)
      /\ wire' = From(wire, n) /\ Received(advance_mut(reading, d))
  BY DEF ReadIo, senderVars, handshakeVars, Upto, From
<1>2. wire \in Bytes /\ R \in Bytes /\ reading.buf \in Bytes /\ Len(wire) \in Nat /\ tail \in Bytes
  BY StreamBytes, LenProperties DEF IInv, Bytes
<1>3. remaining_mut(reading) \in Int
  <2>1. Len(reading.buf) \in Nat /\ reading.cached_length \in Int
    BY <1>2, LenProperties DEF IInv, ReadInv, Bytes
  <2> QED BY <2>1, Consts DEF remaining_mut
<1>4. n \in 0 .. Len(wire) /\ n \in 1 .. remaining_mut(reading)
  BY <1>1, <1>2, <1>3, Consts
<1>5. d \in Bytes /\ Len(d) = n /\ From(wire, n) \in Bytes /\ d \o From(wire, n) = wire
  BY <1>2, <1>4, Halves
<1>6. X \in Bytes /\ Len(d) \in 1 .. remaining_mut(reading)
  BY <1>2, <1>4, <1>5, Joined
<1>7. Stream = (reading.buf \o d) \o X
  <2> HIDE DEF R, d
  <2>1. Stream = (reading.buf \o << >>) \o (wire \o R)
    BY <1>1 DEF Stream, Ahead, R
  <2>2. reading.buf \o << >> = reading.buf
    BY <1>2, Empty
  <2> DEFINE f == From(wire, n)
  <2>3. (d \o f) \o R = d \o (f \o R)
    <3> HIDE DEF f
    <3>1. d \in Bytes /\ f \in Bytes /\ R \in Bytes
      BY <1>2, <1>5 DEF f
    <3> QED BY <3>1, Assoc
  <2>4. reading.buf \o (d \o X) = (reading.buf \o d) \o X
    <3> HIDE DEF X
    <3> QED BY <1>2, <1>5, <1>6, Assoc
  <2> QED BY <1>5, <2>1, <2>2, <2>3, <2>4
<1>8. Stream' = reading'.buf \o X
  <2>1. reading'.buf \in Bytes
    <3>1. reading' = advance_mut(reading, d) \/ reading' = NewRMessage
      BY <1>1 DEF Received
    <3>2. advance_mut(reading, d).buf = reading.buf \o d
      BY DEF advance_mut
    <3>3. NewRMessage.buf = << >>
      BY DEF NewRMessage
    <3>4. reading.buf \o d \in Bytes /\ << >> \in Bytes
      <4> HIDE DEF d
      <4> QED BY <1>2, <1>5, Joined, Empty
    <3> QED BY <3>1, <3>2, <3>3, <3>4
  <2>2. Stream' = (reading'.buf \o << >>) \o (From(wire, n) \o R)
    BY <1>1 DEF Stream, Ahead
  <2>3. reading'.buf \o << >> = reading'.buf
    BY <2>1, Empty
  <2> QED BY <2>2, <2>3
<1>9. tail' \in Bytes /\ wire' \in Bytes
  BY <1>1, <1>2, <1>5
<1> HIDE DEF d, X
<1> QED BY <1>1, <1>5, <1>6, <1>7, <1>8, <1>9, ReadStep

\* The steps that leave the bytes under way alone.
LEMMA QuietStep ==
    ASSUME IInv, UNCHANGED << senderVars, wire, wmsg, read_buf, tail, reading, out, localVars >>,
           \/ state' = state
           \/ state # "Done" /\ state' = "Failed",
           closed => closed', state' = "Failed" => closed',
           finished' = finished \/ (finished' = "closed" /\ state' = "Done")
    PROVE  IInv'
<1>1. UNCHANGED << taken, channel, sent, writing, requests, lwriting, got >>
  BY DEF senderVars, localVars
<1>2. SentInv' /\ ReadInv' /\ LocalInv'
  <2>1. SentInv' /\ LocalInv'
    BY <1>1, LocalRead DEF IInv, SentInv
  <2>2. ReadInv'
    <3>1. finished' = "no" => finished = "no"
      OBVIOUS
    <3>2. finished' = "error" => finished = "error"
      OBVIOUS
    <3> QED BY <1>1, <3>1, <3>2 DEF IInv, ReadInv
  <2> QED BY <2>1, <2>2
<1>3. CASE state' = state
  <2>1. Stream' = Stream /\ ResponseAhead' = ResponseAhead
    BY <1>1, <1>3 DEF Stream, Ahead, ResponseAhead
  <2>2. ASSUME NEW p PROVE Following(p)' <=> Following(p)
    BY <1>1 DEF Following
  <2>3. state' # "Failed" => \E p \in Bytes : Stream' = ResponseAhead' \o p /\ Following(p)'
    BY <1>3, <2>1, <2>2 DEF IInv, PipeInv
  <2>4. PipeInv'
    BY <1>1, <1>3, <2>1, <2>3 DEF IInv, PipeInv
  <2> QED BY <1>2, <2>4 DEF IInv
<1>4. CASE state # "Done" /\ state' = "Failed"
  <2>1. PipeInv'
    BY <1>1, <1>4 DEF IInv, PipeInv
  <2> QED BY <1>2, <2>1 DEF IInv
<1> QED BY <1>3, <1>4

\* The socket of the request takes a message: its body is what comes next.
LEMMA LocalStartSendStep ==
    ASSUME IInv, LocalStartSend
    PROVE  IInv'
<1> DEFINE o == Len(out)
           r == Len(requests)
           s == Len(sent)
           m == Head(requests)
           a == o - r
           l == Len(Written)
           p == SubSeq(Data, l + 1, taken)
<1>1. /\ UNCHANGED << senderVars, wire, closed, handshakeVars, readerVars, got >>
      /\ UNCHANGED << taken, channel, sent, writing, state, wmsg, read_buf, tail, reading, finished, out >>
      /\ lwriting = Nothing /\ requests # << >>
      /\ lwriting' = [buf |-> m, cursor |-> TMESSAGE_KEEP]
      /\ requests' = Tail(requests)
  BY Consts DEF LocalStartSend, senderVars, handshakeVars, readerVars
<1>2. /\ o \in Nat /\ r \in Nat /\ r >= 1 /\ r <= o /\ s \in Nat /\ o <= s
      /\ requests \in Seq(Bytes)
  <2>1. Len(channel) \in Nat /\ s \in Nat /\ o \in Nat /\ r \in Nat /\ o <= s - Len(channel) /\ r <= o
    BY LenProperties DEF IInv, SentInv, LocalInv
  <2>2. requests \in Seq(Bytes) /\ r # 0
    BY <1>1, EmptySeq DEF IInv, LocalInv
  <2> QED BY <2>1, <2>2
<1>3. /\ m = requests[1] /\ m \in Bytes /\ requests' \in Seq(Bytes) /\ Len(requests') = r - 1
      /\ \A i \in 1 .. r - 1 : requests'[i] = requests[i + 1]
  BY <1>1, <1>2, HeadTailProperties
<1> HIDE DEF o, r, s, m
<1>4. /\ a \in Nat /\ a + 1 \in 1 .. o /\ a + 1 \in 1 .. s
      /\ m = sent[a + 1] /\ Frame(m) /\ Len(m) <= DEFAULT_CAP
  <2>1. a \in Nat /\ a + 1 \in 1 .. o /\ a + 1 \in 1 .. s
    BY <1>2
  <2>2. requests[1] = out[a + 1]
    BY <1>2 DEF IInv, LocalInv, o, r
  <2>3. out[a + 1] = sent[a + 1] /\ Len(out[a + 1]) <= DEFAULT_CAP
    BY <2>1 DEF IInv, SentInv, o
  <2>4. Frame(sent[a + 1])
    BY <2>1 DEF IInv, SentInv, s
  <2> QED BY <1>3, <2>1, <2>2, <2>3, <2>4
<1>5. /\ Len(m) \in Nat /\ TMESSAGE_KEEP < Len(m) /\ Len(m) < U16 /\ TMESSAGE_KEEP \in 0 .. Len(m)
      /\ Body(m) = From(m, TMESSAGE_KEEP) /\ Body(m) \in Bytes
  BY <1>4, Consts, BodyOf DEF Frame, Body
<1>6. /\ Writing(lwriting') /\ Rest(lwriting') = Body(m) /\ Rest(lwriting) = << >>
  <2>1. lwriting' \in [buf : Bytes, cursor : Nat] /\ lwriting'.buf = m /\ lwriting'.cursor = TMESSAGE_KEEP
    BY <1>1, <1>3, Consts
  <2>2. Writing(lwriting')
    BY <1>5, <2>1 DEF Writing
  <2>3. Rest(lwriting') = From(m, TMESSAGE_KEEP)
    BY <2>1 DEF Rest, From
  <2> QED BY <1>1, <1>5, <2>2, <2>3, RestOf DEF IInv, LocalInv
<1>7. got \in Bytes /\ Written = got /\ Written' = got \o Body(m) /\ l \in Nat
  <2>1. got \in Bytes
    BY DEF IInv, LocalInv
  <2>2. Written = got
    BY <1>6, <2>1, Empty DEF Written
  <2>3. Written' = got \o Body(m)
    BY <1>1, <1>6 DEF Written
  <2> QED BY <2>1, <2>2, <2>3, LenProperties DEF Bytes
<1>8. /\ taken \in 0 .. DataLen /\ l <= taken /\ Written = Upto(Data, l)
      /\ Framed(p, Bodies, a, s)
  BY DEF IInv, LocalInv, o, r, s
<1> DEFINE n == Len(Body(m))
<1>9. p \in Bytes /\ Len(p) = taken - l
  <2>1. l \in 0 .. Len(Data) /\ taken \in l .. Len(Data)
    BY <1>7, <1>8, DataBytes
  <2> HIDE DEF l
  <2> QED BY <2>1, DataBytes, Cut
<1>10. Bodies[a + 1] = Body(m)
  <2>1. a + 1 \in DOMAIN sent
    BY <1>4, LenProperties DEF IInv, SentInv, s
  <2> QED BY <1>4, <2>1 DEF Bodies
<1>11. a < s
  BY <1>2, <1>4
<1> HIDE DEF a, l, p
<1>12. n \in 0 .. taken - l /\ Upto(p, n) = Body(m) /\ Framed(From(p, n), Bodies, a + 1, s)
  <2>1. Bodies[a + 1] \in Bytes
    BY <1>5, <1>10
  <2>2. /\ Len(Bodies[a + 1]) \in 0 .. Len(p)
        /\ Upto(p, Len(Bodies[a + 1])) = Bodies[a + 1]
        /\ Framed(From(p, Len(Bodies[a + 1])), Bodies, a + 1, s)
    <3>1. p \in Bytes /\ a \in Nat /\ s \in Nat /\ a < s /\ Framed(p, Bodies, a, s)
      BY <1>2, <1>4, <1>8, <1>9, <1>11
    <3> QED BY <2>1, <3>1, FramedFirst
  <2> QED BY <1>9, <1>10, <2>2
<1> HIDE DEF n
<1>13. n \in Nat /\ l + n \in 0 .. taken
  BY <1>7, <1>8, <1>12
<1>14. /\ Upto(p, n) = SubSeq(Data, l + 1, l + n)
       /\ From(p, n) = SubSeq(Data, l + n + 1, taken)
  <2>1. l \in 0 .. Len(Data) /\ l + n \in l .. Len(Data) /\ taken \in l + n .. Len(Data) /\ taken \in l .. Len(Data)
    BY <1>7, <1>8, <1>13, DataBytes
  <2> QED BY <2>1, <1>12, DataBytes, SubSub DEF p
<1>15. Written' = Upto(Data, l + n) /\ Len(Written') = l + n
  <2>1. 0 \in 0 .. Len(Data) /\ l \in 0 .. Len(Data) /\ l + n \in l .. Len(Data) /\ l + n \in 0 .. Len(Data)
    BY <1>7, <1>8, <1>13, DataBytes
  <2>2. SubSeq(Data, 0 + 1, l) \o SubSeq(Data, l + 1, l + n) = SubSeq(Data, 0 + 1, l + n)
    BY <2>1, DataBytes, Adjacent
  <2>3. Upto(Data, l) \o Body(m) = Upto(Data, l + n)
    BY <1>12, <1>14, <2>2, 0 + 1 = 1 DEF Upto
  <2>4. Len(Upto(Data, l + n)) = l + n
    BY <2>1, DataBytes, Halves
  <2> QED BY <1>7, <1>8, <2>3, <2>4
<1>16. Len(out') - Len(requests') = a + 1
  BY <1>1, <1>2, <1>3 DEF a, o
<1>17. LocalInv'
  <2>1. Framed(SubSeq(Data, Len(Written') + 1, taken'), Bodies', Len(out') - Len(requests'), Len(sent'))
    <3>1. Bodies' = Bodies
      BY <1>1 DEF Bodies
    <3> QED BY <1>1, <1>12, <1>14, <1>15, <1>16, <3>1 DEF s
  <2>2. ASSUME NEW i \in 1 .. r - 1 PROVE requests'[i] = out[a + 1 + i]
    <3>1. i + 1 \in 1 .. r /\ a + (i + 1) = a + 1 + i
      BY <1>2, <1>4 DEF a
    <3>2. requests[i + 1] = out[a + (i + 1)]
      BY <3>1 DEF IInv, LocalInv, a, o, r
    <3> QED BY <1>3, <3>1, <3>2
  <2>3. r - 1 <= o
    BY <1>2
  <2>4. Len(Written') <= taken' /\ Written' = Upto(Data, Len(Written'))
    BY <1>1, <1>8, <1>13, <1>15
  <2>5. Len(requests') <= Len(out') /\ \A i \in 1 .. Len(requests') : requests'[i] = out'[Len(out') - Len(requests') + i]
    BY <1>1, <1>3, <1>16, <2>2, <2>3 DEF o
  <2> QED BY <1>1, <1>3, <1>6, <1>7, <1>8, <2>1, <2>4, <2>5 DEF LocalInv
<1>18. SentInv' /\ ReadInv' /\ PipeInv'
  <2>1. SentInv' /\ ReadInv'
    BY <1>1 DEF IInv, SentInv, ReadInv
  <2>2. Stream' = Stream /\ ResponseAhead' = ResponseAhead
    BY <1>1 DEF Stream, Ahead, ResponseAhead
  <2>3. ASSUME NEW q PROVE Following(q)' <=> Following(q)
    BY <1>1 DEF Following
  <2>4. state' # "Failed" => \E q \in Bytes : Stream' = ResponseAhead' \o q /\ Following(q)'
    BY <1>1, <2>2, <2>3 DEF IInv, PipeInv
  <2> QED BY <1>1, <2>1, <2>2, <2>4 DEF IInv, PipeInv
<1> QED BY <1>17, <1>18 DEF IInv

\* The socket of the request takes some bytes.
LEMMA LocalFlushStep ==
    ASSUME IInv, NEW n \in 1 .. DEFAULT_CAP, LocalFlush(n)
    PROVE  IInv'
<1> DEFINE r == Rest(lwriting)
<1>1. /\ UNCHANGED << taken, channel, sent, writing, wire, closed, state, wmsg, read_buf, tail, reading, finished, out, requests >>
      /\ lwriting # Nothing /\ n <= Len(r)
      /\ got' = got \o Upto(r, n) /\ lwriting' = Advanced(lwriting, n)
  BY DEF LocalFlush, senderVars, handshakeVars, readerVars, Upto
<1>2. Writing(lwriting) /\ r \in Bytes /\ got \in Bytes /\ Len(r) \in Nat /\ n \in Nat
  BY RestOf DEF IInv, LocalInv
<1>3. Writing(lwriting') /\ Rest(lwriting') = From(r, n)
  BY <1>1, <1>2, AdvancedBy
<1>4. /\ got' \in Bytes /\ got' \o Rest(lwriting') = got \o r
  <2>1. n \in 0 .. Len(r)
    BY <1>1, <1>2
  <2>2. Upto(r, n) \in Bytes
    BY <1>2, <2>1, Halves
  <2> QED BY <1>1, <1>2, <1>3, <2>1, <2>2, Joined, Moved
<1>5. Written' = Written /\ Bodies' = Bodies
  BY <1>1, <1>4 DEF Written, Bodies
<1>6. LocalInv'
  BY <1>1, <1>3, <1>4, <1>5 DEF IInv, LocalInv
<1>7. SentInv' /\ ReadInv' /\ PipeInv'
  <2>1. SentInv' /\ ReadInv'
    BY <1>1 DEF IInv, SentInv, ReadInv
  <2>2. Stream' = Stream /\ ResponseAhead' = ResponseAhead
    BY <1>1 DEF Stream, Ahead, ResponseAhead
  <2>3. ASSUME NEW q PROVE Following(q)' <=> Following(q)
    BY <1>1 DEF Following
  <2>4. state' # "Failed" => \E q \in Bytes : Stream' = ResponseAhead' \o q /\ Following(q)'
    BY <1>1, <2>2, <2>3 DEF IInv, PipeInv
  <2> QED BY <1>1, <2>1, <2>2, <2>4 DEF IInv, PipeInv
<1> QED BY <1>6, <1>7 DEF IInv

-----------------------------------------------------------------------------
(***************************************************************************)
(* The theorem.                                                            *)
(***************************************************************************)

\* The invariant holds when the connection is new.
LEMMA InitInvariant == Init => IInv
<1> SUFFICES ASSUME Init PROVE IInv
  OBVIOUS
<1>1. << >> \in Bytes /\ Len(<< >>) = 0 /\ << >> \in Seq(Bytes) /\ << >> \o << >> = << >>
  <2>1. << >> \in Seq(Int) /\ Len(<< >>) = 0 /\ << >> \in Seq(Bytes)
    BY EmptySeq
  <2>2. << >> \o << >> = << >>
    BY <2>1, ConcatEmptySeq
  <2> QED BY <2>1, <2>2 DEF Bytes
<1>2. Writing(Nothing) /\ Rest(Nothing) = << >>
  <2>1. Writing(Nothing)
    BY <1>1 DEF Writing, Nothing
  <2> QED BY <2>1, RestOf
<1>3. SentInv
  BY <1>1 DEF Init, SentInv
<1>4. PipeInv
  <2>1. Stream = << >> /\ ResponseAhead = << >>
    BY <1>1, <1>2 DEF Init, Stream, Ahead, ResponseAhead
  <2>2. Following(<< >>)
    <3>1. Len(sent) - Len(channel) = 0 /\ Len(out) = 0
      BY <1>1 DEF Init
    <3>2. Framed(<< >>, sent, 0, 0)
      BY FramedNone
    <3> QED BY <3>1, <3>2 DEF Following
  <2>3. \E p \in Bytes : Stream = ResponseAhead \o p /\ Following(p)
    BY <1>1, <2>1, <2>2
  <2> QED BY <1>1, <1>2, <2>1, <2>3 DEF Init, PipeInv
<1>5. ReadInv
  BY <1>1, Consts DEF Init, ReadInv, NewRMessage
<1>6. LocalInv
  <2>1. Written = << >> /\ taken = 0 /\ 0 \in 0 .. DataLen /\ Len(Written) = 0
    BY <1>1, <1>2, Consts DEF Init, Written
  <2>2. Upto(Data, 0) = << >> /\ SubSeq(Data, 0 + 1, 0) = << >>
    <3>1. 0 \in 0 .. Len(Data) /\ 0 \in 0 .. 0
      BY DataBytes
    <3>2. Upto(Data, 0) \in Bytes /\ Len(Upto(Data, 0)) = 0
      BY <3>1, DataBytes, Halves
    <3> QED BY <3>2, Empty, 0 + 1 = 1 DEF Upto
  <2>3. Framed(SubSeq(Data, Len(Written) + 1, taken), Bodies, Len(out) - Len(requests), Len(sent))
    <3>1. Len(out) - Len(requests) = 0 /\ Len(sent) = 0
      BY <1>1 DEF Init
    <3>2. Framed(<< >>, Bodies, 0, 0)
      BY FramedNone
    <3> QED BY <2>1, <2>2, <3>1, <3>2
  <2>4. \A i \in 1 .. Len(requests) : FALSE
    BY <1>1 DEF Init
  <2> QED BY <1>1, <1>2, <2>1, <2>2, <2>3, <2>4 DEF Init, LocalInv
<1> QED BY <1>3, <1>4, <1>5, <1>6 DEF IInv

\* Every step keeps the invariant.
LEMMA NextInvariant == IInv /\ [Next]_vars => IInv'
<1> SUFFICES ASSUME IInv, [Next]_vars PROVE IInv'
  OBVIOUS
<1>1. ASSUME NEW n \in 1 .. DEFAULT_CAP, ReadClient(n) PROVE IInv'
  BY <1>1, ReadClientStep
<1>2. ASSUME NEW n \in 1 .. DEFAULT_CAP, Flush(n) PROVE IInv'
  BY <1>2, FlushStep
<1>3. ASSUME NEW n \in 1 .. DEFAULT_CAP, LocalFlush(n) PROVE IInv'
  BY <1>3, LocalFlushStep
<1>4. ASSUME NEW n \in 1 .. DEFAULT_CAP, ReadIo(n) PROVE IInv'
  BY <1>4, ReadIoStep
<1>5. ASSUME NEW n \in 1 .. DEFAULT_CAP + Len(Response), ReadResponse(n) PROVE IInv'
  BY <1>5, ReadResponseStep
<1>6. ASSUME NEW n \in 1 .. RequestLen, WriteHeader(n) PROVE IInv'
  BY <1>6, WriteHeaderStep
<1>7. ASSUME NEW n \in UdpSizes, SendUdp(n) PROVE IInv'
  BY <1>7, SendUdpStep
<1>8. CASE StartSend
  BY <1>8, StartSendStep
<1>9. CASE LocalStartSend
  BY <1>9, LocalStartSendStep
<1>10. CASE HandshakeFails
  BY <1>10, QuietStep DEF HandshakeFails, readerVars
<1>11. CASE ReadTail
  BY <1>11, ReadTailStep
<1>12. CASE ReadEnds
  <2>1. /\ UNCHANGED << senderVars, wire, wmsg, read_buf, tail, reading, out, localVars >>
        /\ UNCHANGED << state, closed >> /\ state = "Done" /\ finished' = "closed"
    BY <1>12 DEF ReadEnds, handshakeVars
  <2>2. state' # "Failed"
    BY <2>1
  <2> QED BY <2>1, <2>2, QuietStep
<1>13. CASE Close
  BY <1>13, QuietStep DEF Close, handshakeVars, readerVars
<1>14. CASE UNCHANGED vars
  <2>1. UNCHANGED << senderVars, wire, closed, handshakeVars, readerVars, localVars >>
    BY <1>14 DEF vars
  <2>2. state' = "Failed" => closed'
    BY <2>1 DEF IInv, PipeInv, handshakeVars
  <2> QED BY <2>1, <2>2, QuietStep DEF handshakeVars, readerVars
<1> QED BY <1>1, <1>2, <1>3, <1>4, <1>5, <1>6, <1>7, <1>8, <1>9, <1>10, <1>11, <1>12, <1>13, <1>14 DEF Next

\* The invariant says what was received and what the socket has.
LEMMA InvariantImplies == IInv => FramesIntact
<1> SUFFICES ASSUME IInv PROVE FramesIntact
  OBVIOUS
<1>1. IsPrefix(out, sent)
  <2>1. /\ out \in Seq(Bytes) /\ sent \in Seq(Bytes) /\ Len(out) \in Nat /\ Len(sent) \in Nat
        /\ Len(out) <= Len(sent)
    <3>1. /\ out \in Seq(Bytes) /\ sent \in Seq(Bytes) /\ Len(out) \in Nat /\ Len(sent) \in Nat
          /\ Len(channel) \in Nat /\ Len(out) <= Len(sent) - Len(channel)
      BY LenProperties DEF IInv, SentInv
    <3> QED BY <3>1
  <2>2. \A i \in 1 .. Len(out) : out[i] = sent[i] /\ out[i] \in Bytes /\ sent[i] \in Bytes
    <3> SUFFICES ASSUME NEW i \in 1 .. Len(out)
                 PROVE  out[i] = sent[i] /\ out[i] \in Bytes /\ sent[i] \in Bytes
      OBVIOUS
    <3>1. out[i] = sent[i]
      BY DEF IInv, SentInv
    <3>2. out[i] \in Bytes
      BY <2>1, ElementOfSeq
    <3> QED BY <3>1, <3>2
  <2> DEFINE u == SubSeq(out, 1, Len(out))
             v == SubSeq(sent, 1, Len(out))
             k == Len(out)
  <2>3. /\ u \in Seq(Bytes) /\ Len(u) = (IF 1 <= k THEN k - 1 + 1 ELSE 0)
        /\ \A i \in 1 .. k - 1 + 1 : u[i] = out[1 + i - 1]
    BY <2>1, <2>2, SubSeqProperties
  <2>4. /\ v \in Seq(Bytes) /\ Len(v) = (IF 1 <= k THEN k - 1 + 1 ELSE 0)
        /\ \A i \in 1 .. k - 1 + 1 : v[i] = sent[1 + i - 1]
    BY <2>1, <2>2, SubSeqProperties
  <2>5. k - 1 + 1 = k /\ \A i \in 1 .. k : 1 + i - 1 = i
    BY <2>1
  <2> HIDE DEF u, v
  <2>6. Len(u) = k /\ Len(v) = k /\ \A i \in 1 .. k : u[i] = v[i]
    BY <2>1, <2>2, <2>3, <2>4, <2>5
  <2>7. u = v
    BY <2>3, <2>4, <2>6, SeqEqual
  <2> QED BY <2>1, <2>7 DEF IsPrefix, u, v
<1>2. IsPrefix(got, Data)
  <2> DEFINE r == Rest(lwriting)
             l == Len(Written)
  <2>1. /\ got \in Bytes /\ r \in Bytes /\ Written = got \o r /\ Written = Upto(Data, l)
        /\ l <= taken /\ taken \in 0 .. DataLen
    BY RestOf DEF IInv, LocalInv, Written
  <2>2. /\ l = Len(got) + Len(r) /\ Len(got) \in Nat /\ Len(r) \in Nat
        /\ \A i \in 1 .. Len(got) : Written[i] = got[i]
    <3> HIDE DEF r
    <3> QED BY <2>1, Joined
  <2>3. l \in 0 .. Len(Data) /\ Len(got) \in 0 .. Len(Data) /\ Len(got) <= l
    BY <2>1, <2>2, DataBytes
  <2> HIDE DEF l, r
  <2>4. \A i \in 1 .. l : Upto(Data, l)[i] = Data[i]
    BY <2>3, DataBytes, Halves
  <2>5. \A i \in 1 .. Len(got) : got[i] = Data[i]
    <3> SUFFICES ASSUME NEW i \in 1 .. Len(got) PROVE got[i] = Data[i]
      OBVIOUS
    <3>1. i \in 1 .. l
      BY <2>2, <2>3
    <3> QED BY <2>1, <2>2, <2>4, <3>1
  <2>6. /\ Upto(Data, Len(got)) \in Bytes /\ Len(Upto(Data, Len(got))) = Len(got)
        /\ \A i \in 1 .. Len(got) : Upto(Data, Len(got))[i] = Data[i]
    BY <2>3, DataBytes, Halves
  <2>7. Upto(Data, Len(got)) = got
    BY <2>1, <2>5, <2>6, SeqEqual DEF Bytes
  <2>8. SubSeq(got, 1, Len(got)) = got
    BY <2>1, SubSeqFull DEF Bytes
  <2>9. Len(got) <= Len(Data)
    BY <2>3
  <2> QED BY <2>7, <2>8, <2>9 DEF IsPrefix, Upto
<1>3. Len(reading.buf) <= DEFAULT_CAP
  <2>1. Len(reading.buf) \in Nat /\ HEAD_SIZE = 2 /\ DEFAULT_CAP \in Nat /\ DEFAULT_CAP > 3
    BY Consts, LenProperties DEF IInv, ReadInv, Bytes
  <2>2. CASE Len(reading.buf) < 2
    BY <2>1, <2>2
  <2>3. CASE Len(reading.buf) >= 2 /\ reading.error
    <3>1. Len(reading.buf) = HEAD_SIZE
      BY <2>1, <2>3 DEF IInv, ReadInv
    <3> QED BY <2>1, <3>1
  <2>4. CASE Len(reading.buf) >= 2 /\ ~reading.error
    BY <2>1, <2>4 DEF IInv, ReadInv
  <2> QED BY <2>1, <2>2, <2>3, <2>4
<1>4. finished = "error" => \E i \in DOMAIN sent : Len(sent[i]) > DEFAULT_CAP
  BY DEF IInv, ReadInv
<1> QED BY <1>1, <1>2, <1>3, <1>4 DEF FramesIntact

\* For every size of the buffers and of the headers, every amount of data and
\* every way to cut the bytes: the messages received are those that were sent,
\* in order and whole, behind the response of the handshake; the socket gets the
\* bytes of the client; and only a message that does not fit ends the stream
\* with an error.
THEOREM FramesStayIntact == Spec => []FramesIntact
<1>1. Init => IInv
  BY InitInvariant
<1>2. IInv /\ [Next]_vars => IInv'
  BY NextInvariant
<1>3. IInv => FramesIntact
  BY InvariantImplies
<1> QED BY <1>1, <1>2, <1>3, PTL DEF Spec
=============================================================================
