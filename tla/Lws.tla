-------------------------------- MODULE Lws --------------------------------
(***************************************************************************)
(* The framing of a tunnel (src/lws) and of the sockets it carries: how    *)
(* the bytes of a client's socket become messages (TcpFramed, TMessage),   *)
(* messages become bytes of the tunnel's connection (LwsFramed as a Sink,  *)
(* WMessage), bytes become messages again (LwsFramed as a Stream,          *)
(* RMessage) and are written to a socket (TcpFramed as a Sink).            *)
(*                                                                         *)
(* A connection gives and takes any number of bytes at a time, so a        *)
(* message may come in any number of pieces, and the first bytes of the    *)
(* first messages are read together with the response of the WebSocket     *)
(* handshake (CHandshake), which passes them on as the tail.               *)
(*                                                                         *)
(* This is one direction of one tunnel.  The server at its other end has   *)
(* the same framing; it is not in this repository, and the writing half    *)
(* below stands for both ends.  A byte is a number; the bytes of a header  *)
(* are below Base, and the bytes of the client's data are told apart.      *)
(***************************************************************************)
EXTENDS Integers, Sequences, SequencesExt, FiniteSetsExt

CONSTANTS
    Base,            \* the values of a byte of a header (256)
    DEFAULT_CAP,     \* the size of a message's buffer (8096)
    THEADER_SIZE,    \* the size of a THeader (4)
    TMESSAGE_KEEP,   \* the bytes that TMessage leaves for the headers (7)
    DataLen,         \* bound: the bytes that the client sends
    UdpSizes,        \* sizes of the messages of udp_proxy_north
    RequestLen       \* bytes of the handshake's request

HEAD_SIZE == 2
U16 == Base * Base

ASSUME LwsAssumption ==
    /\ Base \in Nat \ {0} /\ THEADER_SIZE \in Nat /\ DataLen \in Nat
    /\ DEFAULT_CAP \in Nat /\ DEFAULT_CAP < U16
    /\ TMESSAGE_KEEP = 3 + THEADER_SIZE /\ TMESSAGE_KEEP < DEFAULT_CAP
    /\ UdpSizes \subseteq (DEFAULT_CAP + 1) .. (U16 - 1)

VARIABLES
    taken,      \* bytes of the client's data that were read from its socket
    channel,    \* buffers in the channel tx of the tunnel
    sent,       \* every buffer that was put in it
    writing,    \* LwsFramed.writing at the sender
    wire,       \* bytes in the connection
    closed,     \* the connection was closed by the other end or by a failure
    state,      \* CHandshake.state, and "Failed"
    wmsg,       \* bytes of the request that were written
    read_buf,   \* CHandshake.read_buf
    tail,       \* LwsFramed.tail
    reading,    \* LwsFramed.reading
    finished,   \* LwsFramed.has_finished, and why
    out,        \* buffers of the messages that were received
    requests,   \* those in the channel of the request
    lwriting,   \* TcpFramed.writing
    got         \* bytes that were written to the socket

senderVars == << taken, channel, sent, writing >>
handshakeVars == << state, wmsg, read_buf >>
readerVars == << tail, reading, finished, out >>
localVars == << requests, lwriting, got >>
vars == << senderVars, wire, closed, handshakeVars, readerVars, localVars >>

\* The bytes of a header, little endian, and the client's data.
Header(len) == << len % Base, len \div Base >>
Data == [i \in 1 .. DataLen |-> Base + i]

\* The end of the response, "\r\n\r\n", and a response.
CR == 0 - 1
LF == 0 - 2
Needle == << CR, LF, CR, LF >>
Response == << CR, LF, 0 - 3 >> \o Needle

\* No message is being written.
Nothing == [buf |-> << >>, cursor |-> 0]

\* RMessage::new
NewRMessage == [buf |-> << >>, cached_length |-> 0, error |-> FALSE]

Init ==
    /\ taken = 0 /\ channel = << >> /\ sent = << >> /\ writing = Nothing
    /\ wire = << >> /\ closed = FALSE
    /\ state = "WritingHeader" /\ wmsg = 0 /\ read_buf = << >>
    /\ tail = << >> /\ reading = NewRMessage /\ finished = "no" /\ out = << >>
    /\ requests = << >> /\ lwriting = Nothing /\ got = << >>

-----------------------------------------------------------------------------
(***************************************************************************)
(* From the client's socket to the channel of the tunnel.                  *)
(***************************************************************************)

Queue(buf) ==
    /\ channel' = Append(channel, buf)
    /\ sent' = Append(sent, buf)

\* TMessage: a buffer with data behind the bytes it keeps, in which
\* on_request_msg writes the headers.
TMessage(data) ==
    Header((TMESSAGE_KEEP + Len(data)) % U16)
      \o [i \in 1 .. TMESSAGE_KEEP - HEAD_SIZE |-> 0] \o data

\* TcpFramed::poll_next reads as many bytes as there are and fit in the buffer.
ReadClient(n) ==
    /\ n <= DataLen - taken
    /\ n <= DEFAULT_CAP - TMESSAGE_KEEP
    /\ taken' = taken + n
    /\ Queue(TMessage(SubSeq(Data, taken + 1, taken + n)))
    /\ UNCHANGED << writing, wire, closed, handshakeVars, readerVars, localVars >>

\* udp_proxy_north: a packet of any size becomes one message.
SendUdp(total) ==
    /\ \A i \in 1 .. Len(sent) : Len(sent[i]) <= DEFAULT_CAP
    /\ Queue(Header(total % U16) \o [i \in 1 .. total - HEAD_SIZE |-> 0])
    /\ UNCHANGED << taken, writing, wire, closed, handshakeVars, readerVars, localVars >>

-----------------------------------------------------------------------------
(***************************************************************************)
(* The Sink of LwsFramed and of TcpFramed.                                 *)
(***************************************************************************)

\* WMessage: what is left, and what is there after n bytes were written.
Rest(w) == SubSeq(w.buf, w.cursor + 1, Len(w.buf))

Advanced(w, n) ==
    LET cursor == (w.cursor + n) % U16
    IN  IF cursor = Len(w.buf) % U16 THEN Nothing ELSE [w EXCEPT !.cursor = cursor]

\* poll_ready, start_send: the next message is taken when none is being written.
StartSend ==
    /\ state \in {"Done", "ReadingResponse"} /\ ~closed
    /\ writing = Nothing /\ channel # << >>
    /\ writing' = [buf |-> Head(channel), cursor |-> 0]
    /\ channel' = Tail(channel)
    /\ UNCHANGED << taken, sent, wire, closed, handshakeVars, readerVars, localVars >>

\* poll_flush: the connection takes n bytes.
Flush(n) ==
    /\ writing # Nothing /\ ~closed
    /\ n <= Len(Rest(writing))
    /\ wire' = wire \o SubSeq(Rest(writing), 1, n)
    /\ writing' = Advanced(writing, n)
    /\ UNCHANGED << taken, channel, sent, closed, handshakeVars, readerVars, localVars >>

\* A message that came back is written to the socket of its request, without
\* its headers.
LocalStartSend ==
    /\ lwriting = Nothing /\ requests # << >>
    /\ lwriting' = [buf |-> Head(requests), cursor |-> 3 + THEADER_SIZE]
    /\ requests' = Tail(requests)
    /\ UNCHANGED << senderVars, wire, closed, handshakeVars, readerVars, got >>

LocalFlush(n) ==
    /\ lwriting # Nothing
    /\ n <= Len(Rest(lwriting))
    /\ got' = got \o SubSeq(Rest(lwriting), 1, n)
    /\ lwriting' = Advanced(lwriting, n)
    /\ UNCHANGED << senderVars, wire, closed, handshakeVars, readerVars, requests >>

-----------------------------------------------------------------------------
(***************************************************************************)
(* The handshake.                                                          *)
(***************************************************************************)

\* The request is written in pieces.  When the server has it, it answers.
WriteHeader(n) ==
    /\ state = "WritingHeader" /\ ~closed
    /\ wmsg + n <= RequestLen
    /\ wmsg' = wmsg + n
    /\ IF wmsg' = RequestLen
         THEN state' = "ReadingResponse" /\ wire' = Response
         ELSE UNCHANGED << state, wire >>
    /\ UNCHANGED << senderVars, closed, read_buf, readerVars, localVars >>

\* Mutant: what was read after the response is forgotten.
parse_response_forgets(buf) ==
    [found |-> \E i \in 0 .. Len(buf) - 4 : SubSeq(buf, i + 1, i + 4) = Needle,
     rest  |-> << >>]

\* parse_response: the first end of a response, and what comes after it.
parse_response(buf) ==
    LET ends == {i \in 4 .. Len(buf) : SubSeq(buf, i - 3, i) = Needle}
    IN  [found |-> ends # {},
         rest  |-> IF ends = {} THEN buf ELSE SubSeq(buf, Min(ends) + 1, Len(buf))]

\* The response is read; what follows it becomes the tail of the LwsFramed.
ReadResponse(n) ==
    /\ state = "ReadingResponse"
    /\ n <= Len(wire)
    /\ wire' = SubSeq(wire, n + 1, Len(wire))
    /\ LET p == parse_response(read_buf \o SubSeq(wire, 1, n))
       IN  IF p.found
             THEN state' = "Done" /\ tail' = p.rest /\ read_buf' = << >>
             ELSE read_buf' = p.rest /\ UNCHANGED << state, tail >>
    /\ UNCHANGED << senderVars, closed, wmsg, reading, finished, out, localVars >>

\* The connection ends or fails during the handshake.
HandshakeFails ==
    /\ state \in {"WritingHeader", "ReadingResponse"}
    /\ closed
    /\ state' = "Failed"
    /\ UNCHANGED << senderVars, wire, closed, wmsg, read_buf, readerVars, localVars >>

-----------------------------------------------------------------------------
(***************************************************************************)
(* The Stream of LwsFramed.                                                *)
(***************************************************************************)

\* RMessage: the bytes it can take, and what it is when it has taken some.
\* Every length that is written above is at least HEAD_SIZE.
remaining_mut(m) ==
    IF Len(m.buf) < HEAD_SIZE THEN HEAD_SIZE - Len(m.buf) ELSE m.cached_length - Len(m.buf)

advance_mut(m, bytes) ==
    LET buf == m.buf \o bytes
        cached_length == IF m.cached_length = 0 /\ Len(buf) >= HEAD_SIZE
                           THEN buf[1] + Base * buf[2] ELSE m.cached_length
    IN  [buf |-> buf, cached_length |-> cached_length,
         error |-> Len(buf) >= HEAD_SIZE /\ cached_length \notin 1 .. DEFAULT_CAP]

is_completed(m) == m.error \/ (m.cached_length > 0 /\ m.cached_length = Len(m.buf) % U16)

\* The rest of poll_next: a completed message is returned, and on_tunnel_msg
\* puts it in the channel of its request; an error ends the stream.
Received(m) ==
    IF m.error
      THEN finished' = "error" /\ reading' = m /\ UNCHANGED << out, requests >>
      ELSE IF is_completed(m)
      THEN /\ reading' = NewRMessage
           /\ out' = Append(out, m.buf)
           /\ requests' = Append(requests, m.buf)
           /\ UNCHANGED finished
      ELSE reading' = m /\ UNCHANGED << finished, out, requests >>

\* Mutant: what is left of the tail is dropped with the buffer it was in.
read_from_tail_once(len) == << >>

\* read_from_tail: what is left of the tail.
read_from_tail(len) == SubSeq(tail, len + 1, Len(tail))

\* The tail comes first ...
ReadTail ==
    /\ state = "Done" /\ finished = "no"
    /\ tail # << >>
    /\ LET len == Min({Len(tail), remaining_mut(reading)})
       IN  /\ tail' = read_from_tail(len)
           /\ Received(advance_mut(reading, SubSeq(tail, 1, len)))
    /\ UNCHANGED << senderVars, wire, closed, handshakeVars, lwriting, got >>

\* ... and then the connection, which gives n bytes.
ReadIo(n) ==
    /\ state = "Done" /\ finished = "no"
    /\ tail = << >>
    /\ n <= Len(wire) /\ n <= remaining_mut(reading)
    /\ wire' = SubSeq(wire, n + 1, Len(wire))
    /\ Received(advance_mut(reading, SubSeq(wire, 1, n)))
    /\ UNCHANGED << senderVars, closed, handshakeVars, tail, lwriting, got >>

\* It has ended or failed: what is in the buffer of the reader is dropped.
ReadEnds ==
    /\ state = "Done" /\ finished = "no"
    /\ tail = << >> /\ closed
    /\ finished' = "closed"
    /\ UNCHANGED << senderVars, wire, closed, handshakeVars, tail, reading, out, localVars >>

\* External: the connection is closed by its other end, or fails.
Close ==
    /\ ~closed
    /\ closed' = TRUE
    /\ UNCHANGED << senderVars, wire, handshakeVars, readerVars, localVars >>

-----------------------------------------------------------------------------
Next ==
    \/ \E n \in 1 .. DEFAULT_CAP : ReadClient(n) \/ Flush(n) \/ LocalFlush(n) \/ ReadIo(n)
    \/ \E n \in 1 .. DEFAULT_CAP + Len(Response) : ReadResponse(n)
    \/ \E n \in 1 .. RequestLen : WriteHeader(n)
    \/ \E total \in UdpSizes : SendUdp(total)
    \/ StartSend \/ LocalStartSend
    \/ HandshakeFails \/ ReadTail \/ ReadEnds \/ Close

Spec == Init /\ [][Next]_vars

(***************************************************************************)
(* Fairness: sockets that are ready are polled.  Nothing obliges the       *)
(* connection to fail, or a UDP packet to come.                            *)
(***************************************************************************)
Fairness ==
    /\ WF_vars(\E n \in 1 .. DEFAULT_CAP : ReadClient(n))
    /\ WF_vars(StartSend) /\ WF_vars(\E n \in 1 .. DEFAULT_CAP : Flush(n))
    /\ WF_vars(LocalStartSend) /\ WF_vars(\E n \in 1 .. DEFAULT_CAP : LocalFlush(n))
    /\ WF_vars(\E n \in 1 .. RequestLen : WriteHeader(n))
    /\ WF_vars(\E n \in 1 .. DEFAULT_CAP + Len(Response) : ReadResponse(n))
    /\ WF_vars(HandshakeFails)
    /\ WF_vars(ReadTail) /\ WF_vars(\E n \in 1 .. DEFAULT_CAP : ReadIo(n)) /\ WF_vars(ReadEnds)

FairSpec == Spec /\ Fairness

-----------------------------------------------------------------------------
(***************************************************************************)
(* Properties.                                                             *)
(***************************************************************************)

\* However the connection cuts the bytes, and wherever the handshake's response
\* ends in them, the messages received are those that were sent, in order and
\* whole, and the socket gets the client's bytes as they were; the reader fills
\* no buffer beyond its size; and it reports an invalid length only when a
\* message that does not fit was sent.
FramesIntact ==
    /\ IsPrefix(out, sent)
    /\ IsPrefix(got, Data)
    /\ Len(reading.buf) <= DEFAULT_CAP
    /\ finished = "error" => \E i \in DOMAIN sent : Len(sent[i]) > DEFAULT_CAP

\* Unless the connection fails, or a message that does not fit ends the stream,
\* every byte that the client sends is written to the socket in the end: no
\* piece of a message waits for bytes that are already there.
AllArrives == <>[](state = "Failed" \/ finished # "no" \/ got = Data)
=============================================================================
