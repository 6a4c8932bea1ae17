------------------------------- MODULE Socket -------------------------------
(***************************************************************************)
(* The Socket of socket.cpp: one connection of a client, served by one     *)
(* process.  receive() and send() are loops around poll(), each with a     *)
(* time limit that progress renews and one for the whole call, which ends  *)
(* it alike.  A message of the client (the HTTP headers, the body, one     *)
(* WebSocket frame) travels as two units, so that any read may cut it.     *)
(***************************************************************************)
EXTENDS Naturals, Sequences, SequencesExt

CONSTANTS
  MaxMessages,  \* bound: what a client sends
  FrameOps,     \* the kinds of frames that it sends
  TxSize        \* room in the send buffer of the kernel

ASSUME SocketAssumption ==
  /\ MaxMessages \in Nat
  /\ TxSize \in Nat \ {0}
  /\ FrameOps \subseteq {"text", "cont", "ping", "pong", "close", "bad"}

VARIABLES
  sent,       \* all messages of the client, the HTTP headers first
  peer,       \* "open", "closed" (it sends no more) or "reset" (it has gone)
  rx, tx,     \* the buffers of the kernel
  got,        \* history: what the client has received
  given,      \* history: what send() was asked to send
  closed, header, websocketProtocol, readBuffer, writeBuffer,  \* class Socket
  call,       \* the method under way
  want,       \* receive(): sizeToReceive
  offset,     \* send(): what is already written of writeBuffer
  ret,        \* what receive() returned, until the caller has used it
  late        \* the current time is past timeLimit or fullTimeLimit

network == <<sent, peer, got>>
socket == <<sent, peer, rx, tx, got, given, closed, header, websocketProtocol,
            readBuffer, writeBuffer, call, want, offset, ret, late>>

(* JAIL_HEADERS_SIZE_LIMIT, in units: the headers of a request fit.        *)
HeadersSize == 2

Ops == {"http", "upgrade", "body", "text", "cont", "ping", "pong", "close", "bad"}
Message == [op : Ops, fin : BOOLEAN]
Unit == [n : 1 .. MaxMessages, part : 1 .. 2]
Units(n) == <<[n |-> n, part |-> 1], [n |-> n, part |-> 2]>>

Calls == {"none", "receive", "send", "threw"}

SocketTypeOK ==
  /\ sent \in Seq(Message) /\ Len(sent) <= MaxMessages
  /\ peer \in {"open", "closed", "reset"}
  /\ rx \in Seq(Unit) /\ readBuffer \in Seq(Unit) /\ ret \in Seq(Unit)
  /\ Len(tx) <= TxSize
  /\ closed \in BOOLEAN /\ header \in BOOLEAN /\ websocketProtocol \in BOOLEAN
  /\ call \in Calls
  /\ want \in 0 .. 2
  /\ offset \in 0 .. Len(writeBuffer)
  /\ call # "send" => offset = 0
  /\ late \in BOOLEAN

SocketInit ==
  /\ sent = <<>> /\ peer = "open"
  /\ rx = <<>> /\ tx = <<>> /\ got = <<>> /\ given = <<>>
  /\ closed = FALSE /\ header = FALSE /\ websocketProtocol = FALSE
  /\ readBuffer = <<>> /\ writeBuffer = <<>>
  /\ call = "none" /\ want = 0 /\ offset = 0 /\ ret = <<>>
  /\ late = FALSE

-----------------------------------------------------------------------------
(* receive()                                                               *)

Return(units) == call' = "none" /\ ret' = units /\ want' = 0 /\ late' = FALSE
Throw == call' = "threw" /\ ret' = <<>> /\ want' = 0 /\ late' = FALSE

(* Until the headers are there, whatever the caller asks for.              *)
ReceiveStarts(n) ==
  /\ call = "none"
  /\ IF closed
     THEN Return(readBuffer) /\ readBuffer' = <<>>
     ELSE IF header /\ n > 0 /\ Len(readBuffer) >= n
     THEN /\ Return(SubSeq(readBuffer, 1, n))
          /\ readBuffer' = SubSeq(readBuffer, n + 1, Len(readBuffer))
     ELSE /\ call' = "receive"
          /\ want' = IF header THEN n ELSE HeadersSize
          /\ late' = FALSE
          /\ UNCHANGED <<ret, readBuffer>>
  /\ UNCHANGED <<network, rx, tx, given, closed, header, websocketProtocol,
                 writeBuffer, offset>>

(* The turn in which the loop ends with all that was read.                 *)
ReceiveBreaks ==
  /\ Return(readBuffer)
  /\ readBuffer' = <<>>

(* Variant: the time is looked at only when poll() reports an event.       *)
ReceiveTimesOutOnEvent ==
  /\ call = "receive"
  /\ late
  /\ rx # <<>> \/ peer # "open"
  /\ IF want = 0 THEN Return(<<>>) /\ UNCHANGED <<closed, readBuffer>>
     ELSE IF websocketProtocol THEN closed' = TRUE /\ ReceiveBreaks
     ELSE Throw /\ UNCHANGED <<closed, readBuffer>>
  /\ UNCHANGED <<network, rx, tx, given, header, websocketProtocol, writeBuffer,
                 offset>>

ReceiveTimesOut ==
  /\ call = "receive"
  /\ late
  /\ IF want = 0 THEN Return(<<>>) /\ UNCHANGED <<closed, readBuffer>>
     ELSE IF websocketProtocol THEN closed' = TRUE /\ ReceiveBreaks
     ELSE Throw /\ UNCHANGED <<closed, readBuffer>>
  /\ UNCHANGED <<network, rx, tx, given, header, websocketProtocol, writeBuffer,
                 offset>>

(* netRead() gives the first k units that arrived.  processHeaders() takes *)
(* the headers or throws; what follows them stays in readBuffer.  hup is   *)
(* POLLHUP, looked at only if what was read does not end the loop.         *)
ReceiveReads(k, hup) ==
  /\ call = "receive"
  /\ ~late
  /\ k <= Len(rx)
  /\ hup => peer = "reset"
  /\ rx' = SubSeq(rx, k + 1, Len(rx))
  /\ LET all == readBuffer \o SubSeq(rx, 1, k) IN
       \/ /\ ~header
          /\ Len(all) >= HeadersSize
          /\ header' = TRUE
          /\ IF sent[1].op = "bad" THEN readBuffer' = all /\ Throw
             ELSE /\ readBuffer' = SubSeq(all, HeadersSize + 1, Len(all))
                  /\ Return(<<>>)
          /\ UNCHANGED closed
       \/ /\ header
          /\ want = 0 \/ Len(all) >= want
          /\ Return(all) /\ readBuffer' = <<>>
          /\ UNCHANGED <<header, closed>>
       \/ /\ IF header THEN want > 0 /\ Len(all) < want ELSE Len(all) < HeadersSize
          /\ closed' = hup
          /\ IF hup THEN Return(all) /\ readBuffer' = <<>>
             ELSE readBuffer' = all /\ UNCHANGED <<call, ret, want, late>>
          /\ UNCHANGED header
  /\ UNCHANGED <<network, tx, given, websocketProtocol, writeBuffer, offset>>

(* Variant: on a WebSocket the lost peer is not recorded in closed.        *)
ReceiveMeetsEndOpen ==
  /\ call = "receive"
  /\ ~late
  /\ rx = <<>>
  /\ peer # "open"
  /\ IF peer = "closed" \/ websocketProtocol
     THEN closed' = (peer = "closed") /\ ReceiveBreaks
     ELSE Throw /\ UNCHANGED <<closed, readBuffer>>
  /\ UNCHANGED <<network, rx, tx, given, header, websocketProtocol, writeBuffer,
                 offset>>

(* netRead() returns 0 or fails.                                           *)
ReceiveMeetsEnd ==
  /\ call = "receive"
  /\ ~late
  /\ rx = <<>>
  /\ peer # "open"
  /\ IF peer = "closed" \/ websocketProtocol
     THEN closed' = TRUE /\ ReceiveBreaks
     ELSE Throw /\ UNCHANGED <<closed, readBuffer>>
  /\ UNCHANGED <<network, rx, tx, given, header, websocketProtocol, writeBuffer,
                 offset>>

(* Nothing to read: only a call for "what there is" ends.                  *)
ReceiveFindsNothing ==
  /\ call = "receive"
  /\ ~late
  /\ rx = <<>>
  /\ peer = "open"
  /\ want = 0
  /\ ReceiveBreaks
  /\ UNCHANGED <<network, rx, tx, given, closed, header, websocketProtocol,
                 writeBuffer, offset>>

ReceiveGets == \E k \in 1 .. Len(rx), hup \in BOOLEAN : ReceiveReads(k, hup)

Receive == ReceiveTimesOut \/ ReceiveMeetsEnd \/ ReceiveFindsNothing \/ ReceiveGets


-----------------------------------------------------------------------------
(* send()                                                                  *)

(* On a closed socket the data is dropped.                                 *)
SendStarts(data) ==
  /\ call = "none"
  /\ ret' = <<>>
  /\ IF closed
     THEN UNCHANGED <<given, writeBuffer, call, late>>
     ELSE /\ given' = given \o data
          /\ writeBuffer' = writeBuffer \o data
          /\ call' = "send"
          /\ late' = FALSE
  /\ UNCHANGED <<network, rx, tx, closed, header, websocketProtocol, readBuffer,
                 want, offset>>

(* The loop ends: what was written is erased.                              *)
SendBreaks ==
  /\ call' = "none"
  /\ writeBuffer' = SubSeq(writeBuffer, offset + 1, Len(writeBuffer))
  /\ offset' = 0
  /\ late' = FALSE

(* An exception leaves writeBuffer as it is.                               *)
SendThrows == call' = "threw" /\ offset' = 0 /\ late' = FALSE /\ UNCHANGED writeBuffer

(* poll() reports POLLOUT or an error; without an event the loop goes on   *)
(* to the next poll() before anything else.                                *)
Writable == Len(tx) < TxSize \/ peer = "reset"

SendTimesOut ==
  /\ call = "send"
  /\ Writable
  /\ late
  /\ IF websocketProtocol THEN closed' = TRUE /\ SendBreaks
     ELSE SendThrows /\ UNCHANGED closed
  /\ UNCHANGED <<network, rx, tx, given, header, websocketProtocol, readBuffer,
                 want, ret>>

SendFails ==
  /\ call = "send"
  /\ peer = "reset"
  /\ ~late
  /\ IF websocketProtocol THEN closed' = TRUE /\ SendBreaks
     ELSE SendThrows /\ UNCHANGED closed
  /\ UNCHANGED <<network, rx, tx, given, header, websocketProtocol, readBuffer,
                 want, ret>>

(* Variant: written data is not erased from writeBuffer.                   *)
SendWritesKeeps ==
  /\ call = "send"
  /\ Len(tx) < TxSize
  /\ peer # "reset"
  /\ ~late
  /\ tx' = Append(tx, writeBuffer[offset + 1])
  /\ IF offset + 1 = Len(writeBuffer)
     THEN call' = "none" /\ offset' = 0 /\ UNCHANGED writeBuffer
     ELSE offset' = offset + 1 /\ UNCHANGED <<call, writeBuffer>>
  /\ UNCHANGED <<network, rx, given, closed, header, websocketProtocol, readBuffer,
                 want, ret, late>>

SendWrites ==
  /\ call = "send"
  /\ Len(tx) < TxSize
  /\ peer # "reset"
  /\ ~late
  /\ tx' = Append(tx, writeBuffer[offset + 1])
  /\ IF offset + 1 = Len(writeBuffer)
     THEN call' = "none" /\ writeBuffer' = <<>> /\ offset' = 0
     ELSE offset' = offset + 1 /\ UNCHANGED <<call, writeBuffer>>
  /\ UNCHANGED <<network, rx, given, closed, header, websocketProtocol, readBuffer,
                 want, ret, late>>

Send == SendTimesOut \/ SendFails \/ SendWrites

(* close()                                                                 *)
Shutdown ==
  /\ call = "none"
  /\ closed' = TRUE
  /\ ret' = <<>>
  /\ UNCHANGED <<network, rx, tx, given, header, websocketProtocol, readBuffer,
                 writeBuffer, call, want, offset, late>>

(* The caller goes on without the socket.                                  *)
Used ==
  /\ ret' = <<>>
  /\ UNCHANGED <<network, rx, tx, given, closed, header, websocketProtocol, readBuffer,
                 writeBuffer, call, want, offset, late>>

-----------------------------------------------------------------------------
(* The client and the network                                              *)

(* An HTTP request comes first; on a WebSocket, frames follow.             *)
ClientMay(m) ==
  IF sent = <<>> THEN m \in [op : {"http", "upgrade", "bad"}, fin : {TRUE}]
  ELSE IF sent[1].op # "upgrade" THEN m = [op |-> "body", fin |-> TRUE] /\ Len(sent) = 1
  ELSE /\ m.op \in FrameOps
       /\ m.op \notin {"text", "cont"} => m.fin

PeerSends(m) ==
  /\ peer = "open"
  /\ ~closed
  /\ Len(sent) < MaxMessages
  /\ ClientMay(m)
  /\ sent' = Append(sent, m)
  /\ rx' = rx \o Units(Len(sent) + 1)
  /\ UNCHANGED <<peer, tx, got, given, closed, header, websocketProtocol, readBuffer,
                 writeBuffer, call, want, offset, ret, late>>

PeerReads ==
  /\ tx # <<>>
  /\ peer # "reset"
  /\ got' = Append(got, Head(tx))
  /\ tx' = Tail(tx)
  /\ UNCHANGED <<sent, peer, rx, given, closed, header, websocketProtocol, readBuffer,
                 writeBuffer, call, want, offset, ret, late>>

PeerLeaves(how) ==
  /\ peer # "reset"
  /\ how # peer
  /\ peer' = how
  /\ UNCHANGED <<sent, rx, tx, got, given, closed, header, websocketProtocol, readBuffer,
                 writeBuffer, call, want, offset, ret, late>>

TimePasses ==
  /\ call \in {"receive", "send"}
  /\ late' = TRUE
  /\ UNCHANGED <<network, rx, tx, given, closed, header, websocketProtocol, readBuffer,
                 writeBuffer, call, want, offset, ret>>
=============================================================================
