----------------------------- MODULE WebSocket ------------------------------
(***************************************************************************)
(* What a process does with its connection: the dispatch of Jail::process, *)
(* HttpJailServer (httpServer.cpp) and webSocket (websocket.cpp), on top   *)
(* of the Socket.  What the commands do between two calls is left to       *)
(* chance: they send, receive, close or throw at any time.                 *)
(***************************************************************************)
EXTENDS Socket

CONSTANTS
  MaxTexts,      \* bound: messages that a command sends
  MaxFragments,  \* JAIL_WEBSOCKET_FRAME_SIZE_LIMIT, in fragments
  Rounds         \* closeAndWait(): timeout / pollInterval

ASSUME WebSocketAssumption ==
  MaxTexts \in Nat /\ MaxFragments \in Nat /\ Rounds \in Nat

VARIABLES
  pc,
  receiveBuffer, previous_data, lFrameType, closeSent,  \* class webSocket
  rounds,     \* closeAndWait(): rounds left
  delivered,  \* history: the messages that receive() has returned
  failed      \* history: a send() has thrown

ws == <<receiveBuffer, previous_data, lFrameType, closeSent, rounds, delivered>>
vars == <<sent, peer, rx, tx, got, given, closed, header, websocketProtocol,
          readBuffer, writeBuffer, call, want, offset, ret, late,
          pc, receiveBuffer, previous_data, lFrameType, closeSent, rounds, delivered,
          failed>>

Pcs == {"start", "headers", "body", "replied", "upgraded", "loop", "decode", "wait",
        "waitDecode", "shut", "error", "end"}

(* "none" is what the constructor leaves in lFrameType: it does not        *)
(* initialise it.                                                          *)
FrameType == {"text", "ping", "pong", "close", "error"}

TypeOK ==
  /\ SocketTypeOK
  /\ pc \in Pcs
  /\ receiveBuffer \in Seq(Unit)
  /\ previous_data \in Seq(1 .. MaxMessages) /\ Len(previous_data) <= MaxFragments
  /\ lFrameType \in FrameType \cup {"none"}
  /\ closeSent \in BOOLEAN
  /\ rounds \in 0 .. Rounds
  /\ failed \in BOOLEAN

Init ==
  /\ SocketInit
  /\ pc = "start"
  /\ receiveBuffer = <<>> /\ previous_data = <<>>
  /\ lFrameType = "none"
  /\ closeSent = FALSE /\ rounds = 0
  /\ delivered = <<>> /\ failed = FALSE

Ready(l) == pc = l /\ call = "none"
Goto(l) == pc' = l

-----------------------------------------------------------------------------
(* Jail::process and HttpJailServer                                        *)

ReadHeaders ==
  /\ Ready("start")
  /\ ReceiveStarts(HeadersSize)
  /\ Goto("headers")
  /\ UNCHANGED <<ws, failed>>

(* The client left before its headers: no answer.                          *)
NoRequest ==
  /\ Ready("headers")
  /\ ~header
  /\ Goto("end")
  /\ Used
  /\ UNCHANGED <<ws, failed>>

(* A POST: its body is Content-Length long.                                *)
ReceiveBody ==
  /\ Ready("headers")
  /\ header
  /\ sent[1].op = "http"
  /\ ReceiveStarts(2)
  /\ Goto("body")
  /\ UNCHANGED <<ws, failed>>

Upgrade ==
  /\ Ready("headers")
  /\ header
  /\ sent[1].op = "upgrade"
  /\ websocketProtocol' = TRUE
  /\ Goto("upgraded")
  /\ UNCHANGED <<network, rx, tx, given, closed, header, readBuffer, writeBuffer, call,
                 want, offset, ret, late, ws, failed>>

(* A check of the request, the parser of its body or its command throws.   *)
RequestThrows ==
  /\ \/ Ready("headers") /\ header
     \/ Ready("body")
     \/ Ready("loop")
  /\ Goto("error")
  /\ Used
  /\ UNCHANGED <<ws, failed>>

(* A GET has no body.                                                      *)
Reply ==
  /\ \/ Ready("headers") /\ header /\ sent[1].op = "http"
     \/ Ready("body") /\ Len(ret) >= 2
  /\ SendStarts(<<"response1", "response2">>)
  /\ Goto("replied")
  /\ UNCHANGED <<ws, failed>>

(* Variant: the answer to an exception is tried again.                     *)
CatchAgain ==
  /\ call = "threw"
  /\ call' = "none"
  /\ Goto("error")
  /\ failed' = (failed \/ pc \in {"replied", "shut"})
  /\ UNCHANGED <<network, rx, tx, given, closed, header, websocketProtocol, readBuffer,
                 writeBuffer, want, offset, ret, late, ws>>

(* The exceptions of receive() and send().  One that sendCode() throws     *)
(* while an exception is handled ends the process.                         *)
Catch ==
  /\ call = "threw"
  /\ call' = "none"
  /\ Goto(IF pc = "shut" THEN "end" ELSE "error")
  /\ failed' = (failed \/ pc \in {"replied", "shut"})
  /\ UNCHANGED <<network, rx, tx, given, closed, header, websocketProtocol, readBuffer,
                 writeBuffer, want, offset, ret, late, ws>>

(* Variant: the answer goes out on a WebSocket too.                        *)
SendCodeAlways ==
  /\ Ready("error")
  /\ SendStarts(<<"error">>)
  /\ Goto("shut")
  /\ UNCHANGED <<ws, failed>>

(* sendCode(): no HTTP answer on a WebSocket.                              *)
SendCode ==
  /\ Ready("error")
  /\ IF websocketProtocol THEN UNCHANGED socket ELSE SendStarts(<<"error">>)
  /\ Goto("shut")
  /\ UNCHANGED <<ws, failed>>

Shut ==
  /\ Ready("replied") \/ Ready("shut")
  /\ Shutdown
  /\ Goto("end")
  /\ UNCHANGED <<ws, failed>>

-----------------------------------------------------------------------------
(* webSocket                                                               *)

Handshake ==
  /\ Ready("upgraded")
  /\ SendStarts(<<"handshake">>)
  /\ Goto("loop")
  /\ UNCHANGED <<ws, failed>>

(* The loops of the commands end on a closed socket.                       *)
LoopEnds ==
  /\ Ready("loop")
  /\ closed
  /\ Goto("end")
  /\ UNCHANGED <<socket, ws, failed>>

(* wait() and poll() report something to read.                             *)
AppReceives ==
  /\ Ready("loop")
  /\ ~closed
  /\ rx # <<>> \/ receiveBuffer # <<>> \/ readBuffer # <<>> \/ peer # "open"
  /\ ReceiveStarts(0)
  /\ Goto("decode")
  /\ UNCHANGED <<ws, failed>>

AppSends ==
  /\ Ready("loop")
  /\ ~closed
  /\ Len(SelectSeq(given, LAMBDA d : d = "text")) < MaxTexts
  /\ SendStarts(<<"text">>)
  /\ Goto("loop")
  /\ UNCHANGED <<ws, failed>>

(* Variant: closeSent is not set.                                          *)
CloseForgets ==
  /\ IF closeSent THEN Used ELSE SendStarts(<<"close">>)
  /\ UNCHANGED closeSent

Close ==
  /\ IF closeSent THEN Used ELSE SendStarts(<<"close">>)
  /\ closeSent' = TRUE

AppCloses ==
  /\ Ready("loop")
  /\ ~closed
  /\ ~closeSent
  /\ Close
  /\ UNCHANGED <<pc, receiveBuffer, previous_data, lFrameType, rounds, delivered, failed>>

(* closeAndWait()                                                          *)
AppClosesAndWaits ==
  /\ Ready("loop")
  /\ ~closed
  /\ Close
  /\ Goto("wait")
  /\ rounds' = Rounds
  /\ UNCHANGED <<receiveBuffer, previous_data, lFrameType, delivered, failed>>

WaitRound ==
  /\ Ready("wait")
  /\ ~closed
  /\ rounds > 0
  /\ rounds' = rounds - 1
  /\ IF rx # <<>> \/ receiveBuffer # <<>> \/ readBuffer # <<>> \/ peer # "open"
     THEN ReceiveStarts(0) /\ Goto("waitDecode")
     ELSE UNCHANGED <<socket, pc>>
  /\ UNCHANGED <<receiveBuffer, previous_data, lFrameType, closeSent, delivered, failed>>

WaitEnds ==
  /\ Ready("wait")
  /\ closed \/ rounds = 0
  /\ Shutdown
  /\ Goto("end")
  /\ UNCHANGED <<ws, failed>>

-----------------------------------------------------------------------------
(* receive(), after the Socket has returned: at most one frame is taken.   *)

Back == IF pc = "decode" THEN "loop" ELSE "wait"
Decoding == Ready("decode") \/ Ready("waitDecode")
Buffered == receiveBuffer \o ret

(* decodeFrame(): a continuation has the type of the last frame.  If there *)
(* was none, that is any value.                                            *)
TypesOf(m) ==
  IF m.op = "bad" THEN {"error"}
  ELSE IF m.op # "cont" THEN {m.op}
  ELSE IF lFrameType = "none" THEN FrameType ELSE {lFrameType}

FrameIncomplete ==
  /\ Decoding
  /\ Len(Buffered) < 2
  /\ receiveBuffer' = Buffered
  /\ Goto(Back)
  /\ Used
  /\ UNCHANGED <<previous_data, lFrameType, closeSent, rounds, delivered, failed>>

(* The next frame of the buffer is m, the n-th message of the client, and  *)
(* of type t.  A frame that cannot be decoded stays in the buffer.         *)
Frame(n, m, t) ==
  /\ Decoding
  /\ Len(Buffered) >= 2
  /\ n = Buffered[1].n
  /\ m = sent[n]
  /\ t \in TypesOf(m)
  /\ lFrameType' = t
  /\ receiveBuffer' = IF m.op = "bad" THEN Buffered ELSE SubSeq(Buffered, 3, Len(Buffered))

(* Variant: the last fragment is returned without those kept.              *)
DataFrameForgets(n, m, t) ==
  /\ Frame(n, m, t)
  /\ t = "text"
  /\ delivered' = IF m.fin THEN Append(delivered, <<n>>) ELSE delivered
  /\ previous_data' = IF m.fin THEN <<>> ELSE Append(previous_data, n)
  /\ Len(previous_data') <= MaxFragments
  /\ Goto(Back)
  /\ Used
  /\ UNCHANGED <<closeSent, rounds, failed>>

DataFrame(n, m, t) ==
  /\ Frame(n, m, t)
  /\ t = "text"
  /\ delivered' = IF m.fin THEN Append(delivered, Append(previous_data, n)) ELSE delivered
  /\ previous_data' = IF m.fin THEN <<>> ELSE Append(previous_data, n)
  /\ Len(previous_data') <= MaxFragments
  /\ Goto(Back)
  /\ Used
  /\ UNCHANGED <<closeSent, rounds, failed>>

(* Invalid UTF-8, or too much data kept.                                   *)
DataFrameRefused(n, m, t) ==
  /\ Frame(n, m, t)
  /\ t = "text"
  /\ m.fin \/ Len(previous_data) = MaxFragments
  /\ previous_data' = IF m.fin THEN <<>> ELSE previous_data
  /\ Close
  /\ Goto("shut")
  /\ UNCHANGED <<rounds, delivered, failed>>

PingFrame(n, m, t) ==
  /\ Frame(n, m, t)
  /\ t = "ping"
  /\ SendStarts(<<"pong">>)
  /\ Goto(Back)
  /\ UNCHANGED <<previous_data, closeSent, rounds, delivered, failed>>

PongFrame(n, m, t) ==
  /\ Frame(n, m, t)
  /\ t = "pong"
  /\ Goto(Back)
  /\ Used
  /\ UNCHANGED <<previous_data, closeSent, rounds, delivered, failed>>

CloseFrame(n, m, t) ==
  /\ Frame(n, m, t)
  /\ t \in {"close", "error"}
  /\ Close
  /\ Goto("shut")
  /\ UNCHANGED <<previous_data, rounds, delivered, failed>>

Decode ==
  \/ FrameIncomplete
  \/ \E n \in DOMAIN sent, t \in FrameType : LET m == sent[n] IN
       \/ DataFrame(n, m, t) \/ DataFrameRefused(n, m, t) \/ PingFrame(n, m, t)
       \/ PongFrame(n, m, t) \/ CloseFrame(n, m, t)

-----------------------------------------------------------------------------
Http == ReadHeaders \/ NoRequest \/ ReceiveBody \/ Upgrade \/ Reply \/ SendCode \/ Shut \/ Catch
        \/ Handshake

Closing == WaitRound \/ WaitEnds \/ LoopEnds

SocketCall == (Receive \/ Send) /\ UNCHANGED <<pc, ws, failed>>

World ==
  /\ \/ \E m \in Message : PeerSends(m)
     \/ PeerReads
     \/ \E how \in {"closed", "reset"} : PeerLeaves(how)
     \/ TimePasses
  /\ UNCHANGED <<pc, ws, failed>>

Next ==
  \/ Http \/ RequestThrows \/ Closing \/ Decode \/ SocketCall \/ World
  \/ AppReceives \/ AppSends \/ AppCloses \/ AppClosesAndWaits

Spec == Init /\ [][Next]_vars

(* The kernel runs the process, and time passes, but a poll() of ten       *)
(* milliseconds does not last six seconds every time.  A command is not    *)
(* made to throw, to send or to close.  Nothing is assumed of the client.  *)
Step ==
  \/ Http \/ Closing \/ Decode \/ SocketCall \/ AppReceives
  \/ pc = "body" /\ RequestThrows

FairSpec ==
  /\ Spec
  /\ WF_vars(Step)
  /\ SF_vars((ReceiveGets \/ ReceiveMeetsEnd) /\ UNCHANGED <<pc, ws, failed>>)
  /\ WF_vars(TimePasses /\ UNCHANGED <<pc, ws, failed>>)

-----------------------------------------------------------------------------
(* Properties                                                              *)

(* Continuations follow an unfinished frame, and nothing else does.        *)
Tidy ==
  \A n \in 2 .. Len(sent) :
    (sent[n].op = "cont") <=> (n > 2 /\ ~sent[n - 1].fin)

(* The frames w of the client are one message: a frame and all of its      *)
(* continuations.                                                          *)
WholeMessage(w) ==
  /\ w # <<>>
  /\ \A k \in DOMAIN w :
       /\ w[k] \in 2 .. Len(sent)
       /\ w[k] = w[1] + k - 1
       /\ sent[w[k]].op = IF k = 1 THEN "text" ELSE "cont"
       /\ sent[w[k]].fin <=> k = Len(w)

(* The last frame of the i-th message returned.                            *)
EndOf(i) == IF i = 0 THEN 0 ELSE Last(delivered[i])

(* There is nothing of a message between two frames.                       *)
NoData(from, to) == \A n \in from + 1 .. to - 1 : sent[n].op \notin {"text", "cont"}

(* receive() returns the messages of the client whole, in their order,     *)
(* none twice and none left out, however the network cuts them, as long as *)
(* the client puts no control frame between two fragments.                 *)
MessagesAreWhole ==
  Tidy =>
    \A i \in DOMAIN delivered :
      /\ WholeMessage(delivered[i])
      /\ EndOf(i - 1) < delivered[i][1]
      /\ NoData(EndOf(i - 1), delivered[i][1])

(* What the client gets is what send() was given, in order, nothing twice  *)
(* and, once send() has returned and the connection is sound, nothing      *)
(* missing.                                                                *)
NothingLostNorRepeated ==
  ~failed =>
    /\ IsPrefix(got \o tx, given)
    /\ call \in {"none", "receive"} /\ ~closed => got \o tx = given

(* send() leaves writeBuffer as it was when it throws, so that the error   *)
(* answer that follows begins with what was already written.  That is the  *)
(* only repetition, it happens once, and never on a WebSocket, where a     *)
(* failed send() closes the socket and does not throw.                     *)
FailedAnswerIsRepeatedOnce ==
  failed =>
    /\ ~websocketProtocol
    /\ \E k \in 0 .. Len(given) : IsPrefix(got \o tx, SubSeq(given, 1, k) \o given)

(* close(), closeAndWait() and receive() send one Close frame at most,     *)
(* whichever side begins and however often they are called.                *)
OneCloseFrame ==
  \A i, j \in DOMAIN given : given[i] = "close" /\ given[j] = "close" => i = j

(* Once the connection is a WebSocket, no HTTP answer is written on it,    *)
(* whatever exception reaches Jail::process.                               *)
NoHttpOnWebSocket ==
  \A i, j \in DOMAIN given :
    i < j /\ given[i] = "handshake" => given[j] \in {"text", "pong", "close"}

(* receive() ends: its time limits are looked at in every turn.            *)
ReceiveEnds == call = "receive" ~> call # "receive"

(* The process of a client that has gone ends.                             *)
LostClientsAreNoticed == peer = "reset" ~> pc = "end"

(* send() ends: "Socket write timeout".                                    *)
SendEnds == call = "send" ~> call # "send"
=============================================================================
