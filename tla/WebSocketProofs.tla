-------------------------- MODULE WebSocketProofs ---------------------------
(***************************************************************************)
(* What a process sends on its connection arrives in order and once, but   *)
(* for the one repetition after a send() that has thrown; on a WebSocket   *)
(* there is one Close frame and no HTTP; and the messages of the client    *)
(* are returned whole; for all sizes of the buffers and however the        *)
(* network, the client and the clock behave.                               *)
(***************************************************************************)
EXTENDS WebSocket, TLAPS, SequenceTheorems

-----------------------------------------------------------------------------
(* The invariant, by what its parts are needed for.                        *)

HttpWords == {"response1", "response2", "error"}
WebSocketWords == {"text", "pong", "close"}
Words == HttpWords \cup WebSocketWords \cup {"handshake"}

(* Where the process stands when a method of the socket is under way.      *)
CallInv ==
  /\ pc \in Pcs /\ call \in Calls
  /\ closed \in BOOLEAN /\ websocketProtocol \in BOOLEAN /\ failed \in BOOLEAN
  /\ websocketProtocol => header
  /\ pc \in {"start", "headers", "body", "replied"} => ~websocketProtocol
  /\ pc \in {"upgraded", "loop", "decode", "wait", "waitDecode"} => websocketProtocol
  /\ call # "none" => ~closed
  /\ call = "receive" => pc \in {"headers", "body", "decode", "waitDecode"}
  /\ call = "send" => pc \in {"replied", "shut", "loop", "wait"}
  /\ call = "threw" => ~websocketProtocol /\ pc \in {"headers", "body", "replied", "shut"}
  /\ failed => ~websocketProtocol /\ pc \in {"error", "shut", "end"}

BufferInv ==
  /\ got \in Seq(Words) /\ tx \in Seq(Words)
  /\ given \in Seq(Words) /\ writeBuffer \in Seq(Words)
  /\ offset \in 0 .. Len(writeBuffer)
  /\ IF call = "send" THEN offset < Len(writeBuffer) ELSE offset = 0

(* What has left the process.                                              *)
Out == got \o tx
Owed == SubSeq(writeBuffer, offset + 1, Len(writeBuffer))

SendThrew == call = "threw" /\ pc \in {"replied", "shut"}

FlowInv ==
  ~failed =>
    /\ IF SendThrew THEN IsPrefix(Out, given) ELSE Out \o Owed = given
    /\ call \in {"none", "receive"} /\ ~closed => writeBuffer = <<>>

(* Before the answer nothing is sent, and an answer that threw is still in *)
(* the buffer.                                                             *)
Unanswered == pc \in {"start", "headers", "body"} \/ (pc = "error" /\ ~failed)
HttpInv ==
  ~websocketProtocol =>
    /\ Unanswered => given = <<>> /\ writeBuffer = <<>>
    /\ call = "send" \/ SendThrew \/ (failed /\ pc = "error") => writeBuffer = given

FailedInv ==
  failed =>
    /\ pc = "error" => call = "none"
    /\ \E k, j \in 0 .. Len(given) :
         /\ Out = SubSeq(given, 1, k) \o SubSeq(given, 1, j)
         /\ call = "send" => j = offset
         /\ pc = "error" => j = 0

WordsInv ==
  /\ ~websocketProtocol => \A i \in DOMAIN given : given[i] \in HttpWords
  /\ pc = "upgraded" => given = <<>>
  /\ websocketProtocol => \A i \in DOMAIN given : i > 1 => given[i] \in WebSocketWords
  /\ ~closeSent => \A i \in DOMAIN given : given[i] # "close"
  /\ OneCloseFrame

IInv == CallInv /\ BufferInv /\ FlowInv /\ HttpInv /\ FailedInv /\ WordsInv

-----------------------------------------------------------------------------
(* The calls                                                               *)

LEMMA ReceiveStartsCalls ==
  ASSUME CallInv, NEW n, ReceiveStarts(n)
  PROVE  /\ call' \in {"none", "receive"} /\ (call' = "receive" => ~closed)
         /\ UNCHANGED <<closed, websocketProtocol, header>>
         /\ UNCHANGED <<got, tx, given, writeBuffer, offset>>
  BY DEF ReceiveStarts, Return, network

LEMMA SendStartsCalls ==
  ASSUME CallInv, NEW data, SendStarts(data)
  PROVE  /\ call = "none" /\ UNCHANGED <<got, tx, offset, closed, websocketProtocol, header>>
         /\ IF closed THEN UNCHANGED <<given, writeBuffer, call>>
            ELSE /\ given' = given \o data /\ writeBuffer' = writeBuffer \o data
                 /\ call' = "send"
  BY DEF SendStarts, network

LEMMA CloseCalls ==
  ASSUME CallInv, call = "none", Close
  PROVE  /\ UNCHANGED <<got, tx, offset, closed, websocketProtocol, header>>
         /\ \/ UNCHANGED <<given, writeBuffer, call>>
            \/ /\ given' = given \o <<"close">> /\ writeBuffer' = writeBuffer \o <<"close">>
               /\ call' = "send" /\ ~closed /\ ~closeSent
         /\ closeSent' = TRUE
<1>1. CASE closeSent
  BY <1>1 DEF Close, Used, network
<1>2. CASE ~closeSent
  BY <1>2, SendStartsCalls DEF Close
<1>3. QED
  BY <1>1, <1>2

LEMMA CloseKeeps ==
  ASSUME CallInv, call = "none", Close
  PROVE  /\ UNCHANGED <<closed, websocketProtocol, header>>
         /\ call' = "none" \/ (call' = "send" /\ ~closed)
  BY CloseCalls

LEMMA ReceiveCalls ==
  ASSUME CallInv, Receive
  PROVE  /\ call = "receive" /\ call' \in {"none", "receive", "threw"}
         /\ (call' # "none" => ~closed') /\ closed' \in BOOLEAN
         /\ (call' = "threw" => ~websocketProtocol)
         /\ (header => header') /\ UNCHANGED websocketProtocol
         /\ UNCHANGED <<got, tx, given, writeBuffer, offset>>
<1> USE DEF CallInv, Return, Throw, ReceiveBreaks, network
<1>1. CASE ReceiveTimesOut
  BY <1>1 DEF ReceiveTimesOut
<1>2. CASE ReceiveMeetsEnd
  BY <1>2 DEF ReceiveMeetsEnd
<1>3. CASE ReceiveFindsNothing
  BY <1>3 DEF ReceiveFindsNothing
<1>4. ASSUME NEW k \in 1 .. Len(rx), NEW hup \in BOOLEAN, ReceiveReads(k, hup)
      PROVE  /\ call = "receive" /\ call' \in {"none", "receive", "threw"}
             /\ (call' # "none" => ~closed') /\ closed' \in BOOLEAN
             /\ (call' = "threw" => ~websocketProtocol)
             /\ (header => header') /\ UNCHANGED websocketProtocol
             /\ UNCHANGED <<got, tx, given, writeBuffer, offset>>
  BY <1>4 DEF ReceiveReads
<1>5. QED
  BY <1>1, <1>2, <1>3, <1>4 DEF Receive, ReceiveGets

LEMMA SendCalls ==
  ASSUME CallInv, Send
  PROVE  /\ call = "send" /\ UNCHANGED <<websocketProtocol, header, got, given>>
         /\ \/ call' = "none"
            \/ call' = "send" /\ UNCHANGED closed
            \/ call' = "threw" /\ ~websocketProtocol /\ UNCHANGED closed
         /\ closed' \in BOOLEAN
  BY DEF CallInv, Send, SendTimesOut, SendFails, SendWrites, SendBreaks, SendThrows, network

LEMMA CallNext ==
  ASSUME CallInv, [Next]_vars
  PROVE  CallInv'
<1> USE DEF CallInv, Pcs, Calls, Ready, Goto
<1>1. CASE ReadHeaders \/ ReceiveBody \/ AppReceives
  BY <1>1, ReceiveStartsCalls DEF ReadHeaders, ReceiveBody, AppReceives
<1>2. CASE NoRequest \/ Upgrade \/ RequestThrows \/ Catch \/ Shut \/ LoopEnds \/ WaitEnds
  <2>1. CASE NoRequest
    BY <2>1 DEF NoRequest, Used
  <2>2. CASE Upgrade
    BY <2>2 DEF Upgrade
  <2>3. CASE RequestThrows
    BY <2>3 DEF RequestThrows, Used
  <2>4. CASE Catch
    BY <2>4 DEF Catch
  <2>5. CASE Shut
    BY <2>5 DEF Shut, Shutdown
  <2>6. CASE LoopEnds
    BY <2>6 DEF LoopEnds, socket
  <2>7. CASE WaitEnds
    BY <2>7 DEF WaitEnds, Shutdown
  <2>8. QED
    BY <1>2, <2>1, <2>2, <2>3, <2>4, <2>5, <2>6, <2>7
<1>3. CASE Reply \/ Handshake \/ AppSends
  BY <1>3, SendStartsCalls DEF Reply, Handshake, AppSends
<1>4. CASE SendCode
  BY <1>4, SendStartsCalls DEF SendCode, socket
<1>5. CASE AppCloses \/ AppClosesAndWaits
  <2>1. CASE AppCloses
    <3>1. call = "none" /\ Close /\ pc = "loop" /\ UNCHANGED <<pc, failed>>
      BY <2>1 DEF AppCloses
    <3>2. /\ UNCHANGED <<closed, websocketProtocol, header>>
          /\ call' = "none" \/ (call' = "send" /\ ~closed)
      BY <3>1, CloseKeeps
    <3>3. websocketProtocol /\ ~failed
      BY <3>1
    <3>4. QED
      BY <3>1, <3>2, <3>3
  <2>2. CASE AppClosesAndWaits
    <3>1. call = "none" /\ Close /\ pc = "loop" /\ pc' = "wait" /\ UNCHANGED failed
      BY <2>2 DEF AppClosesAndWaits
    <3>2. /\ UNCHANGED <<closed, websocketProtocol, header>>
          /\ call' = "none" \/ (call' = "send" /\ ~closed)
      BY <3>1, CloseKeeps
    <3>3. websocketProtocol /\ ~failed
      BY <3>1
    <3>4. QED
      BY <3>1, <3>2, <3>3
  <2>3. QED
    BY <1>5, <2>1, <2>2
<1>6. CASE WaitRound
  BY <1>6, ReceiveStartsCalls DEF WaitRound, socket
<1>7. CASE FrameIncomplete
  BY <1>7 DEF FrameIncomplete, Decoding, Back, Used
<1>8. ASSUME NEW n \in DOMAIN sent, NEW m, NEW t \in FrameType,
             DataFrame(n, m, t) \/ PongFrame(n, m, t)
      PROVE  CallInv'
  BY <1>8 DEF DataFrame, PongFrame, Frame, Decoding, Back, Used
<1>9. ASSUME NEW n \in DOMAIN sent, NEW m, NEW t \in FrameType, PingFrame(n, m, t)
      PROVE  CallInv'
  BY <1>9, SendStartsCalls DEF PingFrame, Frame, Decoding, Back
<1>10. ASSUME NEW n \in DOMAIN sent, NEW m, NEW t \in FrameType,
              DataFrameRefused(n, m, t) \/ CloseFrame(n, m, t)
       PROVE  CallInv'
  <2>1. CASE DataFrameRefused(n, m, t)
    <3>1. /\ call = "none" /\ Close /\ pc \in {"decode", "waitDecode"} /\ pc' = "shut"
          /\ UNCHANGED failed
      BY <2>1 DEF DataFrameRefused, Frame, Decoding
    <3>2. QED
      BY <3>1, CloseKeeps
  <2>2. CASE CloseFrame(n, m, t)
    <3>1. /\ call = "none" /\ Close /\ pc \in {"decode", "waitDecode"} /\ pc' = "shut"
          /\ UNCHANGED failed
      BY <2>2 DEF CloseFrame, Frame, Decoding
    <3>2. QED
      BY <3>1, CloseKeeps
  <2>3. QED
    BY <1>10, <2>1, <2>2
<1>11. CASE SocketCall
  <2>1. CASE Receive
    BY <1>11, <2>1, ReceiveCalls DEF SocketCall
  <2>2. CASE Send
    BY <1>11, <2>2, SendCalls DEF SocketCall
  <2>3. QED
    BY <1>11, <2>1, <2>2 DEF SocketCall
<1>12. CASE World
  BY <1>12 DEF World, PeerSends, PeerReads, PeerLeaves, TimePasses, network
<1>13. CASE UNCHANGED vars
  BY <1>13 DEF vars
<1>14. QED
  BY <1>1, <1>2, <1>3, <1>4, <1>5, <1>6, <1>7, <1>8, <1>9, <1>10, <1>11, <1>12, <1>13
     DEF Next, Http, Closing, Decode

-----------------------------------------------------------------------------
(* The kinds of steps, by what they do to the buffers.                     *)

Data == {<<"response1", "response2">>, <<"error">>, <<"handshake">>, <<"text">>, <<"pong">>,
         <<"close">>}

QuietStep ==
  /\ UNCHANGED <<got, tx, given, writeBuffer, offset>>
  /\ (call = "send") <=> (call' = "send")
  /\ websocketProtocol => websocketProtocol'
  /\ websocketProtocol' => websocketProtocol \/ pc = "headers"
  /\ closeSent => closeSent'
  /\ pc' = "upgraded" => pc \in {"headers", "upgraded"}
  /\ failed => failed' /\ (pc' = "error" => pc = "error" /\ call' = call)
  /\ failed' /\ ~failed => SendThrew /\ call' = "none"
  /\ SendThrew' => SendThrew
  /\ ~failed' /\ SendThrew => SendThrew'
  /\ ~failed' /\ ~closed' /\ call' \in {"none", "receive"} =>
       ~closed /\ (call \in {"none", "receive"} \/ pc \in {"headers", "body"})
  /\ ~websocketProtocol' /\ Unanswered' => Unanswered

Sends(data) ==
  /\ call = "none" /\ call' = "send" /\ given' = given \o data /\ writeBuffer' = writeBuffer \o data
  /\ UNCHANGED <<got, tx, offset, failed, websocketProtocol>>
  /\ pc' \in {"replied", "shut", "loop", "wait"}
  /\ data = <<"response1", "response2">> => ~websocketProtocol /\ pc \in {"headers", "body"}
  /\ data = <<"error">> => ~websocketProtocol /\ pc = "error"
  /\ data = <<"handshake">> => pc = "upgraded"
  /\ data \in {<<"text">>, <<"pong">>, <<"close">>} => websocketProtocol
  /\ IF data = <<"close">> THEN ~closeSent /\ closeSent' = TRUE ELSE closeSent' = closeSent

SendStep == Send /\ UNCHANGED <<pc, ws, failed>>
ReadStep == PeerReads /\ UNCHANGED <<pc, ws, failed>>

Kind == QuietStep \/ SendStep \/ ReadStep \/ \E data \in Data : Sends(data)

LEMMA SendOrDrop ==
  ASSUME CallInv, CallInv', NEW data \in Data, SendStarts(data), UNCHANGED <<failed, closeSent>>,
         pc' \in {"replied", "shut", "loop", "wait"}, ~failed \/ pc = "error",
         data # <<"close">>,
         data = <<"response1", "response2">> => ~websocketProtocol /\ pc \in {"headers", "body"},
         data = <<"error">> => ~websocketProtocol /\ pc = "error",
         data = <<"handshake">> => pc = "upgraded",
         data \in {<<"text">>, <<"pong">>} => websocketProtocol
  PROVE  Kind
<1>1. /\ call = "none" /\ UNCHANGED <<got, tx, offset, closed, websocketProtocol, header>>
      /\ IF closed THEN UNCHANGED <<given, writeBuffer, call>>
         ELSE /\ given' = given \o data /\ writeBuffer' = writeBuffer \o data
              /\ call' = "send"
  BY SendStartsCalls
<1>2. CASE closed
  <2>1. QuietStep
    BY <1>1, <1>2 DEF QuietStep, SendThrew, Unanswered, CallInv
  <2>2. QED
    BY <2>1 DEF Kind
<1>3. CASE ~closed
  <2>1. Sends(data)
    BY <1>1, <1>3 DEF Sends
  <2>2. QED
    BY <2>1 DEF Kind
<1>4. QED
  BY <1>2, <1>3

LEMMA CloseOrDrop ==
  ASSUME CallInv, call = "none", Close, UNCHANGED failed, websocketProtocol,
         pc' \in {"shut", "loop", "wait"}
  PROVE  Kind
<1>1. /\ UNCHANGED <<got, tx, offset, closed, websocketProtocol, header>>
      /\ \/ UNCHANGED <<given, writeBuffer, call>>
         \/ /\ given' = given \o <<"close">> /\ writeBuffer' = writeBuffer \o <<"close">>
            /\ call' = "send" /\ ~closed /\ ~closeSent
      /\ closeSent' = TRUE
  BY CloseCalls
<1>2. CASE UNCHANGED <<given, writeBuffer, call>>
  <2>1. QuietStep
    BY <1>1, <1>2 DEF QuietStep, SendThrew, Unanswered, CallInv
  <2>2. QED
    BY <2>1 DEF Kind
<1>3. CASE ~UNCHANGED <<given, writeBuffer, call>>
  <2>1. Sends(<<"close">>)
    BY <1>1, <1>3 DEF Sends
  <2>2. QED
    BY <2>1 DEF Kind, Data
<1>4. QED
  BY <1>2, <1>3

LEMMA Kinds ==
  ASSUME CallInv, CallInv', [Next]_vars
  PROVE  Kind
<1> USE DEF Ready, Goto, ws
<1>1. CASE ReadHeaders \/ ReceiveBody \/ AppReceives
  <2>1. /\ call' \in {"none", "receive"} /\ (call' = "receive" => ~closed)
        /\ UNCHANGED <<closed, websocketProtocol, header>>
        /\ UNCHANGED <<got, tx, given, writeBuffer, offset>>
    BY <1>1, ReceiveStartsCalls DEF ReadHeaders, ReceiveBody, AppReceives
  <2>2. /\ call = "none" /\ UNCHANGED <<failed, closeSent>>
        /\ \/ pc = "start" /\ pc' = "headers"
           \/ pc = "headers" /\ pc' = "body"
           \/ pc = "loop" /\ pc' = "decode"
    BY <1>1 DEF ReadHeaders, ReceiveBody, AppReceives
  <2>3. QuietStep
    BY <2>1, <2>2 DEF QuietStep, SendThrew, Unanswered, CallInv
  <2>4. QED
    BY <2>3 DEF Kind
<1>2. CASE NoRequest \/ Upgrade \/ RequestThrows
  <2>1. /\ call = "none" /\ UNCHANGED <<got, tx, given, writeBuffer, offset, closed, call>>
        /\ UNCHANGED <<failed, closeSent>>
        /\ \/ pc = "headers" /\ pc' = "end" /\ UNCHANGED websocketProtocol
           \/ pc = "headers" /\ pc' = "upgraded" /\ websocketProtocol' = TRUE
           \/ pc \in {"headers", "body", "loop"} /\ pc' = "error" /\ UNCHANGED websocketProtocol
    BY <1>2 DEF NoRequest, Upgrade, RequestThrows, Used, network
  <2>2. QuietStep
    BY <2>1 DEF QuietStep, SendThrew, Unanswered, CallInv
  <2>3. QED
    BY <2>2 DEF Kind
<1>3. CASE Catch
  <2>1. QuietStep
    BY <1>3 DEF Catch, network, QuietStep, SendThrew, Unanswered, CallInv
  <2>2. QED
    BY <2>1 DEF Kind
<1>4. CASE Shut \/ WaitEnds \/ LoopEnds
  <2>1. /\ call = "none" /\ UNCHANGED <<got, tx, given, writeBuffer, offset, call>>
        /\ UNCHANGED <<failed, closeSent, websocketProtocol>>
        /\ pc \in {"replied", "shut", "wait", "loop"} /\ pc' = "end"
        /\ closed' = TRUE \/ closed' = closed
    BY <1>4 DEF Shut, WaitEnds, LoopEnds, Shutdown, socket, network
  <2>2. QuietStep
    BY <2>1 DEF QuietStep, SendThrew, Unanswered, CallInv
  <2>3. QED
    BY <2>2 DEF Kind
<1>5. CASE Reply
  <2>1. /\ SendStarts(<<"response1", "response2">>) /\ UNCHANGED <<failed, closeSent>>
        /\ pc \in {"headers", "body"} /\ pc' = "replied"
    BY <1>5 DEF Reply
  <2>2. ~websocketProtocol /\ ~failed
    BY <2>1 DEF CallInv
  <2>3. <<"response1", "response2">> \in Data
    BY DEF Data
  <2>4. QED
    BY <2>1, <2>2, <2>3, SendOrDrop
<1>6. CASE Handshake
  <2>1. /\ SendStarts(<<"handshake">>) /\ UNCHANGED <<failed, closeSent>>
        /\ pc = "upgraded" /\ pc' = "loop" /\ ~failed
    BY <1>6 DEF Handshake, CallInv
  <2>2. <<"handshake">> \in Data
    BY DEF Data
  <2>3. QED
    BY <2>1, <2>2, SendOrDrop
<1>7. CASE AppSends
  <2>1. /\ SendStarts(<<"text">>) /\ UNCHANGED <<failed, closeSent>>
        /\ pc' = "loop" /\ ~failed /\ websocketProtocol
    BY <1>7 DEF AppSends, CallInv
  <2>2. <<"text">> \in Data
    BY DEF Data
  <2>3. QED
    BY <2>1, <2>2, SendOrDrop
<1>8. CASE SendCode
  <2>1. CASE websocketProtocol
    <3>1. QuietStep
      BY <1>8, <2>1 DEF SendCode, socket, network, QuietStep, SendThrew, Unanswered, CallInv
    <3>2. QED
      BY <3>1 DEF Kind
  <2>2. CASE ~websocketProtocol
    <3>1. /\ SendStarts(<<"error">>) /\ UNCHANGED <<failed, closeSent>>
          /\ pc = "error" /\ pc' = "shut"
      BY <1>8, <2>2 DEF SendCode
    <3>2. <<"error">> \in Data
      BY DEF Data
    <3>3. QED
      BY <2>2, <3>1, <3>2, SendOrDrop
  <2>3. QED
    BY <2>1, <2>2
<1>9. CASE AppCloses \/ AppClosesAndWaits
  <2>1. /\ call = "none" /\ Close /\ UNCHANGED failed /\ pc' \in {"shut", "loop", "wait"}
        /\ pc = "loop"
    BY <1>9 DEF AppCloses, AppClosesAndWaits
  <2>2. websocketProtocol
    BY <2>1 DEF CallInv
  <2>3. QED
    BY <2>1, <2>2, CloseOrDrop
<1>10. CASE WaitRound
  <2>1. /\ call = "none" /\ call' \in {"none", "receive"}
        /\ UNCHANGED <<closed, websocketProtocol, failed, closeSent>>
        /\ UNCHANGED <<got, tx, given, writeBuffer, offset>>
        /\ pc = "wait" /\ pc' \in {"wait", "waitDecode"}
    BY <1>10, ReceiveStartsCalls DEF WaitRound, socket
  <2>2. QuietStep
    BY <2>1 DEF QuietStep, SendThrew, Unanswered, CallInv
  <2>3. QED
    BY <2>2 DEF Kind
<1>11. CASE Decode
  <2>1. ASSUME NEW n \in DOMAIN sent, NEW m, NEW t \in FrameType, PingFrame(n, m, t)
        PROVE  Kind
    <3>1. /\ SendStarts(<<"pong">>) /\ UNCHANGED <<failed, closeSent>>
          /\ pc \in {"decode", "waitDecode"} /\ pc' \in {"loop", "wait"}
      BY <2>1 DEF PingFrame, Frame, Decoding, Back
    <3>2. websocketProtocol /\ ~failed
      BY <3>1 DEF CallInv
    <3>3. <<"pong">> \in Data
      BY DEF Data
    <3>4. QED
      BY <3>1, <3>2, <3>3, SendOrDrop
  <2>2. ASSUME NEW n \in DOMAIN sent, NEW m, NEW t \in FrameType,
               DataFrameRefused(n, m, t) \/ CloseFrame(n, m, t)
        PROVE  Kind
    <3>1. /\ call = "none" /\ Close /\ UNCHANGED failed /\ pc' = "shut"
          /\ pc \in {"decode", "waitDecode"}
      BY <2>2 DEF DataFrameRefused, CloseFrame, Frame, Decoding
    <3>2. websocketProtocol
      BY <3>1 DEF CallInv
    <3>3. QED
      BY <3>1, <3>2, CloseOrDrop
  <2>3. ASSUME NEW n \in DOMAIN sent, NEW m, NEW t \in FrameType,
               DataFrame(n, m, t) \/ PongFrame(n, m, t)
        PROVE  Kind
    <3>1. /\ call = "none" /\ UNCHANGED <<got, tx, given, writeBuffer, offset, closed, call>>
          /\ UNCHANGED <<failed, closeSent, websocketProtocol>>
          /\ pc \in {"decode", "waitDecode"} /\ pc' \in {"loop", "wait"}
      BY <2>3 DEF DataFrame, PongFrame, Frame, Decoding, Back, Used, network
    <3>2. QuietStep
      BY <3>1 DEF QuietStep, SendThrew, Unanswered, CallInv
    <3>3. QED
      BY <3>2 DEF Kind
  <2>4. CASE FrameIncomplete
    <3>1. /\ call = "none" /\ UNCHANGED <<got, tx, given, writeBuffer, offset, closed, call>>
          /\ UNCHANGED <<failed, closeSent, websocketProtocol>>
          /\ pc \in {"decode", "waitDecode"} /\ pc' \in {"loop", "wait"}
      BY <2>4 DEF FrameIncomplete, Decoding, Back, Used, network
    <3>2. QuietStep
      BY <3>1 DEF QuietStep, SendThrew, Unanswered, CallInv
    <3>3. QED
      BY <3>2 DEF Kind
  <2>5. QED
    BY <1>11, <2>1, <2>2, <2>3, <2>4 DEF Decode
<1>12. CASE SocketCall
  <2>1. CASE Receive
    <3>1. UNCHANGED <<pc, closeSent, failed>>
      BY <1>12 DEF SocketCall
    <3>2. /\ call = "receive" /\ call' \in {"none", "receive", "threw"}
          /\ UNCHANGED websocketProtocol
          /\ UNCHANGED <<got, tx, given, writeBuffer, offset>>
      BY <2>1, ReceiveCalls
    <3>3. ~SendThrew' /\ ~SendThrew /\ ~closed
      BY <3>1, <3>2 DEF SendThrew, CallInv
    <3>4. QuietStep
      BY <3>1, <3>2, <3>3 DEF QuietStep, Unanswered, CallInv
    <3>5. QED
      BY <3>4 DEF Kind
  <2>2. CASE Send
    BY <1>12, <2>2 DEF SocketCall, Kind, SendStep
  <2>3. QED
    BY <1>12, <2>1, <2>2 DEF SocketCall
<1>13. CASE World
  <2>1. CASE PeerReads
    BY <1>13, <2>1 DEF World, Kind, ReadStep
  <2>2. CASE ~PeerReads
    <3>1. /\ UNCHANGED <<got, tx, given, writeBuffer, offset, call, closed, websocketProtocol>>
          /\ UNCHANGED <<pc, closeSent, failed>>
      BY <1>13, <2>2 DEF World, PeerSends, PeerLeaves, TimePasses, network
    <3>2. QuietStep
      BY <3>1 DEF QuietStep, SendThrew, Unanswered
    <3>3. QED
      BY <3>2 DEF Kind
  <2>3. QED
    BY <2>1, <2>2
<1>14. CASE UNCHANGED vars
  <2>1. QuietStep
    BY <1>14 DEF vars, QuietStep, SendThrew, Unanswered
  <2>2. QED
    BY <2>1 DEF Kind
<1>15. QED
  BY <1>1, <1>2, <1>3, <1>4, <1>5, <1>6, <1>7, <1>8, <1>9, <1>10, <1>11, <1>12, <1>13, <1>14
     DEF Next, Http, Closing

-----------------------------------------------------------------------------
(* The buffers                                                             *)

LEMMA DataType ==
  ASSUME NEW data \in Data
  PROVE  data \in Seq(Words) /\ Len(data) \in 1 .. 2
<1>1. /\ "response1" \in Words /\ "response2" \in Words /\ "error" \in Words
      /\ "handshake" \in Words /\ "text" \in Words /\ "pong" \in Words /\ "close" \in Words
  BY DEF Words, HttpWords, WebSocketWords
<1>2. ASSUME NEW w \in Words PROVE <<w>> \in Seq(Words) /\ Len(<<w>>) = 1
  OBVIOUS
<1>3. ASSUME NEW v \in Words, NEW w \in Words
      PROVE  <<v, w>> \in Seq(Words) /\ Len(<<v, w>>) = 2
  OBVIOUS
<1>4. CASE data = <<"response1", "response2">>
  BY <1>1, <1>3, <1>4
<1>5. CASE data # <<"response1", "response2">>
  <2>1. \/ data = <<"error">> \/ data = <<"handshake">> \/ data = <<"text">>
        \/ data = <<"pong">> \/ data = <<"close">>
    BY <1>5 DEF Data
  <2>2. PICK w \in Words : data = <<w>>
    BY <1>1, <2>1
  <2>3. Len(data) = 1 /\ data \in Seq(Words)
    BY <1>2, <2>2
  <2>4. QED
    BY <2>3
<1>6. QED
  BY <1>4, <1>5

LEMMA PrefixOfConcat ==
  ASSUME NEW S, NEW s \in Seq(S), NEW t \in Seq(S), NEW k \in 0 .. Len(s)
  PROVE  SubSeq(s \o t, 1, k) = SubSeq(s, 1, k)
<1>1. CASE k = 0
  BY <1>1, SubSeqEmpty
<1>2. CASE k # 0
  <2>1. 1 \in 1 .. Len(s) /\ k \in 1 .. Len(s)
    BY <1>2
  <2>2. QED
    BY <2>1, SubSeqOfConcat1
<1>3. QED
  BY <1>1, <1>2

LEMMA PrefixStep ==
  ASSUME NEW S, NEW s \in Seq(S), NEW k \in Nat, k < Len(s)
  PROVE  Append(SubSeq(s, 1, k), s[k + 1]) = SubSeq(s, 1, k + 1)
<1>1. \A i \in 1 .. k + 1 : s[i] \in S
  BY ElementOfSeq
<1>2. /\ SubSeq(s, 1, k) \in Seq(S) /\ Len(SubSeq(s, 1, k)) = k
      /\ \A i \in 1 .. k : SubSeq(s, 1, k)[i] = s[i]
  BY <1>1, SubSeqProperties
<1>3. /\ SubSeq(s, 1, k + 1) \in Seq(S) /\ Len(SubSeq(s, 1, k + 1)) = k + 1
      /\ \A i \in 1 .. k + 1 : SubSeq(s, 1, k + 1)[i] = s[i]
  BY <1>1, SubSeqProperties
<1>4. s[k + 1] \in S
  BY <1>1
<1> DEFINE new == Append(SubSeq(s, 1, k), s[k + 1])
<1>5. /\ new \in Seq(S) /\ Len(new) = k + 1 /\ new[k + 1] = s[k + 1]
      /\ \A i \in 1 .. k : new[i] = s[i]
  BY <1>2, <1>4, AppendProperties
<1>6. \A i \in 1 .. k + 1 : new[i] = SubSeq(s, 1, k + 1)[i]
  <2>1. \A i \in 1 .. k + 1 : i \in 1 .. k \/ i = k + 1
    OBVIOUS
  <2> HIDE DEF new
  <2>2. QED
    BY <1>3, <1>5, <2>1
<1>7. QED
  BY <1>3, <1>5, <1>6, SeqEqual

LEMMA RestStep ==
  ASSUME NEW S, NEW s \in Seq(S), NEW k \in Nat, k < Len(s)
  PROVE  <<s[k + 1]>> \o SubSeq(s, k + 2, Len(s)) = SubSeq(s, k + 1, Len(s))
<1>1. PICK m \in 1 .. Len(s) : m = k + 1
  OBVIOUS
<1>2. Len(s) \in m .. Len(s)
  BY <1>1
<1>3. SubSeq(s, m, Len(s)) = <<s[m]>> \o SubSeq(s, m + 1, Len(s))
  BY <1>2, SubSeqRecursiveFirst
<1>4. m + 1 = k + 2
  BY <1>1
<1>5. QED
  BY <1>1, <1>3, <1>4

LEMMA BufferFacts ==
  ASSUME BufferInv
  PROVE  /\ Out \in Seq(Words) /\ Owed \in Seq(Words) /\ Len(Owed) = Len(writeBuffer) - offset
         /\ (call # "send" => Owed = writeBuffer)
<1>1. \A i \in offset + 1 .. Len(writeBuffer) : writeBuffer[i] \in Words
  BY ElementOfSeq DEF BufferInv
<1>2. Owed \in Seq(Words) /\ Len(Owed) = Len(writeBuffer) - offset
  BY <1>1, SubSeqProperties DEF BufferInv, Owed
<1>3. ASSUME call # "send" PROVE Owed = writeBuffer
  <2>1. offset + 1 = 1 /\ writeBuffer \in Seq(Words)
    BY <1>3 DEF BufferInv
  <2>2. SubSeq(writeBuffer, 1, Len(writeBuffer)) = writeBuffer
    BY <2>1, SubSeqFull
  <2>3. QED
    BY <2>1, <2>2 DEF Owed
<1>4. Out \in Seq(Words)
  BY ConcatProperties DEF BufferInv, Out
<1>5. QED
  BY <1>2, <1>3, <1>4

LEMMA WritesFacts ==
  ASSUME BufferInv, SendWrites
  PROVE  /\ writeBuffer[offset + 1] \in Words /\ tx' = Append(tx, writeBuffer[offset + 1])
         /\ Out' = Append(Out, writeBuffer[offset + 1])
<1>1. offset + 1 \in 1 .. Len(writeBuffer) /\ writeBuffer \in Seq(Words)
  BY DEF SendWrites, BufferInv
<1>2. writeBuffer[offset + 1] \in Words
  BY <1>1, ElementOfSeq
<1>3. PICK x \in Words : x = writeBuffer[offset + 1]
  BY <1>2
<1>4. got \o Append(tx, x) = Append(got \o tx, x)
  <2>1. ASSUME NEW s \in Seq(Words), NEW t \in Seq(Words)
        PROVE  s \o Append(t, x) = Append(s \o t, x)
    OBVIOUS
  <2>2. QED
    BY <2>1 DEF BufferInv
<1>5. tx' = Append(tx, x) /\ got' = got
  BY <1>3 DEF SendWrites, network
<1>6. QED
  BY <1>3, <1>4, <1>5 DEF Out

LEMMA ReadFacts ==
  ASSUME BufferInv, PeerReads
  PROVE  /\ got' \in Seq(Words) /\ tx' \in Seq(Words) /\ Out' = Out
         /\ UNCHANGED <<given, closed, websocketProtocol, writeBuffer, call, offset>>
<1>1. tx # <<>> /\ tx \in Seq(Words) /\ got \in Seq(Words)
  BY DEF PeerReads, BufferInv
<1>2. Head(tx) \in Words /\ Tail(tx) \in Seq(Words)
  BY <1>1, HeadTailProperties
<1>3. Append(got, Head(tx)) \o Tail(tx) = got \o tx
  <2>1. ASSUME NEW s \in Seq(Words), NEW t \in Seq(Words), t # <<>>
        PROVE  Append(s, Head(t)) \o Tail(t) = s \o t
    <3> DEFINE h == Head(t)
               u == Tail(t)
               a == Append(s, h)
    <3>1. /\ h \in Words /\ u \in Seq(Words) /\ h = t[1]
          /\ Len(u) = Len(t) - 1 /\ \A i \in 1 .. Len(u) : u[i] = t[i + 1]
      BY <2>1, HeadTailProperties
    <3>2. /\ a \in Seq(Words) /\ Len(a) = Len(s) + 1 /\ a[Len(s) + 1] = h
          /\ \A i \in 1 .. Len(s) : a[i] = s[i]
      BY <3>1, AppendProperties
    <3> HIDE DEF h, u, a
    <3>0. Len(s) \in Nat /\ Len(t) \in Nat
      OBVIOUS
    <3>3. a \o u \in Seq(Words) /\ s \o t \in Seq(Words)
      BY <3>1, <3>2, ConcatProperties
    <3>4. Len(a \o u) = Len(s) + Len(t) /\ Len(s \o t) = Len(s) + Len(t)
      <4>1. Len(a \o u) = Len(a) + Len(u) /\ Len(s \o t) = Len(s) + Len(t)
        BY <3>1, <3>2, ConcatProperties
      <4>2. QED
        BY <3>0, <3>1, <3>2, <4>1
    <3>5. ASSUME NEW i \in 1 .. Len(s) + Len(t) PROVE (a \o u)[i] = (s \o t)[i]
      <4>1. CASE i <= Len(s)
        BY <3>1, <3>2, <4>1
      <4>2. CASE i = Len(s) + 1
        BY <3>1, <3>2, <4>2
      <4>3. CASE i > Len(s) + 1
        <5>1. (a \o u)[i] = u[i - (Len(s) + 1)]
          BY <3>1, <3>2, <4>3
        <5>2. (s \o t)[i] = t[i - Len(s)]
          BY <4>3
        <5>3. i - (Len(s) + 1) \in 1 .. Len(u) /\ (i - (Len(s) + 1)) + 1 = i - Len(s)
          BY <3>1, <4>3
        <5>4. QED
          BY <3>1, <5>1, <5>2, <5>3
      <4>4. QED
        <5>1. i \in Int
          BY <3>0
        <5>2. i <= Len(s) \/ i = Len(s) + 1 \/ i > Len(s) + 1
          BY <3>0, <5>1
        <5>3. QED
          BY <4>1, <4>2, <4>3, <5>2
    <3>6. a \o u = s \o t
      BY <3>3, <3>4, <3>5, SeqEqual
    <3>7. QED
      BY <3>6 DEF a, h, u
  <2>2. QED
    BY <1>1, <2>1
<1>4. Append(got, Head(tx)) \in Seq(Words)
  BY <1>1, <1>2, AppendProperties
<1>5. QED
  BY <1>2, <1>3, <1>4 DEF PeerReads, Out

LEMMA BufferNext ==
  ASSUME BufferInv, Kind
  PROVE  BufferInv'
<1>1. CASE QuietStep
  BY <1>1 DEF QuietStep, BufferInv
<1>2. ASSUME NEW data \in Data, Sends(data) PROVE BufferInv'
  <2>1. data \in Seq(Words) /\ Len(data) \in 1 .. 2
    BY DataType
  <2>2. /\ given' \in Seq(Words) /\ writeBuffer' \in Seq(Words)
        /\ Len(writeBuffer') = Len(writeBuffer) + Len(data)
    BY <1>2, <2>1, ConcatProperties DEF Sends, BufferInv
  <2>3. offset' = 0 /\ 0 \in 0 .. Len(writeBuffer') /\ 0 < Len(writeBuffer')
    <3>1. Len(writeBuffer) \in Nat
      BY DEF BufferInv
    <3>2. offset' = offset /\ offset = 0
      BY <1>2 DEF Sends, BufferInv
    <3>3. QED
      BY SMTT(30), <2>1, <2>2, <3>1, <3>2
  <2>4. QED
    BY <1>2, <2>2, <2>3 DEF Sends, BufferInv
<1>3. CASE ReadStep
  BY <1>3, ReadFacts DEF ReadStep, BufferInv
<1>4. CASE SendStep
  <2>1. CASE SendTimesOut \/ SendFails
    <3>1. \/ SendBreaks \/ SendThrows
      BY <2>1 DEF SendTimesOut, SendFails
    <3>2. UNCHANGED <<got, tx, given>>
      BY <2>1 DEF SendTimesOut, SendFails, network
    <3>3. writeBuffer' \in Seq(Words)
      BY <3>1, BufferFacts DEF SendBreaks, SendThrows, BufferInv, Owed
    <3>4. offset' = 0 /\ call' # "send" /\ 0 \in 0 .. Len(writeBuffer')
      BY <3>1, <3>3 DEF SendBreaks, SendThrows
    <3>5. QED
      BY <3>2, <3>3, <3>4 DEF BufferInv
  <2>2. CASE SendWrites
    <3>1. tx' \in Seq(Words) /\ UNCHANGED <<got, given>>
      BY <2>2, WritesFacts, AppendProperties DEF SendWrites, network, BufferInv
    <3>2. CASE offset + 1 = Len(writeBuffer)
      <4>1. writeBuffer' = <<>> /\ offset' = 0 /\ call' = "none"
        BY <2>2, <3>2 DEF SendWrites
      <4>2. <<>> \in Seq(Words) /\ 0 \in 0 .. Len(<<>>)
        OBVIOUS
      <4>3. QED
        BY <3>1, <4>1, <4>2 DEF BufferInv
    <3>3. CASE offset + 1 # Len(writeBuffer)
      <4>1. writeBuffer' = writeBuffer /\ offset' = offset + 1 /\ call' = call /\ call = "send"
        BY <2>2, <3>3 DEF SendWrites
      <4>2. offset + 1 \in 0 .. Len(writeBuffer) /\ offset + 1 < Len(writeBuffer)
        BY <3>3, <4>1 DEF BufferInv
      <4>3. QED
        BY <3>1, <4>1, <4>2 DEF BufferInv
    <3>4. QED
      BY <3>2, <3>3
  <2>3. QED
    BY <1>4, <2>1, <2>2 DEF SendStep, Send
<1>5. QED
  BY <1>1, <1>2, <1>3, <1>4 DEF Kind

-----------------------------------------------------------------------------
(* What has been written is what was given                                 *)

LEMMA PrefixOfGiven ==
  ASSUME BufferInv, Out \o Owed = given
  PROVE  IsPrefix(Out, given)
<1>1. Out \in Seq(Words) /\ Owed \in Seq(Words)
  BY BufferFacts
<1>2. Len(given) = Len(Out) + Len(Owed)
  BY <1>1, ConcatProperties
<1>3. Len(Out) \in 0 .. Len(Out) /\ Len(Out) <= Len(given)
  BY <1>1, <1>2
<1>4. SubSeq(Out \o Owed, 1, Len(Out)) = SubSeq(Out, 1, Len(Out))
  BY <1>1, <1>3, PrefixOfConcat
<1>5. QED
  BY <1>3, <1>4 DEF IsPrefix

LEMMA FlowSends ==
  ASSUME BufferInv, FlowInv, NEW data \in Data, Sends(data), CallInv, BufferInv'
  PROVE  FlowInv'
<1> SUFFICES ASSUME ~failed PROVE (Out \o Owed = given)' /\ ~SendThrew'
  BY DEF Sends, FlowInv
<1>1. ~SendThrew' /\ ~SendThrew /\ call' = "send"
  BY DEF Sends, SendThrew
<1>2. Out \o writeBuffer = given
  BY <1>1, BufferFacts DEF Sends, FlowInv
<1>3. Out' = Out /\ offset' = 0
  BY DEF Sends, Out, BufferInv
<1>4. Owed' = writeBuffer'
  <2>1. writeBuffer' \in Seq(Words) /\ offset' + 1 = 1
    BY <1>3 DEF BufferInv
  <2>2. SubSeq(writeBuffer', 1, Len(writeBuffer')) = writeBuffer'
    BY <2>1, SubSeqFull
  <2>3. QED
    BY <2>1, <2>2 DEF Owed
<1>5. Out \o (writeBuffer \o data) = (Out \o writeBuffer) \o data
  <2>1. ASSUME NEW x \in Seq(Words), NEW y \in Seq(Words), NEW z \in Seq(Words)
        PROVE  x \o (y \o z) = (x \o y) \o z
    OBVIOUS
  <2>2. Out \in Seq(Words) /\ writeBuffer \in Seq(Words) /\ data \in Seq(Words)
    BY BufferFacts, DataType DEF BufferInv
  <2>3. QED
    BY <2>1, <2>2
<1>6. QED
  BY <1>1, <1>2, <1>3, <1>4, <1>5 DEF Sends

LEMMA FlowSend ==
  ASSUME BufferInv, FlowInv, CallInv, SendStep
  PROVE  FlowInv'
<1> SUFFICES ASSUME ~failed
             PROVE  /\ IF SendThrew' THEN IsPrefix(Out, given)' ELSE (Out \o Owed = given)'
                    /\ call' \in {"none", "receive"} /\ ~closed' => writeBuffer' = <<>>
  BY DEF SendStep, FlowInv
<1>1. call = "send" /\ pc' = pc /\ given' = given /\ got' = got
  BY DEF SendStep, Send, SendTimesOut, SendFails, SendWrites, network
<1>2. Out \o Owed = given /\ Out \in Seq(Words) /\ Owed \in Seq(Words)
  BY <1>1, BufferFacts DEF FlowInv, SendThrew
<1>3. CASE SendTimesOut \/ SendFails
  <2>1. Out' = Out
    BY <1>3 DEF SendTimesOut, SendFails, network, Out
  <2>2. CASE websocketProtocol
    <3>1. call' = "none" /\ closed' = TRUE /\ writeBuffer' = Owed /\ offset' = 0
      BY <1>3, <2>2 DEF SendTimesOut, SendFails, SendBreaks, Owed
    <3>2. Owed' = Owed
      <4>1. SubSeq(Owed, 1, Len(Owed)) = Owed
        BY <1>2, SubSeqFull
      <4>2. 0 + 1 = 1
        OBVIOUS
      <4>3. Owed' = SubSeq(writeBuffer', offset' + 1, Len(writeBuffer'))
        BY DEF Owed
      <4>4. Owed' = SubSeq(Owed, 1, Len(Owed))
        BY <3>1, <4>2, <4>3
      <4>5. QED
        BY <4>1, <4>4
    <3>3. ~SendThrew'
      BY <3>1 DEF SendThrew
    <3>4. QED
      BY <1>1, <1>2, <2>1, <3>1, <3>2, <3>3
  <2>3. CASE ~websocketProtocol
    <3>1. call' = "threw" /\ pc \in {"replied", "shut"}
      BY <1>1, <1>3, <2>3 DEF SendTimesOut, SendFails, SendThrows, CallInv
    <3>2. SendThrew'
      BY <1>1, <3>1 DEF SendThrew
    <3>3. IsPrefix(Out, given)
      BY <1>2, PrefixOfGiven
    <3>4. QED
      BY <1>1, <2>1, <3>1, <3>2, <3>3
  <2>4. QED
    BY <2>2, <2>3
<1>4. CASE SendWrites
  <2>1. PICK x \in Words : x = writeBuffer[offset + 1] /\ Out' = Append(Out, x)
    BY <1>4, WritesFacts
  <2>2. /\ offset \in Nat /\ offset < Len(writeBuffer) /\ writeBuffer \in Seq(Words)
        /\ Len(writeBuffer) \in Nat
    BY <1>1 DEF BufferInv
  <2>3. PICK r \in Seq(Words) :
          r = SubSeq(writeBuffer, offset + 2, Len(writeBuffer)) /\ Owed = <<x>> \o r
    <3>1. <<writeBuffer[offset + 1]>> \o SubSeq(writeBuffer, offset + 2, Len(writeBuffer)) = Owed
      BY <2>2, RestStep DEF Owed
    <3>2. \A i \in offset + 2 .. Len(writeBuffer) : writeBuffer[i] \in Words
      BY <2>2, ElementOfSeq
    <3>3. SubSeq(writeBuffer, offset + 2, Len(writeBuffer)) \in Seq(Words)
      BY <2>2, <3>2, SubSeqProperties
    <3>4. QED
      BY <2>1, <3>1, <3>3
  <2>4. Owed' = r
    <3>1. CASE offset + 1 = Len(writeBuffer)
      <4>1. writeBuffer' = <<>> /\ offset' = 0
        BY <1>4, <3>1 DEF SendWrites
      <4>2. Owed' = <<>>
        BY <4>1 DEF Owed
      <4>3. r = <<>>
        BY <2>2, <2>3, <3>1, SubSeqEmpty
      <4>4. QED
        BY <4>2, <4>3
    <3>2. CASE offset + 1 # Len(writeBuffer)
      <4>1. writeBuffer' = writeBuffer /\ offset' = offset + 1
        BY <1>4, <3>2 DEF SendWrites
      <4>2. offset' + 1 = offset + 2
        BY <2>2, <4>1
      <4>3. Owed' = SubSeq(writeBuffer', offset' + 1, Len(writeBuffer'))
        BY DEF Owed
      <4>4. QED
        BY <2>3, <4>1, <4>2, <4>3
    <3>3. QED
      BY <3>1, <3>2
  <2>5. Append(Out, x) \o r = Out \o (<<x>> \o r)
    <3>1. Append(Out, x) = Out \o <<x>>
      BY <1>2, AppendIsConcat
    <3>2. ASSUME NEW s \in Seq(Words), NEW y \in Seq(Words), NEW z \in Seq(Words)
          PROVE  s \o (y \o z) = (s \o y) \o z
      OBVIOUS
    <3>3. <<x>> \in Seq(Words)
      OBVIOUS
    <3>4. QED
      BY <1>2, <3>1, <3>2, <3>3
  <2>6. (Out \o Owed = given)'
    BY <1>1, <1>2, <2>1, <2>3, <2>4, <2>5
  <2>7. ~SendThrew' /\ (call' # "send" => writeBuffer' = <<>>)
    BY <1>1, <1>4 DEF SendWrites, SendThrew
  <2>8. QED
    BY <2>6, <2>7
<1>5. QED
  BY <1>3, <1>4 DEF SendStep, Send

LEMMA FlowNext ==
  ASSUME CallInv, BufferInv, FlowInv, HttpInv, Kind, BufferInv'
  PROVE  FlowInv'
<1>1. CASE QuietStep
  <2> SUFFICES ASSUME ~failed'
               PROVE  /\ IF SendThrew' THEN IsPrefix(Out, given)' ELSE (Out \o Owed = given)'
                      /\ call' \in {"none", "receive"} /\ ~closed' => writeBuffer' = <<>>
    BY DEF FlowInv
  <2>1. Out' = Out /\ Owed' = Owed /\ given' = given /\ writeBuffer' = writeBuffer
    BY <1>1 DEF QuietStep, Out, Owed
  <2>2. ~failed /\ (SendThrew' <=> SendThrew)
    BY <1>1 DEF QuietStep, CallInv
  <2>3. pc \in {"headers", "body"} => writeBuffer = <<>>
    BY DEF CallInv, HttpInv, Unanswered
  <2>4. call' \in {"none", "receive"} /\ ~closed' => writeBuffer = <<>>
    BY <1>1, <2>2, <2>3 DEF QuietStep, FlowInv
  <2>5. QED
    BY <2>1, <2>2, <2>4 DEF FlowInv
<1>2. CASE ReadStep
  <2>1. Out' = Out /\ UNCHANGED <<given, closed, writeBuffer, call, offset, pc, failed>>
    BY <1>2, ReadFacts DEF ReadStep
  <2>2. QED
    BY <2>1 DEF FlowInv, Owed, SendThrew
<1>3. QED
  BY <1>1, <1>2, FlowSends, FlowSend DEF Kind

LEMMA HttpNext ==
  ASSUME CallInv, HttpInv, BufferInv, FailedInv, Kind
  PROVE  HttpInv'
<1> SUFFICES ASSUME ~websocketProtocol'
             PROVE  /\ Unanswered' => given' = <<>> /\ writeBuffer' = <<>>
                    /\ call' = "send" \/ SendThrew' \/ (failed' /\ pc' = "error")
                         => writeBuffer' = given'
  BY DEF HttpInv
<1>1. CASE QuietStep
  BY <1>1 DEF QuietStep, HttpInv
<1>2. CASE ReadStep
  BY <1>2, ReadFacts DEF ReadStep, HttpInv, Unanswered, SendThrew
<1>3. ASSUME NEW data \in Data, Sends(data)
      PROVE  given' = writeBuffer' /\ ~Unanswered'
  <2>1. ~websocketProtocol /\ ~Unanswered'
    BY <1>3 DEF Sends, Unanswered
  <2>2. given = writeBuffer
    BY <1>3, <2>1 DEF Sends, Data, HttpInv, Unanswered, CallInv
  <2>3. QED
    BY <1>3, <2>1, <2>2 DEF Sends
<1>4. CASE SendStep
  <2>1. /\ call = "send" /\ ~websocketProtocol /\ UNCHANGED <<pc, given, failed>>
        /\ pc \in {"replied", "shut"}
    BY <1>4 DEF SendStep, Send, SendTimesOut, SendFails, SendWrites, network, CallInv
  <2>2. call' = "send" \/ SendThrew' => writeBuffer' = writeBuffer
    BY <1>4, <2>1 DEF SendStep, Send, SendTimesOut, SendFails, SendWrites, SendThrows, SendThrew
  <2>3. QED
    BY <2>1, <2>2 DEF HttpInv, Unanswered
<1>5. QED
  BY <1>1, <1>2, <1>3, <1>4 DEF Kind

-----------------------------------------------------------------------------
(* After a send() that has thrown                                          *)

(* The repetition: a beginning of what was given, and a beginning again.   *)
Twice(k, j) == Out = SubSeq(given, 1, k) \o SubSeq(given, 1, j)

LEMMA TwiceStep ==
  ASSUME BufferInv, NEW k \in 0 .. Len(given), NEW j \in Nat, j < Len(given), Twice(k, j)
  PROVE  Append(Out, given[j + 1]) = SubSeq(given, 1, k) \o SubSeq(given, 1, j + 1)
<1> DEFINE a == SubSeq(given, 1, k)
           b == SubSeq(given, 1, j)
<1>0. given \in Seq(Words) /\ Len(given) \in Nat
  BY DEF BufferInv
<1>1. \A i \in 1 .. Len(given) : given[i] \in Words
  BY <1>0, ElementOfSeq
<1>2. a \in Seq(Words) /\ b \in Seq(Words)
  <2>1. \A i \in 1 .. k : given[i] \in Words
    BY <1>0, <1>1
  <2>2. \A i \in 1 .. j : given[i] \in Words
    BY <1>0, <1>1
  <2>3. QED
    BY <2>1, <2>2, <1>0, SubSeqProperties
<1>3. PICK x \in Words : x = given[j + 1]
  BY <1>0, <1>1
<1>4. Append(b, x) = SubSeq(given, 1, j + 1)
  BY <1>0, <1>3, PrefixStep
<1>5. ASSUME NEW s \in Seq(Words), NEW t \in Seq(Words)
      PROVE  s \o Append(t, x) = Append(s \o t, x)
  OBVIOUS
<1>6. Out = a \o b
  BY DEF Twice
<1> HIDE DEF a, b
<1>7. a \o Append(b, x) = Append(a \o b, x)
  BY <1>2, <1>5
<1>8. QED
  <2>1. Append(Out, x) = a \o SubSeq(given, 1, j + 1)
    BY <1>4, <1>6, <1>7
  <2>2. QED
    BY <1>3, <2>1 DEF a

LEMMA FailedQuiet ==
  ASSUME CallInv, BufferInv, FlowInv, FailedInv, CallInv', QuietStep
  PROVE  FailedInv'
<1> SUFFICES ASSUME failed' PROVE FailedInv'
  BY DEF FailedInv
<1>1. Out' = Out /\ given' = given /\ offset' = offset
  BY DEF QuietStep, Out
<1>2. CASE failed
  <2>1. PICK k, j \in 0 .. Len(given) :
          Twice(k, j) /\ (call = "send" => j = offset) /\ (pc = "error" => j = 0)
    BY <1>2 DEF FailedInv, Twice
  <2>2. /\ (call' = "send" <=> call = "send")
        /\ pc' = "error" => pc = "error" /\ call' = call
    BY <1>2 DEF QuietStep
  <2>3. Out' = SubSeq(given', 1, k) \o SubSeq(given', 1, j)
    BY <1>1, <2>1 DEF Twice
  <2>4. (call' = "send" => j = offset') /\ (pc' = "error" => j = 0)
    BY <1>1, <2>1, <2>2
  <2>5. pc' = "error" => call' = "none"
    BY <1>2, <2>2 DEF FailedInv
  <2>6. k \in 0 .. Len(given') /\ j \in 0 .. Len(given')
    BY <1>1
  <2>7. QED
    BY <2>3, <2>4, <2>5, <2>6 DEF FailedInv
<1>3. CASE ~failed
  <2>1. SendThrew /\ call' = "none"
    BY <1>3 DEF QuietStep
  <2>2. IsPrefix(Out, given)
    BY <1>3, <2>1 DEF FlowInv
  <2>3. Out \in Seq(Words) /\ given \in Seq(Words)
    BY BufferFacts DEF BufferInv
  <2>4. Len(Out) \in 0 .. Len(given) /\ 0 \in 0 .. Len(given)
    BY <2>2, <2>3 DEF IsPrefix
  <2>5. SubSeq(given, 1, Len(Out)) = Out
    <3>1. SubSeq(Out, 1, Len(Out)) = Out
      BY <2>3, SubSeqFull
    <3>2. QED
      BY <2>2, <3>1 DEF IsPrefix
  <2>6. Out = SubSeq(given, 1, Len(Out)) \o SubSeq(given, 1, 0)
    <3>1. SubSeq(given, 1, 0) = <<>>
      BY <2>3, SubSeqEmpty
    <3>2. Out \o <<>> = Out
      BY <2>3, ConcatEmptySeq
    <3>3. QED
      BY <2>5, <3>1, <3>2
  <2>7. PICK k \in 0 .. Len(given) : k = Len(Out)
    BY <2>4
  <2>8. Out' = SubSeq(given', 1, k) \o SubSeq(given', 1, 0)
    BY <1>1, <2>6, <2>7
  <2>9. k \in 0 .. Len(given') /\ 0 \in 0 .. Len(given')
    BY <1>1, <2>4
  <2>10. QED
    BY <2>1, <2>8, <2>9 DEF FailedInv
<1>4. QED
  BY <1>2, <1>3

LEMMA FailedSends ==
  ASSUME CallInv, BufferInv, FailedInv, NEW data \in Data, Sends(data)
  PROVE  FailedInv'
<1> SUFFICES ASSUME failed' PROVE FailedInv'
  BY DEF FailedInv
<1>1. failed /\ pc = "error" /\ call = "none"
  BY DEF Sends, Data, CallInv
<1>2. PICK k \in 0 .. Len(given) : Twice(k, 0)
  BY <1>1 DEF FailedInv, Twice
<1>3. given \in Seq(Words) /\ data \in Seq(Words)
  BY DataType DEF BufferInv
<1>4. given' = given \o data /\ Out' = Out /\ offset' = 0 /\ call' = "send" /\ pc' # "error"
  BY <1>1 DEF Sends, Out, BufferInv
<1>5. 0 \in 0 .. Len(given) /\ Len(given') = Len(given) + Len(data)
      /\ Len(data) \in Nat /\ Len(given) \in Nat
  BY <1>3, <1>4, ConcatProperties
<1>6. /\ SubSeq(given', 1, k) = SubSeq(given, 1, k)
      /\ SubSeq(given', 1, 0) = SubSeq(given, 1, 0)
  BY <1>3, <1>4, <1>5, PrefixOfConcat
<1>7. Out' = SubSeq(given', 1, k) \o SubSeq(given', 1, 0)
  BY <1>2, <1>4, <1>6 DEF Twice
<1>8. k \in 0 .. Len(given') /\ 0 \in 0 .. Len(given')
  BY <1>5
<1>9. QED
  BY <1>4, <1>7, <1>8 DEF FailedInv

LEMMA FailedSend ==
  ASSUME CallInv, BufferInv, HttpInv, FailedInv, SendStep
  PROVE  FailedInv'
<1> SUFFICES ASSUME failed' PROVE FailedInv'
  BY DEF FailedInv
<1>1. failed /\ call = "send" /\ pc' = pc /\ given' = given /\ pc # "error"
  BY DEF SendStep, Send, SendTimesOut, SendFails, SendWrites, network, CallInv
<1>2. ~websocketProtocol /\ writeBuffer = given
  BY <1>1 DEF CallInv, HttpInv
<1>3. PICK k \in 0 .. Len(given) : Twice(k, offset) /\ offset \in 0 .. Len(given)
  BY <1>1 DEF FailedInv, Twice
<1>4. k \in 0 .. Len(given')
  BY <1>1
<1>5. CASE SendTimesOut \/ SendFails
  <2>1. Out' = Out /\ call' = "threw"
    BY <1>2, <1>5 DEF SendTimesOut, SendFails, SendThrows, network, Out
  <2>2. PICK j \in 0 .. Len(given) : j = offset
    BY <1>3
  <2>3. Out' = SubSeq(given', 1, k) \o SubSeq(given', 1, j) /\ j \in 0 .. Len(given')
    BY <1>1, <1>3, <2>1, <2>2 DEF Twice
  <2>4. QED
    BY <1>1, <1>4, <2>1, <2>3 DEF FailedInv
<1>6. CASE SendWrites
  <2>1. /\ offset \in Nat /\ offset < Len(given) /\ Len(given) \in Nat
    BY <1>1, <1>2 DEF BufferInv
  <2>2. Out' = Append(Out, given[offset + 1])
    BY <1>2, <1>6, WritesFacts
  <2>3. Append(Out, given[offset + 1]) = SubSeq(given, 1, k) \o SubSeq(given, 1, offset + 1)
    BY <1>3, <2>1, TwiceStep
  <2>4. PICK j \in 0 .. Len(given) : j = offset + 1
    BY <2>1
  <2>5. Out' = SubSeq(given', 1, k) \o SubSeq(given', 1, j) /\ j \in 0 .. Len(given')
    BY <1>1, <2>2, <2>3, <2>4
  <2>6. call' = "send" => offset' = j
    BY <1>6, <2>4 DEF SendWrites
  <2>7. QED
    BY <1>1, <1>4, <2>5, <2>6 DEF FailedInv
<1>7. QED
  BY <1>5, <1>6 DEF SendStep, Send

LEMMA FailedNext ==
  ASSUME CallInv, BufferInv, FlowInv, HttpInv, FailedInv, Kind, CallInv'
  PROVE  FailedInv'
<1>1. CASE ReadStep
  <2>1. Out' = Out /\ UNCHANGED <<given, call, offset, pc, failed>>
    BY <1>1, ReadFacts DEF ReadStep
  <2>2. QED
    BY <2>1 DEF FailedInv
<1>2. QED
  BY <1>1, FailedQuiet, FailedSends, FailedSend DEF Kind

-----------------------------------------------------------------------------
(* What may be written when                                                *)

LEMMA SendsElements ==
  ASSUME BufferInv, NEW data \in Data, Sends(data), NEW i \in DOMAIN given'
  PROVE  /\ i \in Nat /\ Len(given) \in Nat
         /\ \/ i \in DOMAIN given /\ given'[i] = given[i]
            \/ \E m \in DOMAIN data : i = Len(given) + m /\ given'[i] = data[m]
<1>1. given \in Seq(Words) /\ data \in Seq(Words) /\ given' = given \o data
  BY DataType DEF BufferInv, Sends
<1>2. Len(given) \in Nat /\ Len(data) \in Nat /\ i \in 1 .. Len(given) + Len(data)
  BY <1>1, ConcatProperties
<1>3. CASE i <= Len(given)
  BY <1>1, <1>2, <1>3
<1>4. CASE i > Len(given)
  <2>1. PICK m \in 1 .. Len(data) : m = i - Len(given)
    BY <1>2, <1>4
  <2>2. given'[i] = data[m] /\ i = Len(given) + m /\ m \in DOMAIN data
    BY <1>1, <1>2, <1>4, <2>1
  <2>3. QED
    BY <1>2, <2>2
<1>5. QED
  BY <1>2, <1>3, <1>4

LEMMA DataWords ==
  ASSUME NEW data \in Data, NEW m \in DOMAIN data
  PROVE  /\ data \in {<<"response1", "response2">>, <<"error">>} => data[m] \in HttpWords
         /\ data \in {<<"text">>, <<"pong">>, <<"close">>} => data[m] \in WebSocketWords
         /\ data # <<"response1", "response2">> => m = 1
         /\ data # <<"close">> => data[m] # "close"
  BY DEF Data, HttpWords, WebSocketWords

LEMMA WordsSends ==
  ASSUME CallInv, BufferInv, HttpInv, WordsInv, NEW data \in Data, Sends(data)
  PROVE  WordsInv'
<1>1. pc' # "upgraded" /\ UNCHANGED websocketProtocol
  BY DEF Sends
<1>2. ASSUME ~websocketProtocol', NEW i \in DOMAIN given' PROVE given'[i] \in HttpWords
  <2>1. data \in {<<"response1", "response2">>, <<"error">>}
    BY <1>2 DEF Sends, Data, CallInv
  <2>2. \A m \in DOMAIN data : data[m] \in HttpWords
    BY <2>1, DataWords
  <2>3. QED
    BY <1>1, <1>2, <2>2, SendsElements DEF WordsInv
<1>3. ASSUME websocketProtocol', NEW i \in DOMAIN given', i > 1
      PROVE  given'[i] \in WebSocketWords
  <2>1. CASE data = <<"handshake">>
    <3>1. given = <<>> /\ Len(given) = 0
      BY <2>1 DEF Sends, WordsInv
    <3>2. \A m \in DOMAIN data : m = 1
      BY <2>1
    <3>3. QED
      BY <1>3, <3>1, <3>2, SendsElements
  <2>2. CASE data # <<"handshake">>
    <3>1. data \in {<<"text">>, <<"pong">>, <<"close">>}
      BY <1>1, <1>3, <2>2 DEF Sends, Data
    <3>2. \A m \in DOMAIN data : data[m] \in WebSocketWords
      BY <3>1, DataWords
    <3>3. QED
      BY <1>1, <1>3, <3>2, SendsElements DEF WordsInv
  <2>3. QED
    BY <2>1, <2>2
<1>4. ASSUME data # <<"close">>, NEW i \in DOMAIN given', given'[i] = "close"
      PROVE  i \in DOMAIN given /\ given[i] = "close"
  BY <1>4, SendsElements, DataWords
<1>5. ASSUME data = <<"close">>, NEW i \in DOMAIN given', given'[i] = "close"
      PROVE  i = Len(given) + 1
  <2>1. \A m \in DOMAIN data : m = 1
    BY <1>5
  <2>2. ~closeSent
    BY <1>5 DEF Sends
  <2>3. \A l \in DOMAIN given : given[l] # "close"
    BY <2>2 DEF WordsInv
  <2>4. QED
    BY <1>5, <2>1, <2>3, SendsElements
<1>6. ASSUME ~closeSent', NEW i \in DOMAIN given' PROVE given'[i] # "close"
  <2>1. data # <<"close">> /\ ~closeSent
    BY <1>6 DEF Sends
  <2>2. QED
    BY <1>4, <1>6, <2>1 DEF WordsInv
<1>7. OneCloseFrame'
  <2> SUFFICES ASSUME NEW i \in DOMAIN given', NEW j \in DOMAIN given',
                      given'[i] = "close", given'[j] = "close"
               PROVE  i = j
    BY DEF OneCloseFrame
  <2>1. CASE data = <<"close">>
    BY <1>5, <2>1
  <2>2. CASE data # <<"close">>
    BY <1>4, <2>2 DEF WordsInv, OneCloseFrame
  <2>3. QED
    BY <2>1, <2>2
<1>8. QED
  BY <1>1, <1>2, <1>3, <1>6, <1>7 DEF WordsInv

LEMMA WordsNext ==
  ASSUME CallInv, BufferInv, HttpInv, WordsInv, Kind
  PROVE  WordsInv'
<1>1. CASE QuietStep
  <2>1. given' = given /\ (~closeSent' => ~closeSent)
    BY <1>1 DEF QuietStep
  <2>2. ~websocketProtocol /\ pc = "headers" => given = <<>>
    BY DEF HttpInv, Unanswered
  <2>3. ~websocketProtocol' => ~websocketProtocol
    BY <1>1 DEF QuietStep
  <2>4. pc' = "upgraded" => given = <<>>
    BY <1>1, <2>2 DEF QuietStep, CallInv, WordsInv
  <2>5. websocketProtocol' => websocketProtocol \/ given = <<>>
    BY <1>1, <2>2 DEF QuietStep
  <2>6. given = <<>> => DOMAIN given = {}
    OBVIOUS
  <2>7. QED
    BY <2>1, <2>3, <2>4, <2>5, <2>6 DEF WordsInv, OneCloseFrame
<1>2. CASE ReadStep
  <2>1. UNCHANGED <<given, websocketProtocol, pc, closeSent>>
    BY <1>2, ReadFacts DEF ReadStep, ws
  <2>2. QED
    BY <2>1 DEF WordsInv, OneCloseFrame
<1>3. CASE SendStep
  <2>1. UNCHANGED <<given, websocketProtocol, pc, closeSent>>
    BY <1>3, SendCalls DEF SendStep, ws
  <2>2. QED
    BY <2>1 DEF WordsInv, OneCloseFrame
<1>4. QED
  BY <1>1, <1>2, <1>3, WordsSends DEF Kind

-----------------------------------------------------------------------------
(* The theorems                                                            *)

LEMMA IInvInit ==
  Init => IInv
<1> SUFFICES ASSUME Init PROVE IInv
  OBVIOUS
<1>1. /\ pc = "start" /\ call = "none" /\ closed = FALSE /\ websocketProtocol = FALSE
      /\ failed = FALSE /\ offset = 0
  BY DEF Init, SocketInit
<1>2. got = <<>> /\ tx = <<>> /\ given = <<>> /\ writeBuffer = <<>>
  BY DEF Init, SocketInit
<1>3. <<>> \in Seq(Words) /\ Len(<<>>) = 0 /\ DOMAIN <<>> = {}
  OBVIOUS
<1>4. CallInv
  BY <1>1 DEF CallInv, Pcs, Calls
<1>5. BufferInv
  BY <1>1, <1>2, <1>3 DEF BufferInv
<1>6. FlowInv
  <2>1. Out = <<>>
    BY <1>2 DEF Out
  <2>2. Owed = <<>>
    BY <1>1, <1>2, <1>5, BufferFacts
  <2>3. Out \o Owed = given
    BY <1>2, <2>1, <2>2
  <2>4. QED
    BY <1>1, <1>2, <2>3 DEF FlowInv, SendThrew
<1>7. HttpInv /\ FailedInv
  BY <1>1, <1>2 DEF HttpInv, FailedInv
<1>8. WordsInv
  BY <1>1, <1>2, <1>3 DEF WordsInv, OneCloseFrame
<1>9. QED
  BY <1>4, <1>5, <1>6, <1>7, <1>8 DEF IInv

LEMMA IInvNext ==
  IInv /\ [Next]_vars => IInv'
<1> SUFFICES ASSUME IInv, [Next]_vars PROVE IInv'
  OBVIOUS
<1>1. CallInv'
  BY CallNext DEF IInv
<1>2. Kind
  BY <1>1, Kinds DEF IInv
<1>3. BufferInv'
  BY <1>2, BufferNext DEF IInv
<1>4. FlowInv'
  BY <1>2, <1>3, FlowNext DEF IInv
<1>5. HttpInv'
  BY <1>2, HttpNext DEF IInv
<1>6. FailedInv'
  BY <1>1, <1>2, FailedNext DEF IInv
<1>7. WordsInv'
  BY <1>2, WordsNext DEF IInv
<1>8. QED
  BY <1>1, <1>3, <1>4, <1>5, <1>6, <1>7 DEF IInv

LEMMA IInvAlways ==
  Spec => []IInv
<1>1. QED
  BY IInvInit, IInvNext, PTL DEF Spec

(* What the client gets is what send() was given, in order and nothing     *)
(* twice, and all of it once send() has returned: the erasing of what was  *)
(* written, whole or in part, never loses and never repeats, until a       *)
(* send() throws.                                                          *)
THEOREM NothingIsLostNorRepeated == Spec => []NothingLostNorRepeated
<1>1. IInv => NothingLostNorRepeated
  <2> SUFFICES ASSUME IInv, ~failed
               PROVE  /\ IsPrefix(Out, given)
                      /\ call \in {"none", "receive"} /\ ~closed => Out = given
    BY DEF NothingLostNorRepeated, Out
  <2>1. IsPrefix(Out, given)
    BY PrefixOfGiven DEF IInv, FlowInv
  <2>2. ASSUME call \in {"none", "receive"}, ~closed PROVE Out = given
    <3>1. Out \o Owed = given /\ writeBuffer = <<>>
      BY <2>2 DEF IInv, FlowInv, SendThrew
    <3>2. Out \in Seq(Words) /\ Owed = <<>>
      BY <2>2, <3>1, BufferFacts DEF IInv
    <3>3. Out \o <<>> = Out
      BY <3>2, ConcatEmptySeq
    <3>4. QED
      BY <3>1, <3>2, <3>3
  <2>3. QED
    BY <2>1, <2>2
<1>2. QED
  BY <1>1, IInvAlways, PTL

(* A send() that throws leaves writeBuffer as it was, so the error answer  *)
(* begins again with what was written: a beginning of the answer and then  *)
(* a beginning of all that was given, never more, and not on a WebSocket.  *)
THEOREM FailedAnswersAreRepeatedOnce == Spec => []FailedAnswerIsRepeatedOnce
<1>1. IInv => FailedAnswerIsRepeatedOnce
  <2> SUFFICES ASSUME IInv, failed
               PROVE  /\ ~websocketProtocol
                      /\ \E k \in 0 .. Len(given) :
                           IsPrefix(Out, SubSeq(given, 1, k) \o given)
    BY DEF FailedAnswerIsRepeatedOnce, Out
  <2>1. ~websocketProtocol
    BY DEF IInv, CallInv
  <2>2. PICK k, j \in 0 .. Len(given) : Out = SubSeq(given, 1, k) \o SubSeq(given, 1, j)
    BY DEF IInv, FailedInv
  <2>3. given \in Seq(Words) /\ Len(given) \in Nat
    BY DEF IInv, BufferInv
  <2> DEFINE a == SubSeq(given, 1, k)
             b == SubSeq(given, 1, j)
             w == a \o given
  <2>4. a \in Seq(Words) /\ Len(a) = k
    <3>1. \A i \in 1 .. k : given[i] \in Words
      BY <2>3, ElementOfSeq
    <3>2. QED
      BY <2>3, <3>1, SubSeqProperties
  <2>5. b \in Seq(Words) /\ Len(b) = j /\ \A i \in 1 .. j : b[i] = given[i]
    <3>1. \A i \in 1 .. j : given[i] \in Words
      BY <2>3, ElementOfSeq
    <3>2. QED
      BY <2>3, <3>1, SubSeqProperties
  <2>6. Out = a \o b
    BY <2>2
  <2> HIDE DEF a, b
  <2>7. /\ w \in Seq(Words) /\ Len(w) = k + Len(given)
        /\ Out \in Seq(Words) /\ Len(Out) = k + j
    BY <2>3, <2>4, <2>5, <2>6, ConcatProperties
  <2>8. ASSUME NEW i \in 1 .. k + j PROVE Out[i] = w[i]
    <3>1. CASE i <= k
      BY <2>3, <2>4, <2>5, <2>6, <3>1
    <3>2. CASE i > k
      <4>1. PICK m \in 1 .. j : m = i - k
        BY <3>2
      <4>2. Out[i] = b[m] /\ w[i] = given[m]
        BY <2>3, <2>4, <2>5, <2>6, <3>2, <4>1
      <4>3. QED
        BY <2>5, <4>2
    <3>3. k \in Nat /\ j \in Nat
      BY <2>3
    <3>4. i <= k \/ i > k
      BY <3>3
    <3>5. QED
      BY <3>1, <3>2, <3>4
  <2> HIDE DEF w
  <2>9. Len(Out) <= Len(w) /\ k + j \in Nat
    BY <2>3, <2>7
  <2>10. SubSeq(Out, 1, Len(Out)) = SubSeq(w, 1, Len(Out))
    <3>1. SubSeq(Out, 1, Len(Out)) = Out
      BY <2>7, SubSeqFull
    <3>2. \A i \in 1 .. k + j : w[i] \in Words
      BY <2>3, <2>7, ElementOfSeq
    <3> DEFINE v == SubSeq(w, 1, k + j)
    <3>3. v \in Seq(Words) /\ Len(v) = k + j /\ \A i \in 1 .. k + j : v[i] = w[i]
      BY <2>7, <2>9, <3>2, SubSeqProperties
    <3> HIDE DEF v
    <3>4. Out = v
      BY <2>7, <2>8, <3>3, SeqEqual
    <3>5. QED
      BY <2>7, <3>1, <3>4 DEF v
  <2>11. IsPrefix(Out, w)
    BY <2>9, <2>10 DEF IsPrefix
  <2>12. QED
    BY <2>1, <2>11 DEF w, a
<1>2. QED
  BY <1>1, IInvAlways, PTL

(* close(), closeAndWait() and receive() together send one Close frame at  *)
(* most: closeSent is set in the same call, before anything can throw.     *)
THEOREM CloseFramesAreOne == Spec => []OneCloseFrame
<1>1. IInv => OneCloseFrame
  BY DEF IInv, WordsInv
<1>2. QED
  BY <1>1, IInvAlways, PTL

(* After the handshake nothing but frames is written: the error answer of  *)
(* Jail::process never lands on a WebSocket.                               *)
THEOREM WebSocketsCarryNoHttp == Spec => []NoHttpOnWebSocket
<1>1. IInv => NoHttpOnWebSocket
  <2> SUFFICES ASSUME IInv, NEW i \in DOMAIN given, NEW j \in DOMAIN given,
                      i < j, given[i] = "handshake"
               PROVE  given[j] \in WebSocketWords
    BY DEF NoHttpOnWebSocket, WebSocketWords
  <2>1. "handshake" \notin HttpWords
    BY DEF HttpWords
  <2>2. websocketProtocol
    BY <2>1 DEF IInv, WordsInv
  <2>3. j > 1
    BY DEF IInv, BufferInv
  <2>4. QED
    BY <2>2, <2>3 DEF IInv, WordsInv
<1>2. QED
  BY <1>1, IInvAlways, PTL

-----------------------------------------------------------------------------
(* What arrives, by the steps that touch it.                               *)

(* Frames and headers are taken from the connection until it is given up.  *)
Reading ==
  /\ pc \in {"start", "headers", "upgraded", "loop", "decode", "wait", "waitDecode"}
  /\ call # "threw"

MessageKeeps == UNCHANGED <<sent, receiveBuffer, previous_data, lFrameType, delivered>>

IdleStep ==
  /\ MessageKeeps /\ UNCHANGED <<rx, readBuffer, header>> /\ ret' \in {ret, <<>>}
  /\ Reading' =>
       /\ Reading
       /\ \/ UNCHANGED <<pc, ret>> /\ (call' # "none" => call # "none")
          \/ pc = "headers" /\ header /\ pc' = "upgraded" /\ UNCHANGED ret
          \/ pc \in {"upgraded", "loop"} /\ pc' \in {"loop", "wait"} /\ ret' = <<>>

StartStep(n) ==
  /\ ReceiveStarts(n)
  /\ MessageKeeps
  /\ \/ pc = "start" /\ pc' = "headers" /\ n = HeadersSize
     \/ pc = "headers" /\ pc' = "body" /\ n = 2
     \/ pc = "loop" /\ pc' = "decode" /\ n = 0
     \/ pc = "wait" /\ pc' = "waitDecode" /\ n = 0

ReceiveStep == Receive /\ MessageKeeps /\ UNCHANGED pc

(* The bytes of a frame that is not complete wait in receiveBuffer.        *)
PartStep ==
  /\ pc \in {"decode", "waitDecode"} /\ pc' \in {"loop", "wait"} /\ call = "none"
  /\ call' = "none" /\ receiveBuffer' = Buffered /\ ret' = <<>>
  /\ UNCHANGED <<sent, rx, readBuffer, header, previous_data, lFrameType, delivered>>

FrameStep(n, t) ==
  /\ Frame(n, sent[n], t)
  /\ ret' = <<>> /\ UNCHANGED <<sent, rx, readBuffer, header>>
  /\ \/ /\ t = "text" /\ pc' \in {"loop", "wait"} /\ call' = "none"
        /\ delivered' = IF sent[n].fin THEN Append(delivered, Append(previous_data, n))
                        ELSE delivered
        /\ previous_data' = IF sent[n].fin THEN <<>> ELSE Append(previous_data, n)
        /\ Len(previous_data') <= MaxFragments
     \/ /\ t \in {"ping", "pong"} /\ pc' \in {"loop", "wait"}
        /\ UNCHANGED <<delivered, previous_data>>
     \/ pc' = "shut" /\ previous_data' \in {previous_data, <<>>} /\ UNCHANGED delivered

ClientStep(m) ==
  /\ PeerSends(m) /\ UNCHANGED <<pc, ws>>

ArrivalKind ==
  \/ IdleStep
  \/ \E n \in {0, 2} : StartStep(n)
  \/ ReceiveStep
  \/ PartStep
  \/ \E n \in DOMAIN sent, t \in FrameType : FrameStep(n, t)
  \/ \E m \in Message : ClientStep(m)

LEMMA CloseArrives ==
  ASSUME CallInv, call = "none", Close
  PROVE  ret' = <<>> /\ UNCHANGED <<sent, rx, readBuffer, header>>
  BY DEF Close, Used, SendStarts, network

LEMMA ArrivalKinds ==
  ASSUME CallInv, CallInv', [Next]_vars
  PROVE  ArrivalKind
<1> USE DEF Ready, Goto, ws, MessageKeeps
<1>1. CASE ReadHeaders \/ ReceiveBody \/ AppReceives
  <2>1. \E n \in {0, 2} : StartStep(n)
    BY <1>1 DEF ReadHeaders, ReceiveBody, AppReceives, ReceiveStarts, network, StartStep,
       HeadersSize
  <2>2. QED
    BY <2>1 DEF ArrivalKind
<1>2. CASE NoRequest \/ Upgrade \/ RequestThrows \/ Catch
  <2>1. IdleStep
    BY <1>2 DEF NoRequest, Upgrade, RequestThrows, Catch, Used, network, IdleStep, Reading
  <2>2. QED
    BY <2>1 DEF ArrivalKind
<1>3. CASE Shut \/ WaitEnds \/ LoopEnds
  <2>1. IdleStep
    BY <1>3 DEF Shut, WaitEnds, LoopEnds, Shutdown, socket, network, IdleStep, Reading
  <2>2. QED
    BY <2>1 DEF ArrivalKind
<1>4. CASE Reply \/ Handshake \/ AppSends
  <2>1. IdleStep
    BY <1>4 DEF Reply, Handshake, AppSends, SendStarts, network, IdleStep, Reading
  <2>2. QED
    BY <2>1 DEF ArrivalKind
<1>5. CASE SendCode
  <2>1. IdleStep
    BY <1>5 DEF SendCode, SendStarts, socket, network, IdleStep, Reading
  <2>2. QED
    BY <2>1 DEF ArrivalKind
<1>6. CASE AppCloses \/ AppClosesAndWaits
  <2>1. call = "none" /\ Close /\ pc = "loop" /\ pc' \in {"loop", "wait"} /\ UNCHANGED failed
    BY <1>6 DEF AppCloses, AppClosesAndWaits
  <2>2. UNCHANGED <<receiveBuffer, previous_data, lFrameType, delivered>>
    BY <1>6 DEF AppCloses, AppClosesAndWaits
  <2>3. IdleStep
    BY <2>1, <2>2, CloseArrives DEF IdleStep, Reading
  <2>4. QED
    BY <2>3 DEF ArrivalKind
<1>7. CASE WaitRound
  <2>1. CASE ReceiveStarts(0) /\ pc' = "waitDecode"
    <3>1. StartStep(0)
      BY <1>7, <2>1 DEF WaitRound, ReceiveStarts, network, StartStep
    <3>2. QED
      BY <3>1 DEF ArrivalKind
  <2>2. CASE UNCHANGED <<socket, pc>>
    <3>1. IdleStep
      BY <1>7, <2>2 DEF WaitRound, socket, IdleStep, Reading
    <3>2. QED
      BY <3>1 DEF ArrivalKind
  <2>3. QED
    BY <1>7, <2>1, <2>2 DEF WaitRound
<1>8. CASE FrameIncomplete
  <2>1. PartStep
    BY <1>8 DEF FrameIncomplete, Decoding, Back, Used, network, PartStep
  <2>2. QED
    BY <2>1 DEF ArrivalKind
<1>9. ASSUME NEW n \in DOMAIN sent, NEW t \in FrameType,
             \/ DataFrame(n, sent[n], t) \/ PongFrame(n, sent[n], t)
             \/ PingFrame(n, sent[n], t)
             \/ DataFrameRefused(n, sent[n], t) \/ CloseFrame(n, sent[n], t)
      PROVE  ArrivalKind
  <2>0. Frame(n, sent[n], t) /\ pc \in {"decode", "waitDecode"} /\ call = "none"
    BY <1>9 DEF DataFrame, PongFrame, PingFrame, DataFrameRefused, CloseFrame, Frame, Decoding
  <2>1. CASE DataFrame(n, sent[n], t)
    <3>1. FrameStep(n, t)
      BY <2>0, <2>1 DEF DataFrame, Back, Used, network, FrameStep
    <3>2. QED
      BY <3>1 DEF ArrivalKind
  <2>2. CASE PongFrame(n, sent[n], t) \/ PingFrame(n, sent[n], t)
    <3>1. FrameStep(n, t)
      BY <2>0, <2>2 DEF PongFrame, PingFrame, Back, Used, SendStarts, network, FrameStep
    <3>2. QED
      BY <3>1 DEF ArrivalKind
  <2>3. CASE DataFrameRefused(n, sent[n], t) \/ CloseFrame(n, sent[n], t)
    <3>1. /\ Close /\ pc' = "shut" /\ UNCHANGED delivered
          /\ previous_data' \in {previous_data, <<>>}
      BY <2>3 DEF DataFrameRefused, CloseFrame
    <3>2. FrameStep(n, t)
      BY <2>0, <3>1, CloseArrives DEF FrameStep
    <3>3. QED
      BY <3>2 DEF ArrivalKind
  <2>4. QED
    BY <1>9, <2>1, <2>2, <2>3
<1>10. CASE SocketCall
  <2>1. CASE Receive
    <3>1. ReceiveStep
      BY <1>10, <2>1 DEF SocketCall, ReceiveStep, Receive, ReceiveGets, ReceiveTimesOut,
         ReceiveMeetsEnd, ReceiveFindsNothing, ReceiveReads, network
    <3>2. QED
      BY <3>1 DEF ArrivalKind
  <2>2. CASE Send
    <3>1. IdleStep
      BY <1>10, <2>2 DEF SocketCall, Send, SendTimesOut, SendFails, SendWrites, network,
         IdleStep, Reading
    <3>2. QED
      BY <3>1 DEF ArrivalKind
  <2>3. QED
    BY <1>10, <2>1, <2>2 DEF SocketCall
<1>11. CASE World
  <2>1. ASSUME NEW m \in Message, PeerSends(m) PROVE ArrivalKind
    <3>1. ClientStep(m)
      BY <1>11, <2>1 DEF World, ClientStep
    <3>2. QED
      BY <3>1 DEF ArrivalKind
  <2>2. CASE ~ \E m \in Message : PeerSends(m)
    <3>1. IdleStep
      BY <1>11, <2>2 DEF World, PeerReads, PeerLeaves, TimePasses, network, IdleStep, Reading
    <3>2. QED
      BY <3>1 DEF ArrivalKind
  <2>3. QED
    BY <2>1, <2>2
<1>12. CASE UNCHANGED vars
  <2>1. IdleStep
    BY <1>12 DEF vars, IdleStep, Reading
  <2>2. QED
    BY <2>1 DEF ArrivalKind
<1>13. QED
  BY <1>1, <1>2, <1>3, <1>4, <1>5, <1>6, <1>7, <1>8, <1>9, <1>10, <1>11, <1>12
     DEF Next, Http, Closing, Decode

-----------------------------------------------------------------------------
(* The types                                                               *)

(* What the client has sent, and where it is.                              *)
ArrivalTypes ==
  /\ sent \in Seq(Message) /\ Len(sent) <= MaxMessages
  /\ \A n \in DOMAIN sent : ~sent[n].fin => sent[n].op \in {"text", "cont"}
  /\ sent # <<>> => sent[1].op \notin {"text", "cont"}
  /\ rx \in Seq(Unit) /\ readBuffer \in Seq(Unit) /\ ret \in Seq(Unit)
  /\ receiveBuffer \in Seq(Unit)
  /\ previous_data \in Seq(1 .. MaxMessages) /\ Len(previous_data) <= MaxFragments
  /\ delivered \in Seq(Seq(1 .. MaxMessages))
  /\ lFrameType \in FrameType \cup {"none"}
  /\ header \in BOOLEAN

LEMMA SubSeqType ==
  ASSUME NEW S, NEW s \in Seq(S), NEW i \in Nat \ {0}, NEW j \in Nat, j <= Len(s)
  PROVE  SubSeq(s, i, j) \in Seq(S)
<1>1. \A k \in i .. j : s[k] \in S
  BY ElementOfSeq
<1>2. QED
  BY <1>1, SubSeqProperties

LEMMA StartTypes ==
  ASSUME ArrivalTypes, NEW n \in {0, 2}, StartStep(n)
  PROVE  ArrivalTypes'
<1>1. /\ UNCHANGED <<sent, rx, receiveBuffer, previous_data, delivered, lFrameType, header>>
      /\ \/ ret' = readBuffer /\ readBuffer' = <<>>
         \/ /\ n = 2 /\ Len(readBuffer) >= 2 /\ ret' = SubSeq(readBuffer, 1, 2)
            /\ readBuffer' = SubSeq(readBuffer, 3, Len(readBuffer))
         \/ UNCHANGED <<ret, readBuffer>>
  <2>1. /\ UNCHANGED <<sent, rx, receiveBuffer, previous_data, delivered, lFrameType, header>>
        /\ \/ ret' = readBuffer /\ readBuffer' = <<>>
           \/ /\ n > 0 /\ Len(readBuffer) >= n /\ ret' = SubSeq(readBuffer, 1, n)
              /\ readBuffer' = SubSeq(readBuffer, n + 1, Len(readBuffer))
           \/ UNCHANGED <<ret, readBuffer>>
    BY DEF StartStep, ReceiveStarts, Return, network, MessageKeeps
  <2>2. n > 0 => n = 2 /\ n + 1 = 3
    OBVIOUS
  <2>3. QED
    BY <2>1, <2>2
<1>2. ret' \in Seq(Unit) /\ readBuffer' \in Seq(Unit)
  <2>1. <<>> \in Seq(Unit) /\ readBuffer \in Seq(Unit) /\ Len(readBuffer) \in Nat
    BY DEF ArrivalTypes
  <2>2. CASE Len(readBuffer) >= 2
    <3>1. SubSeq(readBuffer, 1, 2) \in Seq(Unit)
          /\ SubSeq(readBuffer, 3, Len(readBuffer)) \in Seq(Unit)
      BY <2>1, <2>2, SubSeqType
    <3>2. QED
      BY <1>1, <2>1, <3>1 DEF ArrivalTypes
  <2>3. QED
    BY <1>1, <2>1, <2>2 DEF ArrivalTypes
<1>3. QED
  BY <1>1, <1>2 DEF ArrivalTypes

(* A turn of receive(): units move from rx to readBuffer and on to the     *)
(* caller, and the headers leave with the first two.                       *)
LEMMA ReceiveMoves ==
  ASSUME CallInv, ArrivalTypes, ReceiveStep
  PROVE  /\ call = "receive" /\ MessageKeeps /\ UNCHANGED pc
         /\ \/ UNCHANGED <<rx, readBuffer, header>> /\ ret' = <<>> /\ call' \in {"none", "threw"}
            \/ UNCHANGED <<rx, header>> /\ ret' = readBuffer /\ readBuffer' = <<>> /\ call' = "none"
            \/ \E k \in 1 .. Len(rx) :
                 LET all == readBuffer \o SubSeq(rx, 1, k) IN
                 /\ rx' = SubSeq(rx, k + 1, Len(rx))
                 /\ \/ UNCHANGED header /\ ret' = all /\ readBuffer' = <<>> /\ call' = "none"
                    \/ UNCHANGED <<header, ret, call>> /\ readBuffer' = all
                    \/ /\ ~header /\ header' = TRUE /\ ret' = <<>> /\ Len(all) >= 2
                       /\ \/ call' = "threw" /\ readBuffer' = all
                          \/ call' = "none" /\ readBuffer' = SubSeq(all, 3, Len(all))
<1> USE DEF ReceiveStep, MessageKeeps, network, Return, Throw, ReceiveBreaks
<1>1. CASE ReceiveTimesOut
  BY <1>1 DEF ReceiveTimesOut
<1>2. CASE ReceiveMeetsEnd
  BY <1>2 DEF ReceiveMeetsEnd
<1>3. CASE ReceiveFindsNothing
  BY <1>3 DEF ReceiveFindsNothing
<1>4. ASSUME NEW k \in 1 .. Len(rx), NEW hup \in BOOLEAN, ReceiveReads(k, hup)
      PROVE  LET all == readBuffer \o SubSeq(rx, 1, k) IN
             /\ call = "receive"
             /\ rx' = SubSeq(rx, k + 1, Len(rx))
             /\ \/ UNCHANGED header /\ ret' = all /\ readBuffer' = <<>> /\ call' = "none"
                \/ UNCHANGED <<header, ret, call>> /\ readBuffer' = all
                \/ /\ ~header /\ header' = TRUE /\ ret' = <<>> /\ Len(all) >= 2
                   /\ \/ call' = "threw" /\ readBuffer' = all
                      \/ call' = "none" /\ readBuffer' = SubSeq(all, 3, Len(all))
  BY <1>4, SMTT(30) DEF ReceiveReads, HeadersSize
<1>5. QED
  BY <1>1, <1>2, <1>3, <1>4 DEF Receive, ReceiveGets

LEMMA ReceiveTypes ==
  ASSUME CallInv, ArrivalTypes, ReceiveStep
  PROVE  ArrivalTypes'
<1>0. <<>> \in Seq(Unit) /\ readBuffer \in Seq(Unit) /\ rx \in Seq(Unit) /\ ret \in Seq(Unit)
      /\ Len(rx) \in Nat
  BY DEF ArrivalTypes
<1>1. rx' \in Seq(Unit) /\ readBuffer' \in Seq(Unit) /\ ret' \in Seq(Unit) /\ header' \in BOOLEAN
  <2>1. CASE UNCHANGED rx /\ UNCHANGED header /\ ret' \in {<<>>, readBuffer}
             /\ readBuffer' \in {<<>>, readBuffer}
    BY <1>0, <2>1 DEF ArrivalTypes
  <2>2. ASSUME NEW k \in 1 .. Len(rx), NEW all, all = readBuffer \o SubSeq(rx, 1, k),
               rx' = SubSeq(rx, k + 1, Len(rx)), header' \in {header, TRUE},
               \/ ret' \in {all, ret, <<>>} /\ readBuffer' \in {<<>>, all}
               \/ ret' = <<>> /\ Len(all) >= 2 /\ readBuffer' = SubSeq(all, 3, Len(all))
        PROVE  /\ rx' \in Seq(Unit) /\ readBuffer' \in Seq(Unit) /\ ret' \in Seq(Unit)
               /\ header' \in BOOLEAN
    <3>1. SubSeq(rx, 1, k) \in Seq(Unit) /\ SubSeq(rx, k + 1, Len(rx)) \in Seq(Unit)
      BY <1>0, SubSeqType
    <3>2. all \in Seq(Unit) /\ Len(all) \in Nat
      BY <1>0, <2>2, <3>1, ConcatProperties
    <3>3. SubSeq(all, 3, Len(all)) \in Seq(Unit)
      BY <3>2, SubSeqType
    <3>4. QED
      BY <1>0, <2>2, <3>1, <3>2, <3>3 DEF ArrivalTypes
  <2>3. QED
    BY <2>1, <2>2, ReceiveMoves
<1>2. QED
  BY <1>1, ReceiveMoves DEF ArrivalTypes, MessageKeeps

LEMMA BufferedFacts ==
  ASSUME ArrivalTypes
  PROVE  /\ Buffered \in Seq(Unit) /\ Len(Buffered) \in Nat
         /\ SubSeq(Buffered, 3, Len(Buffered)) \in Seq(Unit)
<1>1. Buffered \in Seq(Unit)
  BY ConcatProperties DEF ArrivalTypes, Buffered
<1>2. PICK b \in Seq(Unit) : b = Buffered
  BY <1>1
<1>3. Len(b) \in Nat /\ SubSeq(b, 3, Len(b)) \in Seq(Unit)
  BY SubSeqType
<1>4. QED
  BY <1>2, <1>3

LEMMA FrameTypes ==
  ASSUME ArrivalTypes, NEW n \in DOMAIN sent, NEW t \in FrameType, FrameStep(n, t)
  PROVE  ArrivalTypes'
<1>1. receiveBuffer' \in Seq(Unit) /\ lFrameType' = t
  BY BufferedFacts DEF FrameStep, Frame
<1>2. n \in 1 .. MaxMessages
  BY SocketAssumption DEF ArrivalTypes
<1>3. PICK p \in Seq(1 .. MaxMessages) : p = previous_data
  BY DEF ArrivalTypes
<1>4. Append(p, n) \in Seq(1 .. MaxMessages) /\ <<>> \in Seq(1 .. MaxMessages)
  BY <1>2, AppendProperties
<1>5. Append(delivered, Append(p, n)) \in Seq(Seq(1 .. MaxMessages))
  BY <1>4, AppendProperties DEF ArrivalTypes
<1>6. 0 <= MaxFragments /\ Len(<<>>) = 0
  BY WebSocketAssumption
<1>7. /\ previous_data' \in Seq(1 .. MaxMessages) /\ Len(previous_data') <= MaxFragments
      /\ delivered' \in Seq(Seq(1 .. MaxMessages))
  BY <1>3, <1>4, <1>5, <1>6 DEF FrameStep, ArrivalTypes
<1>8. UNCHANGED <<sent, rx, readBuffer, header>> /\ ret' = <<>> /\ <<>> \in Seq(Unit)
  BY DEF FrameStep
<1>9. QED
  BY <1>1, <1>7, <1>8 DEF ArrivalTypes

LEMMA ClientFacts ==
  ASSUME ArrivalTypes, NEW m \in Message, ClientStep(m)
  PROVE  /\ sent' = Append(sent, m) /\ rx' = rx \o Units(Len(sent) + 1)
         /\ sent' \in Seq(Message) /\ Len(sent') = Len(sent) + 1 /\ Len(sent) < MaxMessages
         /\ \A i \in DOMAIN sent : sent'[i] = sent[i] /\ i \in DOMAIN sent'
         /\ sent'[Len(sent) + 1] = m
         /\ UNCHANGED <<readBuffer, header, call, ret, pc, receiveBuffer, previous_data,
                        lFrameType, delivered>>
<1>1. /\ sent' = Append(sent, m) /\ rx' = rx \o Units(Len(sent) + 1) /\ Len(sent) < MaxMessages
      /\ UNCHANGED <<readBuffer, header, call, ret, pc, receiveBuffer, previous_data,
                     lFrameType, delivered>>
  BY DEF ClientStep, PeerSends, ws
<1>2. sent \in Seq(Message) /\ Len(sent) \in Nat /\ DOMAIN sent = 1 .. Len(sent)
  BY DEF ArrivalTypes
<1>3. /\ Append(sent, m) \in Seq(Message) /\ Len(Append(sent, m)) = Len(sent) + 1
      /\ \A i \in 1 .. Len(sent) : Append(sent, m)[i] = sent[i]
      /\ Append(sent, m)[Len(sent) + 1] = m
  BY <1>2, AppendProperties
<1>4. QED
  BY <1>1, <1>2, <1>3

LEMMA UnitsType ==
  ASSUME NEW n \in 1 .. MaxMessages
  PROVE  /\ Units(n) \in Seq(Unit) /\ Len(Units(n)) = 2
         /\ Units(n)[1].n = n /\ Units(n)[2].n = n
<1>1. [n |-> n, part |-> 1] \in Unit /\ [n |-> n, part |-> 2] \in Unit
  BY DEF Unit
<1>2. \A a \in Unit, b \in Unit : /\ <<a, b>> \in Seq(Unit) /\ Len(<<a, b>>) = 2
                               /\ <<a, b>>[1] = a /\ <<a, b>>[2] = b
  OBVIOUS
<1>3. QED
  BY <1>1, <1>2 DEF Units

LEMMA ClientTypes ==
  ASSUME ArrivalTypes, NEW m \in Message, ClientStep(m)
  PROVE  ArrivalTypes'
<1>1. Len(sent) \in Nat /\ Len(sent) + 1 \in 1 .. MaxMessages
  BY ClientFacts, SocketAssumption DEF ArrivalTypes
<1>2. rx' \in Seq(Unit)
  <2>1. PICK u \in Seq(Unit) : u = Units(Len(sent) + 1)
    BY <1>1, UnitsType
  <2>2. rx \o u \in Seq(Unit)
    BY ConcatProperties DEF ArrivalTypes
  <2>3. QED
    BY <2>1, <2>2, ClientFacts
<1>3. /\ ~m.fin => m.op \in {"text", "cont"}
      /\ sent = <<>> => m.op \notin {"text", "cont"}
  <2>1. ClientMay(m) /\ m.fin \in BOOLEAN
    BY DEF ClientStep, PeerSends, Message
  <2>2. CASE sent = <<>>
    <3>1. m.fin /\ m.op \in {"http", "upgrade", "bad"}
      BY <2>1, <2>2 DEF ClientMay
    <3>2. QED
      BY <3>1
  <2>3. CASE sent # <<>>
    BY <2>1, <2>3 DEF ClientMay
  <2>4. QED
    BY <2>2, <2>3
<1>4. \A n \in DOMAIN sent' : ~sent'[n].fin => sent'[n].op \in {"text", "cont"}
  <2>1. \A n \in DOMAIN sent' : n \in DOMAIN sent \/ n = Len(sent) + 1
    BY <1>1, ClientFacts DEF ArrivalTypes
  <2>2. QED
    BY <1>3, <2>1, ClientFacts DEF ArrivalTypes
<1>5. sent'[1].op \notin {"text", "cont"}
  <2>1. CASE sent = <<>>
    BY <1>3, <2>1, ClientFacts
  <2>2. CASE sent # <<>>
    <3>1. 1 \in DOMAIN sent
      BY <2>2 DEF ArrivalTypes
    <3>2. QED
      BY <2>2, <3>1, ClientFacts DEF ArrivalTypes
  <2>3. QED
    BY <2>1, <2>2
<1>6. sent' \in Seq(Message) /\ Len(sent') <= MaxMessages
  BY <1>1, ClientFacts, SocketAssumption
<1>7. QED
  BY <1>2, <1>4, <1>5, <1>6, ClientFacts DEF ArrivalTypes

LEMMA ArrivalTypesNext ==
  ASSUME CallInv, ArrivalTypes, ArrivalKind
  PROVE  ArrivalTypes'
<1>1. CASE IdleStep
  <2>1. ret' \in Seq(Unit)
    <3>1. <<>> \in Seq(Unit)
      OBVIOUS
    <3>2. QED
      BY <1>1, <3>1 DEF IdleStep, ArrivalTypes
  <2>2. QED
    BY <1>1, <2>1 DEF IdleStep, MessageKeeps, ArrivalTypes
<1>2. CASE PartStep
  <2>1. receiveBuffer' \in Seq(Unit) /\ ret' \in Seq(Unit)
    BY <1>2, BufferedFacts DEF PartStep
  <2>2. QED
    BY <1>2, <2>1 DEF PartStep, ArrivalTypes
<1>3. QED
  BY <1>1, <1>2, StartTypes, ReceiveTypes, FrameTypes, ClientTypes DEF ArrivalKind

-----------------------------------------------------------------------------
(* Where each unit is: behind the messages that were taken, all the others *)
(* in their order.                                                         *)

Pending == receiveBuffer \o (ret \o (readBuffer \o rx))

(* The units u of the messages m + 1 to k.                                 *)
Stream(u, m, k) ==
  /\ u \in Seq(Unit)
  /\ Len(u) = 2 * (k - m)
  /\ \A i \in 1 .. k - m : u[2 * i - 1].n = m + i /\ u[2 * i].n = m + i

LEMMA StreamGrows ==
  ASSUME NEW k \in Nat, NEW m \in 0 .. k, k + 1 \in 1 .. MaxMessages, NEW u, Stream(u, m, k)
  PROVE  Stream(u \o Units(k + 1), m, k + 1)
<1>1. PICK v \in Seq(Unit) : v = Units(k + 1) /\ Len(v) = 2 /\ v[1].n = k + 1 /\ v[2].n = k + 1
  BY UnitsType
<1>2. PICK w \in Seq(Unit) : w = u
  BY DEF Stream
<1>3. /\ w \o v \in Seq(Unit) /\ Len(w \o v) = Len(w) + 2
      /\ \A i \in 1 .. Len(w) + 2 : (w \o v)[i] = IF i <= Len(w) THEN w[i] ELSE v[i - Len(w)]
  <2>1. /\ w \o v \in Seq(Unit) /\ Len(w \o v) = Len(w) + Len(v)
        /\ \A i \in 1 .. Len(w) + Len(v) :
             (w \o v)[i] = IF i <= Len(w) THEN w[i] ELSE v[i - Len(w)]
    BY ConcatProperties
  <2>2. QED
    BY <1>1, <2>1
<1>4. PICK d \in Nat : d = k - m /\ Len(w) = 2 * d
  <2>1. k - m \in Nat /\ Len(w) = 2 * (k - m)
    BY <1>2 DEF Stream
  <2>2. QED
    BY <2>1
<1>5. ASSUME NEW i \in 1 .. d + 1
      PROVE  (w \o v)[2 * i - 1].n = m + i /\ (w \o v)[2 * i].n = m + i
  <2>1. CASE i <= d
    <3>1. /\ 2 * i - 1 \in 1 .. Len(w) + 2 /\ 2 * i - 1 <= Len(w)
          /\ 2 * i \in 1 .. Len(w) + 2 /\ 2 * i <= Len(w)
      BY <1>4, <2>1
    <3>2. (w \o v)[2 * i - 1] = w[2 * i - 1] /\ (w \o v)[2 * i] = w[2 * i]
      BY <1>3, <3>1
    <3>3. w[2 * i - 1].n = m + i /\ w[2 * i].n = m + i
      BY <1>2, <1>4, <2>1 DEF Stream
    <3>4. QED
      BY <3>2, <3>3
  <2>2. CASE i = d + 1
    <3>1. /\ 2 * i - 1 = Len(w) + 1 /\ 2 * i = Len(w) + 2 /\ Len(w) \in Nat
          /\ m + i = k + 1
      BY <1>4, <2>2
    <3>2. (w \o v)[Len(w) + 1] = v[1] /\ (w \o v)[Len(w) + 2] = v[2]
      BY <1>3, <3>1
    <3>3. QED
      BY <1>1, <3>1, <3>2
  <2>3. QED
    <3>1. i \in Nat /\ (i <= d \/ i = d + 1)
      BY <1>4
    <3>2. QED
      BY <2>1, <2>2, <3>1
<1>6. (k + 1) - m = d + 1 /\ Len(w \o v) = 2 * ((k + 1) - m)
  <2>1. (k + 1) - m = d + 1
    BY <1>4
  <2>2. Len(w \o v) = 2 * (d + 1)
    BY <1>3, <1>4
  <2>3. QED
    BY <2>1, <2>2
<1>7. QED
  BY <1>1, <1>2, <1>3, <1>5, <1>6 DEF Stream

LEMMA StreamTaken ==
  ASSUME NEW k \in Nat, NEW m \in 0 .. k, NEW u, Stream(u, m, k), Len(u) >= 2
  PROVE  m < k /\ u[1].n = m + 1 /\ Stream(SubSeq(u, 3, Len(u)), m + 1, k)
<1>1. PICK d \in Nat : d = k - m /\ Len(u) = 2 * d /\ d >= 1
  BY DEF Stream
<1>2. u[2 * 1 - 1].n = m + 1
  BY <1>1 DEF Stream
<1>3. /\ SubSeq(u, 3, Len(u)) \in Seq(Unit) /\ Len(SubSeq(u, 3, Len(u))) = 2 * d - 2
      /\ \A i \in 1 .. 2 * d - 2 : SubSeq(u, 3, Len(u))[i] = u[i + 2]
  <2>1. \A i \in 3 .. Len(u) : u[i] \in Unit
    BY <1>1, ElementOfSeq DEF Stream
  <2>2. /\ SubSeq(u, 3, Len(u)) \in Seq(Unit)
        /\ Len(SubSeq(u, 3, Len(u))) = IF 3 <= Len(u) THEN Len(u) - 3 + 1 ELSE 0
        /\ \A i \in 1 .. Len(u) - 3 + 1 : SubSeq(u, 3, Len(u))[i] = u[3 + i - 1]
    BY <1>1, <2>1, SubSeqProperties
  <2>3. \A i \in 1 .. 2 * d - 2 : i \in 1 .. Len(u) - 3 + 1 /\ 3 + i - 1 = i + 2
    BY <1>1
  <2>4. Len(SubSeq(u, 3, Len(u))) = 2 * d - 2
    BY <1>1, <2>2
  <2>5. QED
    BY <2>2, <2>3, <2>4
<1>4. PICK v \in Seq(Unit) : v = SubSeq(u, 3, Len(u))
  BY <1>3
<1>5. ASSUME NEW i \in 1 .. d - 1
      PROVE  v[2 * i - 1].n = (m + 1) + i /\ v[2 * i].n = (m + 1) + i
  <2>1. 2 * i - 1 \in 1 .. 2 * d - 2 /\ 2 * i \in 1 .. 2 * d - 2
    BY <1>1
  <2>2. v[2 * i - 1] = u[2 * i - 1 + 2] /\ v[2 * i] = u[2 * i + 2]
    BY <1>3, <1>4, <2>1
  <2>3. PICK j \in 1 .. k - m : j = i + 1
    BY <1>1
  <2>4. u[2 * j - 1].n = m + j /\ u[2 * j].n = m + j
    BY DEF Stream
  <2>5. 2 * j - 1 = 2 * i - 1 + 2 /\ 2 * j = 2 * i + 2 /\ m + j = (m + 1) + i
    BY <2>3
  <2>6. QED
    BY <2>2, <2>4, <2>5
<1>6. k - (m + 1) = d - 1 /\ Len(v) = 2 * (k - (m + 1)) /\ m < k
  BY <1>1, <1>3, <1>4
<1>7. Stream(v, m + 1, k)
  BY <1>5, <1>6 DEF Stream
<1>8. QED
  BY <1>2, <1>4, <1>6, <1>7

LEMMA SplitSeq ==
  ASSUME NEW S, NEW s \in Seq(S), NEW k \in 0 .. Len(s)
  PROVE  /\ SubSeq(s, 1, k) \in Seq(S) /\ SubSeq(s, k + 1, Len(s)) \in Seq(S)
         /\ SubSeq(s, 1, k) \o SubSeq(s, k + 1, Len(s)) = s
<1>1. Len(s) \in Nat
  OBVIOUS
<1>2. SubSeq(s, 1, k) \in Seq(S) /\ SubSeq(s, k + 1, Len(s)) \in Seq(S)
  BY <1>1, SubSeqType
<1>3. 1 \in 1 .. Len(s) + 1 /\ k \in 1 - 1 .. Len(s) /\ Len(s) \in k .. Len(s)
  BY <1>1
<1>4. SubSeq(s, 1, k) \o SubSeq(s, k + 1, Len(s)) = SubSeq(s, 1, Len(s))
  BY ONLY <1>3, s \in Seq(S), ConcatAdjacentSubSeq
<1>5. QED
  BY <1>2, <1>4, SubSeqFull

(* Taking the first two units of s leaves what follows s alone.            *)
LEMMA RestOfConcat ==
  ASSUME NEW S, NEW s \in Seq(S), NEW t \in Seq(S), Len(s) >= 2
  PROVE  SubSeq(s \o t, 3, Len(s \o t)) = SubSeq(s, 3, Len(s)) \o t
<1>1. Len(s) \in Nat /\ Len(t) \in Nat
  OBVIOUS
<1>2. ASSUME NEW v \in Seq(S), Len(v) >= 2
      PROVE  /\ SubSeq(v, 1, 2) \in Seq(S) /\ SubSeq(v, 3, Len(v)) \in Seq(S)
             /\ SubSeq(v, 1, 2) \o SubSeq(v, 3, Len(v)) = v
  <2>1. PICK k \in 0 .. Len(v) : k = 2
    BY <1>2
  <2>2. k + 1 = 3
    BY <2>1
  <2>3. QED
    BY <2>1, <2>2, SplitSeq
<1>3. /\ SubSeq(s, 1, 2) \in Seq(S) /\ SubSeq(s, 3, Len(s)) \in Seq(S)
      /\ SubSeq(s, 1, 2) \o SubSeq(s, 3, Len(s)) = s
  BY <1>2
<1>4. PICK w \in Seq(S) : w = s \o t /\ Len(w) = Len(s) + Len(t)
  BY ConcatProperties
<1>5. SubSeq(w, 1, 2) \o SubSeq(w, 3, Len(w)) = w
  BY <1>1, <1>2, <1>4
<1>6. SubSeq(w, 1, 2) = SubSeq(s, 1, 2)
  <2>1. PICK k \in 0 .. Len(s) : k = 2
    BY <1>1
  <2>2. QED
    BY <1>4, <2>1, PrefixOfConcat
<1>7. SubSeq(w, 3, Len(w)) \in Seq(S)
  BY <1>1, <1>2, <1>4
<1>8. SubSeq(s, 1, 2) \o SubSeq(w, 3, Len(w)) = SubSeq(s, 1, 2) \o (SubSeq(s, 3, Len(s)) \o t)
  <2>1. PICK a \in Seq(S), b \in Seq(S) : a = SubSeq(s, 1, 2) /\ b = SubSeq(s, 3, Len(s))
    BY <1>3
  <2>2. (a \o b) \o t = a \o (b \o t)
    BY ONLY a \in Seq(S), b \in Seq(S), t \in Seq(S), ConcatAssociative, SMTT(30)
  <2>3. SubSeq(w, 1, 2) \o SubSeq(w, 3, Len(w)) = (a \o b) \o t
    BY <1>3, <1>4, <1>5, <2>1
  <2>4. QED
    BY <1>6, <2>1, <2>2, <2>3
<1>9. SubSeq(s, 3, Len(s)) \o t \in Seq(S)
  BY <1>3, ConcatProperties
<1>10. QED
  BY <1>3, <1>4, <1>7, <1>8, <1>9, ConcatSimplifications

(* What netRead() takes from rx follows what was in readBuffer.            *)
LEMMA ReadRest ==
  ASSUME NEW S, NEW s \in Seq(S), NEW t \in Seq(S), NEW k \in 0 .. Len(t)
  PROVE  (s \o SubSeq(t, 1, k)) \o SubSeq(t, k + 1, Len(t)) = s \o t
<1>1. PICK a \in Seq(S), b \in Seq(S) : /\ a = SubSeq(t, 1, k) /\ b = SubSeq(t, k + 1, Len(t))
                                      /\ a \o b = t
  <2>1. /\ SubSeq(t, 1, k) \in Seq(S) /\ SubSeq(t, k + 1, Len(t)) \in Seq(S)
        /\ SubSeq(t, 1, k) \o SubSeq(t, k + 1, Len(t)) = t
    BY SplitSeq
  <2>2. QED
    BY <2>1
<1>2. (s \o a) \o b = s \o (a \o b)
  BY ConcatAssociative
<1>3. QED
  BY <1>1, <1>2

(* What the steps do to the units that are still to be taken.              *)
LEMMA PendingTypes ==
  ASSUME ArrivalTypes
  PROVE  /\ readBuffer \o rx \in Seq(Unit) /\ ret \o (readBuffer \o rx) \in Seq(Unit)
         /\ Pending \in Seq(Unit) /\ Pending = Buffered \o (readBuffer \o rx)
<1>1. PICK a \in Seq(Unit), b \in Seq(Unit), c \in Seq(Unit) :
        a = receiveBuffer /\ b = ret /\ c = readBuffer \o rx
  BY ConcatProperties DEF ArrivalTypes
<1>2. b \o c \in Seq(Unit)
  BY ConcatProperties
<1>3. a \o (b \o c) \in Seq(Unit)
  BY <1>2, ConcatProperties
<1>4. (a \o b) \o c = a \o (b \o c)
  BY ONLY a \in Seq(Unit), b \in Seq(Unit), c \in Seq(Unit), ConcatAssociative,
     SMTT(30)
<1>5. QED
  BY <1>1, <1>2, <1>3, <1>4 DEF Pending, Buffered

LEMMA EmptyConcat ==
  \A s \in Seq(Unit) : s \o <<>> = s /\ <<>> \o s = s
  BY ConcatEmptySeq

LEMMA StartPending ==
  ASSUME ArrivalTypes, NEW n \in {0, 2}, StartStep(n), ret = <<>>, pc' # "body",
         pc = "start" => ~header
  PROVE  Pending' = Pending /\ UNCHANGED header /\ (call' # "none" => ret' = <<>>)
<1>1. /\ UNCHANGED <<rx, receiveBuffer, header>>
      /\ \/ ret' = readBuffer /\ readBuffer' = <<>> /\ call' = "none"
         \/ UNCHANGED <<ret, readBuffer>>
  BY DEF StartStep, ReceiveStarts, Return, network, MessageKeeps
<1>2. readBuffer \in Seq(Unit) /\ rx \in Seq(Unit) /\ readBuffer \o rx \in Seq(Unit)
  BY PendingTypes DEF ArrivalTypes
<1>3. CASE UNCHANGED <<ret, readBuffer>>
  BY <1>1, <1>3 DEF Pending
<1>4. CASE ret' = readBuffer /\ readBuffer' = <<>> /\ call' = "none"
  <2>1. ret' \o (readBuffer' \o rx') = readBuffer \o rx
    BY <1>1, <1>2, <1>4, EmptyConcat
  <2>2. ret \o (readBuffer \o rx) = readBuffer \o rx
    BY <1>2, EmptyConcat
  <2>3. QED
    BY <1>1, <1>4, <2>1, <2>2 DEF Pending
<1>5. QED
  BY <1>1, <1>3, <1>4

LEMMA ReceivePending ==
  ASSUME CallInv, ArrivalTypes, ReceiveStep, ret = <<>>, call' # "threw",
         ~header => receiveBuffer = <<>>
  PROVE  /\ (call' # "none" => ret' = <<>>)
         /\ \/ Pending' = Pending /\ UNCHANGED header
            \/ /\ ~header /\ header' = TRUE /\ ret' = <<>> /\ call' = "none" /\ Len(Pending) >= 2
               /\ Pending' = SubSeq(Pending, 3, Len(Pending))
<1> DEFINE rest == ret \o (readBuffer \o rx)
<1>1. readBuffer \in Seq(Unit) /\ rx \in Seq(Unit) /\ readBuffer \o rx \in Seq(Unit)
      /\ Len(rx) \in Nat /\ <<>> \in Seq(Unit)
  BY PendingTypes DEF ArrivalTypes
<1>2. rest = readBuffer \o rx
  BY <1>1, EmptyConcat
<1>3. UNCHANGED receiveBuffer
  BY ReceiveMoves DEF MessageKeeps
<1>4. CASE UNCHANGED <<rx, readBuffer, header>> /\ ret' = <<>>
  BY <1>3, <1>4 DEF Pending
<1>5. CASE UNCHANGED <<rx, header>> /\ ret' = readBuffer /\ readBuffer' = <<>> /\ call' = "none"
  <2>1. ret' \o (readBuffer' \o rx') = rest
    BY <1>1, <1>2, <1>5, EmptyConcat
  <2>2. QED
    BY <1>3, <1>5, <2>1 DEF Pending
<1>6. ASSUME NEW k \in 1 .. Len(rx), NEW all, all = readBuffer \o SubSeq(rx, 1, k),
             rx' = SubSeq(rx, k + 1, Len(rx)),
             \/ UNCHANGED header /\ ret' = all /\ readBuffer' = <<>> /\ call' = "none"
             \/ UNCHANGED <<header, ret, call>> /\ readBuffer' = all
             \/ /\ ~header /\ header' = TRUE /\ ret' = <<>> /\ call' = "none" /\ Len(all) >= 2
                /\ readBuffer' = SubSeq(all, 3, Len(all))
      PROVE  /\ (call' # "none" => ret' = <<>>)
             /\ \/ Pending' = Pending /\ UNCHANGED header
                \/ /\ ~header /\ header' = TRUE /\ ret' = <<>> /\ call' = "none"
                   /\ Len(Pending) >= 2
                   /\ Pending' = SubSeq(Pending, 3, Len(Pending))
  <2>1. /\ SubSeq(rx, 1, k) \in Seq(Unit) /\ SubSeq(rx, k + 1, Len(rx)) \in Seq(Unit)
    BY <1>1, SplitSeq
  <2>2. all \in Seq(Unit) /\ rx' \in Seq(Unit) /\ Len(all) \in Nat
    BY <1>1, <1>6, <2>1, ConcatProperties
  <2>3. all \o rx' = rest
    <3>1. k \in 0 .. Len(rx)
      BY <1>1
    <3>2. (readBuffer \o SubSeq(rx, 1, k)) \o SubSeq(rx, k + 1, Len(rx)) = readBuffer \o rx
      BY <1>1, <3>1, ReadRest
    <3>3. QED
      BY <1>2, <1>6, <3>2
  <2>4. PICK r \in Seq(Unit) : r = all \o rx'
    BY <2>2, ConcatProperties
  <2>5. CASE UNCHANGED header /\ ret' = all /\ readBuffer' = <<>> /\ call' = "none"
    <3>1. ret' \o (readBuffer' \o rx') = all \o rx'
      BY <2>2, <2>5, EmptyConcat
    <3>2. QED
      BY <1>3, <2>3, <2>5, <3>1 DEF Pending
  <2>6. CASE UNCHANGED <<header, ret, call>> /\ readBuffer' = all
    <3>1. ret' \o (readBuffer' \o rx') = r
      BY <2>4, <2>6, EmptyConcat
    <3>2. QED
      BY <1>3, <2>3, <2>4, <2>6, <3>1 DEF Pending
  <2>7. CASE /\ ~header /\ header' = TRUE /\ ret' = <<>> /\ call' = "none" /\ Len(all) >= 2
             /\ readBuffer' = SubSeq(all, 3, Len(all))
    <3>1. receiveBuffer = <<>> /\ Pending = r
      BY <2>3, <2>4, <2>7, EmptyConcat DEF Pending
    <3>2. SubSeq(all \o rx', 3, Len(all \o rx')) = SubSeq(all, 3, Len(all)) \o rx'
      BY <2>2, <2>7, RestOfConcat
    <3>3. Len(all \o rx') = Len(all) + Len(rx') /\ Len(rx') \in Nat
      BY <2>2, ConcatProperties
    <3>4. Len(r) >= 2
      BY <2>2, <2>4, <2>7, <3>3
    <3>5. PICK q \in Seq(Unit) : q = SubSeq(r, 3, Len(r))
      <4>1. Len(r) \in Nat
        OBVIOUS
      <4>2. SubSeq(r, 3, Len(r)) \in Seq(Unit)
        BY <4>1, SubSeqType
      <4>3. QED
        BY <4>2
    <3>6. readBuffer' \o rx' = q
      BY <2>4, <2>7, <3>2, <3>5
    <3>7. Pending' = q
      BY <1>3, <2>7, <3>1, <3>6, EmptyConcat DEF Pending
    <3>8. QED
      BY <2>7, <3>1, <3>4, <3>5, <3>7
  <2>8. QED
    BY <1>6, <2>5, <2>6, <2>7
<1>7. QED
  BY <1>4, <1>5, <1>6, ReceiveMoves

LEMMA PartPending ==
  ASSUME ArrivalTypes, PartStep
  PROVE  Pending' = Pending
<1>1. PICK a \in Seq(Unit), c \in Seq(Unit) : a = Buffered /\ c = readBuffer \o rx
  BY BufferedFacts, PendingTypes
<1>2. Pending = a \o c
  BY <1>1, PendingTypes
<1>3. Pending' = a \o (<<>> \o c)
  BY <1>1 DEF PartStep, Pending
<1>4. QED
  BY <1>2, <1>3, EmptyConcat

LEMMA FramePending ==
  ASSUME ArrivalTypes, NEW n \in DOMAIN sent, NEW t \in FrameType, FrameStep(n, t), pc' # "shut",
         NEW m \in 0 .. Len(sent), Stream(Pending, m, Len(sent))
  PROVE  n = m + 1 /\ Stream(Pending', m + 1, Len(sent)) /\ t \in TypesOf(sent[n])
<1>1. PICK a \in Seq(Unit), c \in Seq(Unit) : a = Buffered /\ c = readBuffer \o rx
  BY BufferedFacts, PendingTypes
<1>2. Pending = a \o c /\ a \o c \in Seq(Unit) /\ Len(a) >= 2 /\ n = a[1].n
  BY <1>1, PendingTypes DEF FrameStep, Frame
<1>3. /\ Len(a \o c) = Len(a) + Len(c) /\ Len(a) \in Nat /\ Len(c) \in Nat
      /\ (a \o c)[1] = a[1]
  BY <1>2, ConcatProperties
<1>4. Len(sent) \in Nat
  BY DEF ArrivalTypes
<1>5. /\ (a \o c)[1].n = m + 1
      /\ Stream(SubSeq(a \o c, 3, Len(a \o c)), m + 1, Len(sent))
  <2>1. Len(a \o c) >= 2
    BY <1>2, <1>3
  <2>2. QED
    BY <1>2, <1>4, <2>1, StreamTaken
<1>6. SubSeq(a \o c, 3, Len(a \o c)) = SubSeq(a, 3, Len(a)) \o c
  BY <1>2, RestOfConcat
<1>7. sent[n].op # "bad" /\ t \in TypesOf(sent[n]) /\ receiveBuffer' = SubSeq(a, 3, Len(a))
  <2>1. t # "error" /\ t \in TypesOf(sent[n])
    BY DEF FrameStep, Frame
  <2>2. sent[n].op # "bad"
    BY <2>1 DEF TypesOf
  <2>3. QED
    BY <1>1, <2>1, <2>2 DEF FrameStep, Frame
<1>8. Pending' = SubSeq(a, 3, Len(a)) \o (<<>> \o c)
  BY <1>1, <1>7 DEF FrameStep, Pending
<1>9. Pending' = SubSeq(a \o c, 3, Len(a \o c))
  BY <1>6, <1>8, EmptyConcat
<1>10. QED
  BY <1>2, <1>3, <1>5, <1>7, <1>9

LEMMA UnitsAssociate ==
  \A s \in Seq(Unit), t \in Seq(Unit), u \in Seq(Unit) : (s \o t) \o u = s \o (t \o u)
  BY ConcatAssociative

LEMMA ClientPending ==
  ASSUME ArrivalTypes, NEW x \in Message, ClientStep(x),
         NEW m \in 0 .. Len(sent), Stream(Pending, m, Len(sent))
  PROVE  Stream(Pending', m, Len(sent'))
<1>1. Len(sent) \in Nat /\ Len(sent) + 1 \in 1 .. MaxMessages
  BY ClientFacts, SocketAssumption DEF ArrivalTypes
<1>2. PICK u \in Seq(Unit) : u = Units(Len(sent) + 1)
  BY <1>1, UnitsType
<1>3. PICK a \in Seq(Unit), b \in Seq(Unit), c \in Seq(Unit), d \in Seq(Unit) :
        a = receiveBuffer /\ b = ret /\ c = readBuffer /\ d = rx
  BY DEF ArrivalTypes
<1>4. \A p \in Seq(Unit), q \in Seq(Unit) : p \o q \in Seq(Unit)
  BY ConcatProperties
<1>5. ASSUME NEW p \in Seq(Unit), NEW q \in Seq(Unit)
      PROVE  (p \o q) \o u = p \o (q \o u)
  BY ONLY UnitsAssociate, p \in Seq(Unit), q \in Seq(Unit), u \in Seq(Unit), ZenonT(60)
<1>6. a \o (b \o (c \o (d \o u))) = (a \o (b \o (c \o d))) \o u
  <2>1. c \o d \in Seq(Unit) /\ (c \o d) \o u = c \o (d \o u)
    BY <1>4, <1>5
  <2>2. b \o (c \o d) \in Seq(Unit) /\ (b \o (c \o d)) \o u = b \o ((c \o d) \o u)
    BY <1>4, <1>5, <2>1
  <2>3. (a \o (b \o (c \o d))) \o u = a \o ((b \o (c \o d)) \o u)
    BY <1>5, <2>2
  <2>4. QED
    BY <2>1, <2>2, <2>3
<1>7. Pending' = Pending \o u
  BY <1>2, <1>3, <1>6, ClientFacts DEF Pending
<1>8. QED
  BY <1>1, <1>2, <1>7, StreamGrows, ClientFacts

-----------------------------------------------------------------------------
(* What is kept of a message that is not complete, and what came before    *)
(* it, when m messages of the client have been taken.                      *)

LastDone == EndOf(Len(delivered))
Kept(m) == m - Len(previous_data)

OpenInv(m) ==
  /\ previous_data = <<>> <=> (m = 0 \/ sent[m].fin)
  /\ previous_data # <<>> => lFrameType = "text"
  /\ \A k \in DOMAIN previous_data :
       /\ previous_data[k] = Kept(m) + k
       /\ previous_data[k] \in 2 .. m
       /\ sent[previous_data[k]].op = IF k = 1 THEN "text" ELSE "cont"
       /\ ~sent[previous_data[k]].fin
  /\ LastDone \in 0 .. Kept(m)
  /\ NoData(LastDone, Kept(m) + 1)

TakenInv(m) ==
  /\ Stream(Pending, m, Len(sent))
  /\ IF header THEN m >= 1 ELSE m = 0 /\ receiveBuffer = <<>>
  /\ Tidy => OpenInv(m)

(* Nothing of a read is left when the next one begins.                     *)
UsedInv ==
  /\ pc = "start" \/ (pc = "headers" /\ call # "none") => ~header
  /\ \/ call # "none" \/ pc \in {"start", "upgraded", "loop", "wait"}
     \/ pc = "headers" /\ header
     => ret = <<>>

ArrivalInv ==
  /\ ArrivalTypes
  /\ MessagesAreWhole
  /\ Reading => UsedInv /\ \E m \in 0 .. Len(sent) : TakenInv(m)

(* The types of the values that the invariant speaks of.                   *)
LEMMA ArrivalFacts ==
  ASSUME ArrivalTypes
  PROVE  /\ Len(sent) \in Nat /\ DOMAIN sent = 1 .. Len(sent)
         /\ Len(previous_data) \in Nat /\ DOMAIN previous_data = 1 .. Len(previous_data)
         /\ Len(delivered) \in Nat /\ DOMAIN delivered = 1 .. Len(delivered)
         /\ \A n \in DOMAIN sent : sent[n] \in Message
         /\ \A i \in DOMAIN delivered : delivered[i] \in Seq(1 .. MaxMessages)
         /\ \A k \in DOMAIN previous_data : previous_data[k] \in 1 .. MaxMessages
<1>1. \A i \in 1 .. Len(delivered) : delivered[i] \in Seq(1 .. MaxMessages)
  BY ElementOfSeq DEF ArrivalTypes
<1>2. \A n \in 1 .. Len(sent) : sent[n] \in Message
  BY ElementOfSeq DEF ArrivalTypes
<1>3. \A k \in 1 .. Len(previous_data) : previous_data[k] \in 1 .. MaxMessages
  BY ElementOfSeq DEF ArrivalTypes
<1>4. QED
  BY <1>1, <1>2, <1>3 DEF ArrivalTypes

(* In a tidy stream a frame continues a message exactly when one is kept.  *)
LEMMA TidyFrame ==
  ASSUME ArrivalTypes, Tidy, NEW m \in 1 .. Len(sent), OpenInv(m), m + 1 \in DOMAIN sent
  PROVE  sent[m + 1].op = "cont" <=> previous_data # <<>>
<1>1. m + 1 \in 2 .. Len(sent) /\ (m + 1) - 1 = m /\ m # 0
  BY ArrivalFacts
<1>2. (sent[m + 1].op = "cont") <=> (m + 1 > 2 /\ ~sent[m].fin)
  BY <1>1 DEF Tidy
<1>3. ~sent[m].fin => m + 1 > 2
  <2>1. sent # <<>> /\ 1 \in DOMAIN sent
    BY ArrivalFacts
  <2>2. sent[1].fin
    BY <2>1 DEF ArrivalTypes
  <2>3. QED
    BY <2>2
<1>4. previous_data # <<>> <=> ~sent[m].fin
  BY <1>1 DEF OpenInv
<1>5. QED
  BY <1>2, <1>3, <1>4

(* The fragments w of a message, up to the frame m + 1.                    *)
Fragments(w, m) ==
  /\ w \in Seq(1 .. MaxMessages) /\ Len(w) = Len(previous_data) + 1
  /\ DOMAIN w = 1 .. Len(previous_data) + 1
  /\ \A k \in DOMAIN w :
       /\ w[k] = Kept(m) + k
       /\ w[k] \in 2 .. m + 1
       /\ sent[w[k]].op = IF k = 1 THEN "text" ELSE "cont"
       /\ sent[w[k]].fin => k = Len(w)
  /\ w[Len(w)] = m + 1

(* The frame that comes next, with the fragments kept before it.           *)
LEMMA FragmentKept ==
  ASSUME ArrivalTypes, Tidy, NEW m \in 1 .. Len(sent), OpenInv(m), m + 1 \in DOMAIN sent,
         sent[m + 1].op \in {"text", "cont"}
  PROVE  Fragments(Append(previous_data, m + 1), m)
<1>0. PICK w : w = Append(previous_data, m + 1)
  OBVIOUS
<1>1. PICK p \in Seq(1 .. MaxMessages), l \in Nat :
        p = previous_data /\ l = Len(p) /\ DOMAIN p = 1 .. l
  BY ArrivalFacts DEF ArrivalTypes
<1>2. m + 1 \in 1 .. MaxMessages /\ m + 1 \in 2 .. m + 1
  BY ArrivalFacts, SocketAssumption DEF ArrivalTypes
<1>3. /\ w \in Seq(1 .. MaxMessages) /\ Len(w) = l + 1 /\ w[l + 1] = m + 1
      /\ \A k \in 1 .. l : w[k] = p[k]
  BY <1>0, <1>1, <1>2, AppendProperties
<1>4. DOMAIN w = 1 .. l + 1
  BY <1>3
<1>5. ASSUME NEW k \in 1 .. l + 1
      PROVE  /\ w[k] = Kept(m) + k
             /\ w[k] \in 2 .. m + 1
             /\ sent[w[k]].op = IF k = 1 THEN "text" ELSE "cont"
             /\ sent[w[k]].fin => k = Len(w)
  <2>1. CASE k \in 1 .. l
    <3>1. /\ p[k] = Kept(m) + k /\ p[k] \in 2 .. m
          /\ sent[p[k]].op = IF k = 1 THEN "text" ELSE "cont"
          /\ ~sent[p[k]].fin
      BY <1>1, <2>1 DEF OpenInv
    <3>2. p[k] \in 2 .. m + 1
      BY <3>1
    <3>3. QED
      BY <1>3, <2>1, <3>1, <3>2
  <2>2. CASE k = l + 1
    <3>1. Kept(m) + k = m + 1
      BY <1>1, <2>2 DEF Kept
    <3>2. k = 1 <=> p = <<>>
      BY <1>1, <2>2
    <3>3. sent[m + 1].op = IF k = 1 THEN "text" ELSE "cont"
      BY <1>1, <3>2, TidyFrame
    <3>4. QED
      BY <1>2, <1>3, <2>2, <3>1, <3>3
  <2>3. k \in 1 .. l \/ k = l + 1
    BY <1>1
  <2>4. QED
    BY <2>1, <2>2, <2>3
<1>6. QED
  BY <1>0, <1>1, <1>3, <1>4, <1>5 DEF Fragments

LEMMA WholeStays ==
  ASSUME NEW w, UNCHANGED sent, WholeMessage(w)
  PROVE  WholeMessage(w)'
  BY DEF WholeMessage

(* The text that a frame completes is the next message of the client.      *)
LEMMA MessageDone ==
  ASSUME ArrivalTypes, ArrivalTypes', Tidy, MessagesAreWhole, UNCHANGED sent,
         NEW m \in 1 .. Len(sent), OpenInv(m), m + 1 \in DOMAIN sent,
         sent[m + 1].op \in {"text", "cont"}, sent[m + 1].fin,
         delivered' = Append(delivered, Append(previous_data, m + 1)), previous_data' = <<>>
  PROVE  MessagesAreWhole' /\ OpenInv(m + 1)'
<1>1. PICK w : w = Append(previous_data, m + 1)
  OBVIOUS
<1>2. PICK d \in Nat : d = Len(delivered) /\ DOMAIN delivered = 1 .. d
  BY ArrivalFacts
<1>3. PICK l \in Nat : l = Len(previous_data)
  BY ArrivalFacts
<1>4. /\ w \in Seq(1 .. MaxMessages) /\ Len(w) = l + 1 /\ DOMAIN w = 1 .. l + 1
      /\ \A k \in 1 .. l + 1 :
           /\ w[k] = Kept(m) + k
           /\ w[k] \in 2 .. m + 1
           /\ sent[w[k]].op = IF k = 1 THEN "text" ELSE "cont"
           /\ sent[w[k]].fin => k = l + 1
      /\ w[l + 1] = m + 1
  <2>1. Fragments(w, m)
    BY <1>1, FragmentKept
  <2>2. QED
    BY <1>3, <2>1 DEF Fragments
<1>5. /\ Len(delivered') = d + 1 /\ DOMAIN delivered' = 1 .. d + 1 /\ delivered'[d + 1] = w
      /\ \A i \in 1 .. d : delivered'[i] = delivered[i]
  <2>1. delivered \in Seq(Seq(1 .. MaxMessages)) /\ delivered' = Append(delivered, w)
    BY <1>1 DEF ArrivalTypes
  <2>2. /\ Append(delivered, w) \in Seq(Seq(1 .. MaxMessages))
        /\ Len(Append(delivered, w)) = Len(delivered) + 1
        /\ \A i \in 1 .. Len(delivered) : Append(delivered, w)[i] = delivered[i]
        /\ Append(delivered, w)[Len(delivered) + 1] = w
    BY <1>4, <2>1, AppendProperties
  <2>3. QED
    BY <1>2, <2>1, <2>2
<1>6. Last(w) = m + 1
  BY <1>4 DEF Last
<1>7. Len(sent) \in Nat /\ m + 1 \in 1 .. Len(sent)
  BY ArrivalFacts
<1>8. WholeMessage(w)'
  <2>1. w # <<>> /\ 1 \in 1 .. l + 1
    BY <1>4
  <2>2. ASSUME NEW k \in 1 .. l + 1
        PROVE  /\ w[k] \in 2 .. Len(sent)
               /\ w[k] = w[1] + k - 1
               /\ sent[w[k]].op = IF k = 1 THEN "text" ELSE "cont"
               /\ sent[w[k]].fin <=> k = l + 1
    <3>1. w[k] \in 2 .. Len(sent)
      BY <1>4, <1>7
    <3>2. w[1] = Kept(m) + 1 /\ w[k] = Kept(m) + k /\ Kept(m) \in Int
      BY <1>3, <1>4, <2>1 DEF Kept
    <3>3. w[k] = w[1] + k - 1
      BY <3>2
    <3>4. QED
      BY <1>4, <3>1, <3>3
  <2>3. QED
    BY <1>4, <2>1, <2>2 DEF WholeMessage
<1>9. MessagesAreWhole'
  <2>1. ASSUME NEW i \in 1 .. d + 1
        PROVE  (/\ WholeMessage(delivered[i])
                /\ EndOf(i - 1) < delivered[i][1]
                /\ NoData(EndOf(i - 1), delivered[i][1]))'
    <3>1. EndOf(i - 1)' = EndOf(i - 1)
      <4>1. i - 1 = 0 \/ i - 1 \in 1 .. d
        OBVIOUS
      <4>2. QED
        BY <1>5, <4>1 DEF EndOf
    <3>2. CASE i \in 1 .. d
      <4>1. /\ WholeMessage(delivered[i])
            /\ EndOf(i - 1) < delivered[i][1]
            /\ NoData(EndOf(i - 1), delivered[i][1])
        BY <1>2, <3>2 DEF MessagesAreWhole
      <4>2. PICK e, f : /\ e = delivered[i] /\ e = delivered'[i]
                        /\ f = EndOf(i - 1) /\ f = EndOf(i - 1)'
        BY <1>5, <3>1, <3>2
      <4>3. WholeMessage(e)'
        BY <4>1, <4>2, WholeStays
      <4>4. NoData(f, e[1])'
        BY <4>1, <4>2 DEF NoData
      <4>5. QED
        BY <4>1, <4>2, <4>3, <4>4
    <3>3. CASE i = d + 1
      <4>1. i - 1 = d /\ delivered'[i] = w
        BY <1>5, <3>3
      <4>2. EndOf(i - 1)' = LastDone
        BY <1>2, <3>1, <4>1 DEF LastDone
      <4>3. LastDone \in 0 .. Kept(m) /\ NoData(LastDone, Kept(m) + 1) /\ w[1] = Kept(m) + 1
        BY <1>4 DEF OpenInv
      <4>4. LastDone < w[1]
        BY <1>3, <4>3 DEF Kept
      <4>5. PICK f : f = LastDone /\ f = EndOf(i - 1)'
        BY <4>2
      <4>6. NoData(f, w[1])'
        BY <4>3, <4>5 DEF NoData
      <4>7. QED
        BY <1>8, <4>1, <4>4, <4>5, <4>6
    <3>4. i \in 1 .. d \/ i = d + 1
      OBVIOUS
    <3>5. QED
      BY <3>2, <3>3, <3>4
  <2>2. QED
    BY <1>5, <2>1 DEF MessagesAreWhole
<1>10. OpenInv(m + 1)'
  <2>1. LastDone' = m + 1
    <3>1. Len(delivered') # 0 /\ delivered'[Len(delivered')] = w
      BY <1>5
    <3>2. QED
      BY <1>6, <3>1 DEF LastDone, EndOf
  <2>2. Len(previous_data') = 0 /\ DOMAIN previous_data' = {}
    OBVIOUS
  <2>3. Kept(m + 1)' = m + 1
    BY <2>2 DEF Kept
  <2>4. (m + 1) + 1 .. ((m + 1) + 1) - 1 = {}
    OBVIOUS
  <2>5. QED
    BY <2>1, <2>2, <2>3, <2>4 DEF OpenInv, NoData
<1>11. QED
  BY <1>9, <1>10

(* A fragment that is not the last one is kept.                            *)
LEMMA MessageKept ==
  ASSUME ArrivalTypes, ArrivalTypes', Tidy, UNCHANGED <<sent, delivered>>,
         NEW m \in 1 .. Len(sent), OpenInv(m), m + 1 \in DOMAIN sent,
         sent[m + 1].op \in {"text", "cont"}, ~sent[m + 1].fin, lFrameType' = "text",
         previous_data' = Append(previous_data, m + 1)
  PROVE  OpenInv(m + 1)'
<1>1. PICK w : w = Append(previous_data, m + 1)
  OBVIOUS
<1>2. PICK l \in Nat : l = Len(previous_data)
  BY ArrivalFacts
<1>3. PICK c : c = Kept(m) /\ c = m - l
  BY <1>2 DEF Kept
<1>4. /\ w \in Seq(1 .. MaxMessages) /\ Len(w) = l + 1 /\ DOMAIN w = 1 .. l + 1
      /\ \A k \in 1 .. l + 1 :
           /\ w[k] = c + k
           /\ w[k] \in 2 .. m + 1
           /\ sent[w[k]].op = IF k = 1 THEN "text" ELSE "cont"
           /\ sent[w[k]].fin => k = l + 1
      /\ w[l + 1] = m + 1
  <2>1. Fragments(w, m)
    BY <1>1, FragmentKept
  <2>2. QED
    BY <1>2, <1>3, <2>1 DEF Fragments
<1>5. Kept(m + 1)' = c
  <2>1. Kept(m + 1)' = (m + 1) - (l + 1)
    BY <1>1, <1>4 DEF Kept
  <2>2. QED
    BY <1>3, <2>1
<1>6. LastDone' = LastDone /\ LastDone \in 0 .. c /\ NoData(LastDone, c + 1)
  BY <1>3 DEF OpenInv, LastDone, EndOf
<1>7. NoData(LastDone, Kept(m + 1) + 1)'
  <2>1. PICK f : f = LastDone /\ f = LastDone'
    BY <1>6
  <2>2. NoData(f, c + 1)'
    BY <1>6, <2>1 DEF NoData
  <2>3. QED
    BY <1>5, <2>1, <2>2
<1>8. w # <<>> /\ previous_data' = w
  BY <1>1, <1>4
<1>9. ASSUME NEW k \in 1 .. l + 1
      PROVE  /\ w[k] = c + k
             /\ w[k] \in 2 .. m + 1
             /\ sent[w[k]].op = IF k = 1 THEN "text" ELSE "cont"
             /\ ~sent[w[k]].fin
  <2>1. sent[w[k]].fin => w[k] = m + 1
    BY <1>4
  <2>2. QED
    BY <1>4, <2>1
<1>10. previous_data' = <<>> <=> (m + 1 = 0 \/ sent'[m + 1].fin)
  <2>1. m + 1 # 0
    BY ArrivalFacts
  <2>2. QED
    BY <1>8, <2>1
<1>11. \A k \in DOMAIN previous_data' :
         /\ previous_data'[k] = c + k
         /\ previous_data'[k] \in 2 .. m + 1
         /\ sent'[previous_data'[k]].op = IF k = 1 THEN "text" ELSE "cont"
         /\ ~sent'[previous_data'[k]].fin
  BY <1>4, <1>8, <1>9
<1>12. QED
  BY <1>5, <1>6, <1>7, <1>10, <1>11 DEF OpenInv

(* A control frame comes between two messages, and changes neither.        *)
LEMMA MessagePassed ==
  ASSUME ArrivalTypes, Tidy, UNCHANGED <<sent, delivered, previous_data>>,
         NEW m \in 1 .. Len(sent), OpenInv(m), m + 1 \in DOMAIN sent,
         NEW t \in {"ping", "pong"}, t \in TypesOf(sent[m + 1])
  PROVE  OpenInv(m + 1)'
<1>1. sent[m + 1].op = "cont" <=> previous_data # <<>>
  BY TidyFrame
<1>2. previous_data = <<>> /\ sent[m + 1].op \notin {"text", "cont"}
  <2>1. sent[m + 1].op # "cont"
    <3>1. SUFFICES ASSUME sent[m + 1].op = "cont" PROVE FALSE
      OBVIOUS
    <3>2. lFrameType = "text"
      BY <1>1, <3>1 DEF OpenInv
    <3>3. QED
      BY <3>1, <3>2 DEF TypesOf
  <2>2. sent[m + 1].op = t
    BY <2>1 DEF TypesOf
  <2>3. QED
    BY <1>1, <2>1, <2>2
<1>3. sent[m + 1].fin
  BY <1>2 DEF ArrivalTypes
<1>4. Kept(m) = m /\ Kept(m + 1)' = m + 1
  BY <1>2 DEF Kept
<1>5. PICK f : f = LastDone /\ f = LastDone' /\ f \in 0 .. m /\ NoData(f, m + 1)
  BY <1>4 DEF OpenInv, LastDone, EndOf
<1>6. NoData(f, (m + 1) + 1)'
  <2>1. \A n \in f + 1 .. ((m + 1) + 1) - 1 : n \in f + 1 .. (m + 1) - 1 \/ n = m + 1
    <3>1. m \in Nat /\ f \in Nat
      BY <1>5, ArrivalFacts
    <3>2. QED
      BY <3>1
  <2>2. QED
    BY <1>2, <1>5, <2>1 DEF NoData
<1>7. f \in 0 .. m + 1 /\ m + 1 # 0
  BY <1>5
<1>8. QED
  BY <1>2, <1>3, <1>4, <1>5, <1>6, <1>7 DEF OpenInv

LEMMA NothingKept ==
  ASSUME NEW m \in Nat
  PROVE  /\ previous_data = <<>> => Kept(m) = m
         /\ previous_data' = <<>> => Kept(m)' = m
  BY DEF Kept

(* The headers of the request are no frame of a message.                   *)
LEMMA HeadersTaken ==
  ASSUME ArrivalTypes, OpenInv(0), 1 \in DOMAIN sent,
         UNCHANGED <<sent, delivered, previous_data>>
  PROVE  OpenInv(1)'
<1>1. previous_data = <<>> /\ Kept(0) = 0 /\ Kept(1)' = 1
  <2>1. previous_data = <<>> /\ previous_data' = <<>>
    BY DEF OpenInv
  <2>2. QED
    BY <2>1, NothingKept
<1>2. sent # <<>> /\ sent[1].fin /\ sent[1].op \notin {"text", "cont"}
  BY ArrivalFacts DEF ArrivalTypes
<1>3. LastDone = 0 /\ LastDone' = 0
  BY <1>1 DEF OpenInv, LastDone, EndOf
<1>4. NoData(0, 1 + 1)'
  BY <1>2 DEF NoData
<1>5. QED
  BY <1>1, <1>2, <1>3, <1>4 DEF OpenInv

(* What the client sends comes after all that was taken.                   *)
LEMMA TidyBefore ==
  ASSUME ArrivalTypes, NEW x \in Message, ClientStep(x), Tidy'
  PROVE  Tidy
<1>1. ASSUME NEW n \in 2 .. Len(sent)
      PROVE  (sent[n].op = "cont") <=> (n > 2 /\ ~sent[n - 1].fin)
  <2>1. n \in DOMAIN sent /\ n - 1 \in DOMAIN sent /\ n \in 2 .. Len(sent) + 1
    BY ArrivalFacts
  <2>2. sent'[n] = sent[n] /\ sent'[n - 1] = sent[n - 1] /\ n \in 2 .. Len(sent')
    BY <2>1, ClientFacts
  <2>3. QED
    BY <2>2 DEF Tidy
<1>2. QED
  BY <1>1 DEF Tidy

LEMMA EndFacts ==
  ASSUME ArrivalTypes, Tidy, MessagesAreWhole, NEW i \in 0 .. Len(delivered)
  PROVE  EndOf(i) \in Nat
<1>1. CASE i = 0
  BY <1>1 DEF EndOf
<1>2. CASE i # 0
  <2>1. i \in DOMAIN delivered
    BY <1>2, ArrivalFacts
  <2>2. PICK w \in Seq(1 .. MaxMessages) : w = delivered[i]
    BY <2>1, ArrivalFacts
  <2>3. WholeMessage(w)
    BY <2>1, <2>2 DEF MessagesAreWhole
  <2>4. Len(w) \in 1 .. Len(w)
    BY <2>3 DEF WholeMessage
  <2>5. w[Len(w)] \in Nat
    <3>1. w[Len(w)] \in 2 .. Len(sent)
      BY <2>3, <2>4 DEF WholeMessage
    <3>2. QED
      BY <3>1, ArrivalFacts
  <2>6. QED
    BY <1>2, <2>2, <2>5 DEF EndOf, Last
<1>3. QED
  BY <1>1, <1>2

LEMMA NoDataStays ==
  ASSUME ArrivalTypes, NEW x \in Message, ClientStep(x), NEW f \in Nat, NEW g \in Nat,
         g <= Len(sent) + 1, NoData(f, g)
  PROVE  NoData(f, g)'
<1>1. ASSUME NEW n \in f + 1 .. g - 1 PROVE sent'[n].op \notin {"text", "cont"}
  <2>1. n \in DOMAIN sent
    BY ArrivalFacts
  <2>2. QED
    BY <2>1, ClientFacts DEF NoData
<1>2. QED
  BY <1>1 DEF NoData

LEMMA ClientMessages ==
  ASSUME ArrivalTypes, MessagesAreWhole, NEW x \in Message, ClientStep(x)
  PROVE  MessagesAreWhole'
<1> SUFFICES ASSUME Tidy', NEW i \in DOMAIN delivered'
             PROVE  (/\ WholeMessage(delivered[i])
                     /\ EndOf(i - 1) < delivered[i][1]
                     /\ NoData(EndOf(i - 1), delivered[i][1]))'
  BY DEF MessagesAreWhole
<1>1. Tidy
  BY TidyBefore
<1>2. delivered' = delivered /\ i \in 1 .. Len(delivered)
  BY ClientFacts, ArrivalFacts
<1>3. PICK w \in Seq(1 .. MaxMessages), f \in Nat : w = delivered[i] /\ f = EndOf(i - 1)
  <2>1. i - 1 \in 0 .. Len(delivered)
    BY <1>2, ArrivalFacts
  <2>2. EndOf(i - 1) \in Nat
    BY <1>1, <2>1, EndFacts
  <2>3. QED
    BY <1>2, <2>2, ArrivalFacts
<1>4. WholeMessage(w) /\ f < w[1] /\ NoData(f, w[1])
  BY <1>1, <1>2, <1>3, ArrivalFacts DEF MessagesAreWhole
<1>5. ASSUME NEW k \in DOMAIN w
      PROVE  w[k] \in 2 .. Len(sent) /\ sent'[w[k]] = sent[w[k]] /\ w[k] \in 2 .. Len(sent')
  <2>1. w[k] \in 2 .. Len(sent)
    BY <1>4 DEF WholeMessage
  <2>2. w[k] \in DOMAIN sent
    BY <2>1, ArrivalFacts
  <2>3. w[k] \in 2 .. Len(sent')
    BY <2>1, ClientFacts, ArrivalFacts
  <2>4. QED
    BY <2>1, <2>2, <2>3, ClientFacts
<1>6. WholeMessage(w)'
  BY <1>4, <1>5 DEF WholeMessage
<1>7. NoData(f, w[1])'
  <2>1. 1 \in DOMAIN w
    BY <1>4 DEF WholeMessage
  <2>2. w[1] \in Nat /\ w[1] <= Len(sent) + 1
    BY <1>5, <2>1, ArrivalFacts
  <2>3. QED
    BY <1>4, <2>2, NoDataStays
<1>8. f = EndOf(i - 1)' /\ w = delivered'[i]
  BY <1>2, <1>3 DEF EndOf
<1>9. QED
  BY <1>4, <1>6, <1>7, <1>8

LEMMA ClientOpen ==
  ASSUME ArrivalTypes, Tidy, NEW x \in Message, ClientStep(x),
         NEW m \in 0 .. Len(sent), OpenInv(m)
  PROVE  OpenInv(m)'
<1>1. UNCHANGED <<previous_data, delivered, lFrameType>>
  BY ClientFacts
<1>2. Kept(m)' = Kept(m) /\ LastDone' = LastDone
  BY <1>1 DEF Kept, LastDone, EndOf
<1>3. PICK c, f : c = Kept(m) /\ f = LastDone /\ f \in 0 .. c /\ NoData(f, c + 1)
  BY DEF OpenInv
<1>4. c \in Nat /\ c <= m /\ f \in Nat
  <2>1. c = m - Len(previous_data)
    BY <1>3 DEF Kept
  <2>2. c \in Int
    BY <2>1, ArrivalFacts
  <2>3. QED
    BY <1>3, <2>1, <2>2, ArrivalFacts
<1>5. NoData(f, c + 1)'
  <2>1. c + 1 \in Nat /\ c + 1 <= Len(sent) + 1
    BY <1>4, ArrivalFacts
  <2>2. QED
    BY <1>3, <1>4, <2>1, NoDataStays
<1>6. previous_data = <<>> <=> (m = 0 \/ sent'[m].fin)
  <2>1. m # 0 => m \in DOMAIN sent
    BY ArrivalFacts
  <2>2. QED
    BY <2>1, ClientFacts DEF OpenInv
<1>7. ASSUME NEW k \in DOMAIN previous_data
      PROVE  sent'[previous_data[k]] = sent[previous_data[k]]
  <2>1. previous_data[k] \in DOMAIN sent
    BY ArrivalFacts DEF OpenInv
  <2>2. QED
    BY <2>1, ClientFacts
<1>8. NoData(LastDone, Kept(m) + 1)'
  BY <1>2, <1>3, <1>5
<1>9. \A k \in DOMAIN previous_data' :
        /\ previous_data'[k] = Kept(m)' + k
        /\ previous_data'[k] \in 2 .. m
        /\ sent'[previous_data'[k]].op = IF k = 1 THEN "text" ELSE "cont"
        /\ ~sent'[previous_data'[k]].fin
  BY <1>1, <1>2, <1>7 DEF OpenInv
<1>10. /\ previous_data' = <<>> <=> (m = 0 \/ sent'[m].fin)
       /\ previous_data' # <<>> => lFrameType' = "text"
       /\ LastDone' \in 0 .. Kept(m)'
  BY <1>1, <1>2, <1>3, <1>6 DEF OpenInv
<1>11. QED
  BY <1>8, <1>9, <1>10 DEF OpenInv

(* A step that touches nothing of the messages.                            *)
LEMMA MessagesStay ==
  ASSUME UNCHANGED <<sent, delivered>>, MessagesAreWhole
  PROVE  MessagesAreWhole'
  BY DEF MessagesAreWhole, Tidy, WholeMessage, EndOf, NoData

LEMMA OpenStays ==
  ASSUME UNCHANGED <<sent, delivered, previous_data, lFrameType>>, NEW m, OpenInv(m)
  PROVE  OpenInv(m)'
  BY DEF OpenInv, Kept, LastDone, EndOf, NoData

LEMMA TidyStays ==
  ASSUME UNCHANGED sent
  PROVE  Tidy' = Tidy
  BY DEF Tidy

(* One message more has been taken: a whole frame, in its order.           *)
LEMMA FrameTaken ==
  ASSUME ArrivalTypes, ArrivalTypes', MessagesAreWhole, header,
         NEW n \in DOMAIN sent, NEW t \in FrameType, FrameStep(n, t), pc' # "shut",
         NEW m \in 0 .. Len(sent), TakenInv(m)
  PROVE  MessagesAreWhole' /\ m + 1 \in 0 .. Len(sent) /\ TakenInv(m + 1)'
<1>1. /\ n = m + 1 /\ Stream(Pending', m + 1, Len(sent)) /\ t \in TypesOf(sent[m + 1])
      /\ m >= 1
  BY FramePending DEF TakenInv
<1>2. m \in 1 .. Len(sent) /\ m + 1 \in DOMAIN sent /\ m + 1 \in 0 .. Len(sent) /\ m + 1 >= 1
  BY <1>1, ArrivalFacts
<1>3. UNCHANGED <<sent, header>> /\ lFrameType' = t
  BY DEF FrameStep, Frame
<1>4. ASSUME Tidy PROVE MessagesAreWhole' /\ OpenInv(m + 1)'
  <2>1. OpenInv(m)
    BY <1>4 DEF TakenInv
  <2>2. CASE t = "text"
    <3>1. sent[m + 1].op \in {"text", "cont"}
      BY <1>1, <2>2 DEF TypesOf
    <3>2. /\ delivered' = IF sent[m + 1].fin THEN Append(delivered, Append(previous_data, m + 1))
                          ELSE delivered
          /\ previous_data' = IF sent[m + 1].fin THEN <<>> ELSE Append(previous_data, m + 1)
      BY <1>1, <2>2 DEF FrameStep
    <3>3. CASE sent[m + 1].fin
      BY <1>2, <1>3, <1>4, <2>1, <3>1, <3>2, <3>3, MessageDone
    <3>4. CASE ~sent[m + 1].fin
      <4>1. OpenInv(m + 1)'
        BY <1>2, <1>3, <1>4, <2>1, <2>2, <3>1, <3>2, <3>4, MessageKept
      <4>2. QED
        BY <1>3, <3>2, <3>4, <4>1, MessagesStay
    <3>5. QED
      BY <3>3, <3>4
  <2>3. CASE t # "text"
    <3>1. t \in {"ping", "pong"} /\ UNCHANGED <<delivered, previous_data>>
      BY <2>3 DEF FrameStep
    <3>2. OpenInv(m + 1)'
      BY <1>1, <1>2, <1>3, <1>4, <2>1, <3>1, MessagePassed
    <3>3. QED
      BY <1>3, <3>1, <3>2, MessagesStay
  <2>4. QED
    BY <2>2, <2>3
<1>5. Tidy' = Tidy
  BY <1>3, TidyStays
<1>6. MessagesAreWhole'
  BY <1>4, <1>5 DEF MessagesAreWhole
<1>7. TakenInv(m + 1)'
  BY <1>1, <1>2, <1>3, <1>4, <1>5 DEF TakenInv
<1>8. QED
  BY <1>2, <1>6, <1>7

(* The units are moved, and none is taken.                                 *)
LEMMA NoneTaken ==
  ASSUME UNCHANGED <<sent, header, receiveBuffer, previous_data, lFrameType, delivered>>,
         Pending' = Pending, NEW m, TakenInv(m)
  PROVE  TakenInv(m)'
<1>1. Tidy' = Tidy /\ (OpenInv(m) => OpenInv(m)')
  BY TidyStays, OpenStays
<1>2. QED
  BY <1>1 DEF TakenInv

LEMMA ArrivalNext ==
  ASSUME CallInv, CallInv', ArrivalInv, ArrivalKind
  PROVE  ArrivalInv'
<1> USE DEF ArrivalInv
<1>1. ArrivalTypes'
  BY ArrivalTypesNext
<1>2. CASE IdleStep
  <2>1. MessagesAreWhole'
    BY <1>2, MessagesStay DEF IdleStep, MessageKeeps
  <2>2. ASSUME Reading' PROVE UsedInv' /\ \E m \in 0 .. Len(sent') : TakenInv(m)'
    <3>1. /\ Reading /\ MessageKeeps /\ UNCHANGED <<rx, readBuffer, header>>
          /\ \/ UNCHANGED <<pc, ret>> /\ (call' # "none" => call # "none")
             \/ pc = "headers" /\ header /\ pc' = "upgraded" /\ UNCHANGED ret
             \/ pc \in {"upgraded", "loop"} /\ pc' \in {"loop", "wait"} /\ ret' = <<>>
      BY <1>2, <2>2 DEF IdleStep
    <3>2. UNCHANGED ret
      BY <3>1 DEF UsedInv
    <3>3. UsedInv'
      BY <3>1, <3>2 DEF UsedInv
    <3>4. PICK m \in 0 .. Len(sent) : TakenInv(m)
      BY <3>1
    <3>5. Pending' = Pending
      BY <3>1, <3>2 DEF Pending, MessageKeeps
    <3>6. TakenInv(m)' /\ m \in 0 .. Len(sent')
      BY <3>1, <3>4, <3>5, NoneTaken DEF MessageKeeps
    <3>7. QED
      BY <3>3, <3>6
  <2>3. QED
    BY <1>1, <2>1, <2>2
<1>3. ASSUME NEW n \in {0, 2}, StartStep(n) PROVE ArrivalInv'
  <2>0. MessageKeeps /\ pc \in {"start", "headers", "loop", "wait"} /\ call = "none"
        /\ pc' \in {"headers", "body", "decode", "waitDecode"}
        /\ (pc' = "headers" => pc = "start") /\ (pc' # "body" => pc # "headers")
    BY <1>3 DEF StartStep, ReceiveStarts
  <2>1. MessagesAreWhole'
    BY <2>0, MessagesStay DEF MessageKeeps
  <2>2. ASSUME Reading' PROVE UsedInv' /\ \E m \in 0 .. Len(sent') : TakenInv(m)'
    <3>1. Reading /\ pc' # "body"
      BY <2>0, <2>2 DEF Reading
    <3>2. ret = <<>> /\ (pc = "start" => ~header)
      BY <2>0, <3>1 DEF UsedInv
    <3>3. Pending' = Pending /\ UNCHANGED header /\ (call' # "none" => ret' = <<>>)
      BY <1>3, <3>1, <3>2, StartPending
    <3>4. UsedInv'
      BY <2>0, <3>1, <3>2, <3>3 DEF UsedInv
    <3>5. PICK m \in 0 .. Len(sent) : TakenInv(m)
      BY <3>1
    <3>6. TakenInv(m)' /\ m \in 0 .. Len(sent')
      BY <2>0, <3>3, <3>5, NoneTaken DEF MessageKeeps
    <3>7. QED
      BY <3>4, <3>6
  <2>3. QED
    BY <1>1, <2>1, <2>2
<1>4. CASE ReceiveStep
  <2>0. MessageKeeps /\ UNCHANGED pc /\ call = "receive"
    BY <1>4, ReceiveMoves
  <2>1. MessagesAreWhole'
    BY <2>0, MessagesStay DEF MessageKeeps
  <2>2. ASSUME Reading' PROVE UsedInv' /\ \E m \in 0 .. Len(sent') : TakenInv(m)'
    <3>1. Reading /\ call' # "threw" /\ pc \in {"headers", "decode", "waitDecode"}
      BY <2>0, <2>2 DEF Reading, CallInv
    <3>2. ret = <<>>
      BY <2>0, <3>1 DEF UsedInv
    <3>3. PICK m \in 0 .. Len(sent) : TakenInv(m)
      BY <3>1
    <3>4. ~header => m = 0 /\ receiveBuffer = <<>>
      BY <3>3 DEF TakenInv
    <3>5. /\ (call' # "none" => ret' = <<>>)
          /\ \/ Pending' = Pending /\ UNCHANGED header
             \/ /\ ~header /\ header' = TRUE /\ ret' = <<>> /\ call' = "none" /\ Len(Pending) >= 2
                /\ Pending' = SubSeq(Pending, 3, Len(Pending))
      BY <1>4, <3>1, <3>2, <3>4, ReceivePending
    <3>6. CASE Pending' = Pending /\ UNCHANGED header
      <4>1. TakenInv(m)' /\ m \in 0 .. Len(sent')
        BY <2>0, <3>3, <3>6, NoneTaken DEF MessageKeeps
      <4>2. UsedInv'
        <5>1. pc = "headers" => ~header
          BY <2>0, <3>1 DEF UsedInv
        <5>2. QED
          BY <2>0, <3>1, <3>5, <3>6, <5>1 DEF UsedInv
      <4>3. QED
        BY <4>1, <4>2
    <3>7. CASE /\ ~header /\ header' = TRUE /\ ret' = <<>> /\ call' = "none" /\ Len(Pending) >= 2
               /\ Pending' = SubSeq(Pending, 3, Len(Pending))
      <4>1. m = 0 /\ Stream(Pending, 0, Len(sent)) /\ (Tidy => OpenInv(0)) /\ Len(sent) \in Nat
        BY <3>3, <3>4, <3>7, ArrivalFacts DEF TakenInv
      <4>2. Len(sent) > 0 /\ Stream(SubSeq(Pending, 3, Len(Pending)), 0 + 1, Len(sent))
        BY <3>7, <4>1, StreamTaken
      <4>3. Stream(Pending', 1, Len(sent)) /\ 1 \in DOMAIN sent
        BY <3>7, <4>1, <4>2, ArrivalFacts
      <4>4. Tidy' => OpenInv(1)'
        BY <2>0, <4>1, <4>3, TidyStays, HeadersTaken DEF MessageKeeps
      <4>5. TakenInv(1)' /\ 1 \in 0 .. Len(sent')
        BY <2>0, <3>7, <4>1, <4>2, <4>3, <4>4 DEF TakenInv, MessageKeeps
      <4>6. UsedInv'
        BY <2>0, <3>1, <3>7 DEF UsedInv
      <4>7. QED
        BY <4>5, <4>6
    <3>8. QED
      BY <3>5, <3>6, <3>7
  <2>3. QED
    BY <1>1, <2>1, <2>2
<1>5. CASE PartStep
  <2>1. /\ UNCHANGED <<sent, header, previous_data, lFrameType, delivered>>
        /\ pc \in {"decode", "waitDecode"} /\ pc' \in {"loop", "wait"}
        /\ call = "none" /\ call' = "none" /\ ret' = <<>>
    BY <1>5 DEF PartStep
  <2>2. Reading /\ header
    BY <2>1 DEF Reading, CallInv
  <2>3. PICK m \in 0 .. Len(sent) : TakenInv(m)
    BY <2>2
  <2>4. Pending' = Pending
    BY <1>5, PartPending
  <2>5. Tidy' => OpenInv(m)'
    BY <2>1, <2>3, TidyStays, OpenStays DEF TakenInv
  <2>6. TakenInv(m)' /\ m \in 0 .. Len(sent')
    BY <2>1, <2>2, <2>3, <2>4, <2>5 DEF TakenInv
  <2>7. UsedInv' /\ MessagesAreWhole'
    BY <2>1, MessagesStay DEF UsedInv
  <2>8. QED
    BY <1>1, <2>6, <2>7
<1>6. ASSUME NEW n \in DOMAIN sent, NEW t \in FrameType, FrameStep(n, t) PROVE ArrivalInv'
  <2>1. /\ UNCHANGED <<sent, header>> /\ ret' = <<>> /\ pc \in {"decode", "waitDecode"}
        /\ call = "none" /\ pc' \in {"loop", "wait", "shut"}
    BY <1>6 DEF FrameStep, Frame, Decoding, Ready
  <2>2. Reading /\ header
    BY <2>1 DEF Reading, CallInv
  <2>3. PICK m \in 0 .. Len(sent) : TakenInv(m)
    BY <2>2
  <2>4. CASE pc' = "shut"
    <3>1. UNCHANGED delivered
      BY <1>6, <2>4 DEF FrameStep
    <3>2. MessagesAreWhole' /\ ~Reading'
      BY <2>1, <2>4, <3>1, MessagesStay DEF Reading
    <3>3. QED
      BY <1>1, <3>2
  <2>5. CASE pc' # "shut"
    <3>1. MessagesAreWhole' /\ m + 1 \in 0 .. Len(sent) /\ TakenInv(m + 1)'
      BY <1>1, <1>6, <2>2, <2>3, <2>5, FrameTaken
    <3>2. UsedInv'
      BY <2>1, <2>5 DEF UsedInv
    <3>3. \E k \in 0 .. Len(sent') : TakenInv(k)'
      BY <2>1, <3>1
    <3>4. QED
      BY <1>1, <3>1, <3>2, <3>3
  <2>6. QED
    BY <2>4, <2>5
<1>7. ASSUME NEW x \in Message, ClientStep(x) PROVE ArrivalInv'
  <2>1. UNCHANGED <<pc, call, header, ret, receiveBuffer>> /\ Len(sent') = Len(sent) + 1
    BY <1>7, ClientFacts
  <2>2. MessagesAreWhole'
    BY <1>7, ClientMessages
  <2>3. ASSUME Reading' PROVE UsedInv' /\ \E m \in 0 .. Len(sent') : TakenInv(m)'
    <3>1. Reading /\ UsedInv
      BY <2>1, <2>3 DEF Reading
    <3>2. PICK m \in 0 .. Len(sent) : TakenInv(m)
      BY <3>1
    <3>3. Stream(Pending', m, Len(sent'))
      BY <1>7, <3>2, ClientPending DEF TakenInv
    <3>4. Tidy' => OpenInv(m)'
      BY <1>7, <3>2, TidyBefore, ClientOpen DEF TakenInv
    <3>5. TakenInv(m)'
      BY <2>1, <3>2, <3>3, <3>4 DEF TakenInv
    <3>6. m \in 0 .. Len(sent') /\ UsedInv'
      BY <2>1, <3>1, ArrivalFacts DEF UsedInv
    <3>7. QED
      BY <3>5, <3>6
  <2>4. QED
    BY <1>1, <2>2, <2>3
<1>8. QED
  BY <1>2, <1>3, <1>4, <1>5, <1>6, <1>7 DEF ArrivalKind

LEMMA ArrivalInit ==
  Init => ArrivalInv
<1> SUFFICES ASSUME Init PROVE ArrivalInv
  OBVIOUS
<1>1. /\ pc = "start" /\ call = "none" /\ header = FALSE /\ lFrameType = "none"
      /\ sent = <<>> /\ rx = <<>> /\ readBuffer = <<>> /\ ret = <<>>
      /\ receiveBuffer = <<>> /\ previous_data = <<>> /\ delivered = <<>>
  BY DEF Init, SocketInit
<1>2. Len(<<>>) = 0 /\ DOMAIN <<>> = {} /\ \A S : <<>> \in Seq(S)
  OBVIOUS
<1>3. ArrivalTypes
  <2>1. /\ sent \in Seq(Message) /\ rx \in Seq(Unit) /\ readBuffer \in Seq(Unit)
        /\ ret \in Seq(Unit) /\ receiveBuffer \in Seq(Unit)
        /\ previous_data \in Seq(1 .. MaxMessages) /\ delivered \in Seq(Seq(1 .. MaxMessages))
    BY <1>1, <1>2
  <2>2. Len(sent) <= MaxMessages /\ Len(previous_data) <= MaxFragments
    BY <1>1, <1>2, SocketAssumption, WebSocketAssumption
  <2>3. DOMAIN sent = {}
    BY <1>1, <1>2
  <2>4. QED
    BY <1>1, <2>1, <2>2, <2>3 DEF ArrivalTypes
<1>4. MessagesAreWhole
  BY <1>1, <1>2 DEF MessagesAreWhole
<1>5. UsedInv
  BY <1>1 DEF UsedInv
<1>6. TakenInv(0)
  <2>1. Pending = <<>>
    <3>1. <<>> \o <<>> = <<>>
      BY <1>2, EmptyConcat
    <3>2. QED
      BY <1>1, <3>1 DEF Pending
  <2>2. Stream(Pending, 0, Len(sent))
    BY <1>1, <1>2, <2>1 DEF Stream
  <2>3. Kept(0) = 0
    BY <1>1, NothingKept
  <2>4. LastDone = 0
    BY <1>1, <1>2 DEF LastDone, EndOf
  <2>5. NoData(0, 0 + 1)
    BY DEF NoData
  <2>6. OpenInv(0)
    BY <1>1, <1>2, <2>3, <2>4, <2>5 DEF OpenInv
  <2>7. QED
    BY <1>1, <2>2, <2>6 DEF TakenInv
<1>7. 0 \in 0 .. Len(sent)
  BY <1>1, <1>2
<1>8. QED
  BY <1>3, <1>4, <1>5, <1>6, <1>7 DEF ArrivalInv

LEMMA ArrivalAlways ==
  Spec => []ArrivalInv
<1>1. IInv /\ ArrivalInv /\ [Next]_vars => ArrivalInv'
  <2> SUFFICES ASSUME IInv, ArrivalInv, [Next]_vars PROVE ArrivalInv'
    OBVIOUS
  <2>1. CallInv /\ CallInv'
    BY IInvNext DEF IInv
  <2>2. ArrivalKind
    BY <2>1, ArrivalKinds
  <2>3. QED
    BY <2>1, <2>2, ArrivalNext
<1>2. QED
  BY <1>1, ArrivalInit, IInvAlways, PTL DEF Spec

(* However poll() and netRead() cut what the client sends, receive()       *)
(* returns its messages whole and in their order, none twice and none left *)
(* out: the headers, receiveBuffer and previous_data lose nothing and mix  *)
(* up nothing.                                                             *)
THEOREM MessagesArriveWhole == Spec => []MessagesAreWhole
<1>1. ArrivalInv => MessagesAreWhole
  BY DEF ArrivalInv
<1>2. QED
  BY <1>1, ArrivalAlways, PTL

-----------------------------------------------------------------------------
(* The other variables: limits, flags and counters.                        *)

PlainTypes ==
  /\ peer \in {"open", "closed", "reset"}
  /\ Len(tx) <= TxSize
  /\ want \in 0 .. 2 /\ late \in BOOLEAN
  /\ closeSent \in BOOLEAN /\ rounds \in 0 .. Rounds

LEMMA PlainValues ==
  /\ 0 \in 0 .. 2 /\ 2 \in 0 .. 2 /\ FALSE \in BOOLEAN /\ TRUE \in BOOLEAN
  OBVIOUS

LEMMA StartsPlain ==
  /\ \A n \in {0, 2} : PlainTypes /\ ReceiveStarts(n) =>
       UNCHANGED <<peer, tx>> /\ want' \in 0 .. 2 /\ late' \in BOOLEAN
  /\ \A data : PlainTypes /\ SendStarts(data) =>
       UNCHANGED <<peer, tx>> /\ want' \in 0 .. 2 /\ late' \in BOOLEAN
  /\ PlainTypes /\ Close =>
       UNCHANGED <<peer, tx>> /\ want' \in 0 .. 2 /\ late' \in BOOLEAN /\ closeSent' \in BOOLEAN
<1>1. ASSUME NEW n \in {0, 2}, PlainTypes, ReceiveStarts(n)
      PROVE  UNCHANGED <<peer, tx>> /\ want' \in 0 .. 2 /\ late' \in BOOLEAN
  BY <1>1, PlainValues DEF PlainTypes, ReceiveStarts, Return, HeadersSize, network
<1>2. ASSUME NEW data, PlainTypes, SendStarts(data)
      PROVE  UNCHANGED <<peer, tx>> /\ want' \in 0 .. 2 /\ late' \in BOOLEAN
  BY <1>2 DEF PlainTypes, SendStarts, network
<1>3. ASSUME PlainTypes, Close
      PROVE  /\ UNCHANGED <<peer, tx>> /\ want' \in 0 .. 2 /\ late' \in BOOLEAN
             /\ closeSent' \in BOOLEAN
  BY <1>2, <1>3 DEF Close, Used, network, PlainTypes
<1>4. QED
  BY <1>1, <1>2, <1>3

LEMMA CallsPlain ==
  ASSUME PlainTypes, BufferInv, Receive \/ Send
  PROVE  UNCHANGED peer /\ Len(tx') <= TxSize /\ want' \in 0 .. 2 /\ late' \in BOOLEAN
<1> USE DEF PlainTypes, network
<1>1. CASE Receive
  <2>1. UNCHANGED <<peer, tx>>
    BY <1>1 DEF Receive, ReceiveGets, ReceiveTimesOut, ReceiveMeetsEnd, ReceiveFindsNothing,
       ReceiveReads
  <2>2. CASE ReceiveTimesOut \/ ReceiveMeetsEnd \/ ReceiveFindsNothing
    BY <2>1, <2>2, PlainValues DEF ReceiveTimesOut, ReceiveMeetsEnd, ReceiveFindsNothing,
       ReceiveBreaks, Return, Throw
  <2>3. ASSUME NEW k \in 1 .. Len(rx), NEW hup \in BOOLEAN, ReceiveReads(k, hup)
        PROVE  want' \in 0 .. 2 /\ late' \in BOOLEAN
    BY <2>3, PlainValues DEF ReceiveReads, Return, Throw
  <2>4. QED
    BY <1>1, <2>1, <2>2, <2>3 DEF Receive, ReceiveGets
<1>2. CASE Send
  <2>1. CASE SendTimesOut \/ SendFails
    BY <2>1 DEF SendTimesOut, SendFails, SendBreaks, SendThrows
  <2>2. CASE SendWrites
    <3>1. Len(tx') = Len(tx) + 1 /\ Len(tx) \in Nat
      BY <2>2, WritesFacts, AppendProperties DEF BufferInv
    <3>2. Len(tx) < TxSize /\ TxSize \in Nat
      BY <2>2, SocketAssumption DEF SendWrites
    <3>3. UNCHANGED <<peer, want, late>>
      BY <2>2 DEF SendWrites
    <3>4. QED
      BY <3>1, <3>2, <3>3
  <2>3. QED
    BY <1>2, <2>1, <2>2 DEF Send
<1>3. QED
  BY <1>1, <1>2

LEMMA PlainNext ==
  ASSUME PlainTypes, BufferInv, [Next]_vars
  PROVE  PlainTypes'
<1> USE DEF ws
<1>1. CASE ReadHeaders \/ ReceiveBody \/ AppReceives
  <2>1. \E n \in {0, 2} : ReceiveStarts(n) /\ UNCHANGED <<closeSent, rounds>>
    BY <1>1 DEF ReadHeaders, ReceiveBody, AppReceives, HeadersSize
  <2>2. QED
    BY <2>1, StartsPlain DEF PlainTypes
<1>2. CASE NoRequest \/ Upgrade \/ RequestThrows \/ Catch
  BY <1>2 DEF NoRequest, Upgrade, RequestThrows, Catch, Used, network, PlainTypes
<1>3. CASE Shut \/ WaitEnds \/ LoopEnds
  BY <1>3 DEF Shut, WaitEnds, LoopEnds, Shutdown, socket, network, PlainTypes
<1>4. CASE Reply \/ Handshake \/ AppSends
  <2>1. \E data : SendStarts(data) /\ UNCHANGED <<closeSent, rounds>>
    BY <1>4 DEF Reply, Handshake, AppSends
  <2>2. QED
    BY <2>1, StartsPlain DEF PlainTypes
<1>5. CASE SendCode
  <2>1. UNCHANGED <<closeSent, rounds>>
    BY <1>5 DEF SendCode
  <2>2. UNCHANGED <<peer, tx>> /\ want' \in 0 .. 2 /\ late' \in BOOLEAN
    BY <1>5, StartsPlain DEF SendCode, socket, PlainTypes
  <2>3. QED
    BY <2>1, <2>2 DEF PlainTypes
<1>6. CASE AppCloses \/ AppClosesAndWaits
  <2>1. Close /\ rounds' \in {rounds, Rounds}
    BY <1>6 DEF AppCloses, AppClosesAndWaits
  <2>2. Rounds \in 0 .. Rounds
    BY WebSocketAssumption
  <2>3. QED
    BY <2>1, <2>2, StartsPlain DEF PlainTypes
<1>7. CASE WaitRound
  <2>1. rounds' = rounds - 1 /\ rounds > 0 /\ UNCHANGED closeSent
        /\ (ReceiveStarts(0) \/ UNCHANGED socket)
    BY <1>7 DEF WaitRound
  <2>2. rounds' \in 0 .. Rounds
    <3>1. rounds \in 0 .. Rounds /\ Rounds \in Nat
      BY WebSocketAssumption DEF PlainTypes
    <3>2. QED
      BY <2>1, <3>1
  <2>3. UNCHANGED <<peer, tx>> /\ want' \in 0 .. 2 /\ late' \in BOOLEAN
    BY <2>1, StartsPlain DEF socket, PlainTypes
  <2>4. QED
    BY <2>1, <2>2, <2>3 DEF PlainTypes
<1>8. CASE FrameIncomplete
  BY <1>8 DEF FrameIncomplete, Used, network, PlainTypes
<1>9. ASSUME NEW n \in DOMAIN sent, NEW m, NEW t \in FrameType,
             \/ DataFrame(n, m, t) \/ PongFrame(n, m, t) \/ PingFrame(n, m, t)
             \/ DataFrameRefused(n, m, t) \/ CloseFrame(n, m, t)
      PROVE  PlainTypes'
  <2>1. CASE DataFrame(n, m, t) \/ PongFrame(n, m, t)
    BY <2>1 DEF DataFrame, PongFrame, Used, network, PlainTypes
  <2>2. CASE PingFrame(n, m, t)
    <3>1. SendStarts(<<"pong">>) /\ UNCHANGED <<closeSent, rounds>>
      BY <2>2 DEF PingFrame
    <3>2. QED
      BY <3>1, StartsPlain DEF PlainTypes
  <2>3. CASE DataFrameRefused(n, m, t) \/ CloseFrame(n, m, t)
    <3>1. Close /\ UNCHANGED rounds
      BY <2>3 DEF DataFrameRefused, CloseFrame
    <3>2. QED
      BY <3>1, StartsPlain DEF PlainTypes
  <2>4. QED
    BY <1>9, <2>1, <2>2, <2>3
<1>10. CASE SocketCall
  BY <1>10, CallsPlain DEF SocketCall, PlainTypes
<1>11. CASE World
  <2>1. CASE PeerReads
    <3>1. tx # <<>> /\ tx' = Tail(tx) /\ UNCHANGED <<peer, want, late, closeSent, rounds>>
      BY <1>11, <2>1 DEF World, PeerReads
    <3>2. Len(tx') <= TxSize
      <4>1. Len(tx) \in Nat /\ Len(tx') = Len(tx) - 1
        BY <3>1, HeadTailProperties DEF BufferInv
      <4>2. QED
        BY <4>1, SocketAssumption DEF PlainTypes
    <3>3. QED
      BY <3>1, <3>2 DEF PlainTypes
  <2>2. CASE ~PeerReads
    BY <1>11, <2>2 DEF World, PeerSends, PeerLeaves, TimePasses, network, PlainTypes
  <2>3. QED
    BY <2>1, <2>2
<1>12. CASE UNCHANGED vars
  BY <1>12 DEF vars, PlainTypes
<1>13. QED
  BY <1>1, <1>2, <1>3, <1>4, <1>5, <1>6, <1>7, <1>8, <1>9, <1>10, <1>11, <1>12
     DEF Next, Http, Closing, Decode

(* The fields of Socket and webSocket keep their types, the kernel's send  *)
(* buffer and previous_data their limits.                                  *)
THEOREM WebSocketTypes == Spec => []TypeOK
<1>1. Init => PlainTypes
  <2> SUFFICES ASSUME Init PROVE PlainTypes
    OBVIOUS
  <2>1. peer = "open" /\ tx = <<>> /\ want = 0 /\ late = FALSE /\ closeSent = FALSE /\ rounds = 0
    BY DEF Init, SocketInit
  <2>2. Len(tx) <= TxSize
    BY <2>1, SocketAssumption
  <2>3. 0 \in 0 .. Rounds
    BY WebSocketAssumption
  <2>4. QED
    BY <2>1, <2>2, <2>3, PlainValues DEF PlainTypes
<1>2. IInv /\ PlainTypes /\ [Next]_vars => PlainTypes'
  BY PlainNext DEF IInv
<1>3. IInv /\ PlainTypes /\ ArrivalInv => TypeOK
  BY DEF IInv, CallInv, BufferInv, PlainTypes, ArrivalInv, ArrivalTypes, TypeOK, SocketTypeOK,
     Calls
<1>4. QED
  BY <1>1, <1>2, <1>3, IInvAlways, ArrivalAlways, PTL DEF Spec
=============================================================================
