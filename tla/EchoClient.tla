----------------------------- MODULE EchoClient -----------------------------
(***************************************************************************)
(* socket/echo_client/: the echo client in place of TcpSocket's most       *)
(* general application, and a peer that sends back what it was sent but    *)
(* may end the connection at any time.                                     *)
(***************************************************************************)
EXTENDS TcpSocket, EchoClientProgram

VARIABLE echoed    \* units of data the peer has sent back

clientVars == <<vars, program, echoed>>

----------------------------------------------------------------------------
(* The callbacks                                                           *)

\* The program goes on in the frame that is on top of stack'.  The only
\* nested call is the one close() makes in a callback, which returns next.
Goes ==
  IF Len(stack) = 2 THEN UNCHANGED program
  ELSE Called(IF stack' = <<>> THEN "none" ELSE stack'[Len(stack')].run)

SendMessage ==
  /\ MessageSent
  /\ \/ WriteAll
     \/ /\ Connected /\ net.link = "up" /\ net.room
        /\ UNCHANGED vars

SendFails == MessageNotSent /\ WriteSome

ReadData ==
  /\ ReadSome
  /\ DataRead(net.inbox - net'.inbox)

ReadFindsNothing == NothingRead /\ ReadNothing

\* shutdown() throws unless connected, and on_client_close is called after
\* the state has changed.  No other call of this program finds the socket
\* unconnected: one that did would have no step here, and ProgramEnds would
\* fail.
ShutDownBoth ==
  /\ at = "shutdown" /\ ~Connected
  /\ Throws("not connected")
  /\ UNCHANGED vars

\* events is {} inside a callback, so close() calls on_disconnected, which
\* sets is_done too, before it returns; close() leaves a closed socket alone.
CloseSocket ==
  /\ Finishes("close")
  /\ IF s = "open" THEN Close ELSE UNCHANGED vars

----------------------------------------------------------------------------
(* main                                                                    *)

ConnectToServer == Looping /\ stack = <<>> /\ Connect /\ UNCHANGED program

TakePacket == Looping /\ Dispatch /\ Goes

ReturnFromCallback == at = "return" /\ Return /\ Goes

\* The exception leaves handle_events and main's loop.
LeaveByException ==
  /\ at = "throw" /\ Throw
  /\ at' = "none"
  /\ UNCHANGED <<bytes_read, number_of_messages_sent, is_done, thrown>>

\* ~echo_client, after an exception: close(), which calls on_disconnected if
\* nothing is wanted.
CloseAtEnd ==
  /\ ~Looping /\ ~is_done /\ stack = <<>>
  /\ Close
  /\ IF stack' = <<>> THEN UNCHANGED program ELSE Finishes("none")

\* ~tcp_socket
End == ~Looping /\ (is_done \/ s = "invalid") /\ Destroy /\ UNCHANGED program

----------------------------------------------------------------------------

\* The echo server sends back what it has received, in pieces.
ServerEchoes ==
  /\ echoed < number_of_messages_sent * MessageSize
  /\ PeerSends
  /\ echoed' = echoed + 1
  /\ UNCHANGED program

ServerEnds ==
  /\ PeerShutsDown \/ PeerAborts
  /\ UNCHANGED <<program, echoed>>

ServerAnswers ==
  /\ PeerAccepts \/ PeerRefuses
  /\ UNCHANGED <<program, echoed>>

ServerReads == PeerReads /\ UNCHANGED <<program, echoed>>

ClientStep ==
  /\ \/ SendMessage \/ SendFails
     \/ LastMessageBack /\ UNCHANGED vars
     \/ ReadData \/ ReadFindsNothing \/ ShutDownBoth
     \/ CloseSocket
     \/ ConnectToServer \/ TakePacket \/ ReturnFromCallback \/ LeaveByException
     \/ CloseAtEnd \/ End
  /\ UNCHANGED echoed

ClientInit == Init /\ ProgramInit /\ echoed = 0

ClientNext == ClientStep \/ ServerEchoes \/ ServerEnds \/ ServerAnswers \/ ServerReads

\* The thread always runs; the server answers the connection request and
\* echoes what it gets for as long as it does not end the connection.
ClientSpec ==
  /\ ClientInit /\ [][ClientNext]_clientVars
  /\ WF_clientVars(ClientStep) /\ WF_clientVars(ServerEchoes)
  /\ WF_clientVars(ServerAnswers)

----------------------------------------------------------------------------

\* The client never has two polls outstanding, although it neither counts
\* them nor stays out of the socket while one is: it keeps to the discipline
\* under which TcpSocket's theorems hold (echo_client.cpp:112-141).
WaitsForOneThing == OnePollOutstanding

\* How the program may end.  Unless the server reset the connection, it ends
\* without an exception only when every message has come back; by an
\* exception it ends if a send falls short, the connection fails, or the
\* server closes first, which the client answers by a shutdown() that throws
\* (echo_client.cpp:92-109, 187).
EndsAsMeant ==
  /\ is_done /\ thrown = "none" /\ calls["on_connection_reset"] = 0 =>
       /\ number_of_messages_sent = number_of_messages
       /\ echoed = number_of_messages * MessageSize
  /\ thrown \in {"none", "failed to send all data", "connection failed", "not connected"}
  /\ thrown = "not connected" => calls["on_client_close"] > 0

\* The program ends: main's loop is left (echo_client.cpp:247-261).
ProgramEnds == <>(is_done \/ thrown # "none")

============================================================================
