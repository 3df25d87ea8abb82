-------------------------- MODULE DirectEchoClient --------------------------
(***************************************************************************)
(* socket_without_device_afd/echo_client/: the echo client in place of     *)
(* DirectSocket's most general application, and a peer that sends back     *)
(* what it was sent but may end the connection at any time.                *)
(***************************************************************************)
EXTENDS DirectSocket, EchoClientProgram

VARIABLE echoed    \* units of data the peer has sent back

clientVars == <<vars, program, echoed>>

----------------------------------------------------------------------------
(* The callbacks                                                           *)

\* The program goes on with the callback that runs now, if any.
Goes == Called(IF stack' = <<>> THEN "none" ELSE stack'[Len(stack')].run)

SendMessage ==
  /\ MessageSent
  /\ \/ WriteAll
     \/ /\ Connected /\ net.link = "up" /\ net.room
        /\ UNCHANGED vars

SendFails == MessageNotSent /\ WriteSome

ReadData ==
  /\ ReadSome
  /\ DataRead(net.inbox - net'.inbox)

ReadFindsNothing == NothingRead /\ ReadNothing

\* shutdown() does nothing to a closed socket and otherwise succeeds while
\* on_client_close runs, unless the connection has been reset meanwhile.
ShutDownBoth ==
  \/ /\ Finishes("shutdown")
     /\ IF s = "invalid" THEN UNCHANGED vars
        ELSE Shutdown /\ shut' = {"receive", "send"}
  \/ /\ at = "shutdown" /\ s = "open" /\ net.link = "reset"
     /\ Throws("failed to shutdown")
     /\ UNCHANGED vars

\* close() leaves a closed socket alone.
CloseSocket ==
  /\ Finishes("close")
  /\ IF s = "open" THEN Close ELSE UNCHANGED vars

----------------------------------------------------------------------------
(* main                                                                    *)

ConnectToServer ==
  Looping /\ stack = <<>> /\ Connect /\ UNCHANGED program

TakePacket == Looping /\ Dispatch /\ Goes

\* A callback has returned: handle_events makes the next one, polls again
\* or announces that the connection is complete, to which this program does
\* nothing.
HandleOn == at \in {"none", "return"} /\ (NextCallback \/ Handled \/ Return) /\ Goes

\* The exception leaves handle_events and main's loop.
LeaveByException ==
  /\ at = "throw" /\ Throw
  /\ at' = "none"
  /\ UNCHANGED <<bytes_read, number_of_messages_sent, is_done, thrown>>

\* ~echo_client, after an exception: close(), which calls nothing, because
\* something is always wanted by then.
CloseAtEnd == ~Looping /\ ~is_done /\ stack = <<>> /\ Close /\ UNCHANGED program

\* ~tcp_socket
End ==
  /\ ~Looping /\ (is_done \/ s = "invalid") /\ stack = <<>>
  /\ Delete
  /\ UNCHANGED program

----------------------------------------------------------------------------
(* The echo server (external)                                              *)

ServerEchoes ==
  /\ echoed < number_of_messages_sent * MessageSize
  /\ net.link = "up" /\ ~net.fin /\ net.inbox < MaxInbox
  /\ Network([net EXCEPT !.inbox = @ + 1])
  /\ echoed' = echoed + 1
  /\ UNCHANGED program

ServerEnds ==
  /\ PeerShutsDown \/ PeerAborts
  /\ UNCHANGED <<program, echoed>>

ServerAnswers ==
  /\ PeerAccepts \/ PeerRefuses
  /\ UNCHANGED <<program, echoed>>

ServerReads == PeerReads /\ UNCHANGED <<program, echoed>>

----------------------------------------------------------------------------

ClientStep ==
  /\ \/ SendMessage \/ SendFails
     \/ LastMessageBack /\ UNCHANGED vars
     \/ ReadData \/ ReadFindsNothing \/ ShutDownBoth \/ CloseSocket
     \/ ConnectToServer \/ TakePacket \/ HandleOn \/ LeaveByException
     \/ CloseAtEnd \/ End
  /\ UNCHANGED echoed

ClientInit == Init /\ net = NewEndpoint /\ ProgramInit /\ echoed = 0

ClientNext == ClientStep \/ ServerEchoes \/ ServerEnds \/ ServerAnswers \/ ServerReads

\* The thread always runs; the server answers the connection request and
\* echoes what it gets for as long as it does not end the connection.
ClientSpec ==
  /\ ClientInit /\ [][ClientNext]_clientVars
  /\ WF_clientVars(ClientStep) /\ WF_clientVars(ServerEchoes)
  /\ WF_clientVars(ServerAnswers)

----------------------------------------------------------------------------

\* How the program may end.  Unless the server ended the connection, it ends
\* without an exception only when every message has come back.  A server
\* that closes first does not make this client throw, unlike the one of the
\* other design: on_client_close is called while the socket still is
\* connected.  Only a reset that arrives before the shutdown() does
\* (echo_client.cpp:92-109, 198, tcp_socket.cpp:481-483).
EndsAsMeant ==
  /\ /\ is_done /\ thrown = "none"
     /\ calls["on_connection_reset"] = 0 /\ calls["on_client_close"] = 0
     => /\ number_of_messages_sent = number_of_messages
        /\ echoed = number_of_messages * MessageSize
  /\ thrown \in {"none", "failed to send all data", "connection failed",
                 "failed to shutdown"}
  /\ thrown = "failed to shutdown" => net.link \in {"reset", "closed"}

\* The program ends (echo_client.cpp:263-277).
ProgramEnds == <>(is_done \/ thrown # "none")

============================================================================
