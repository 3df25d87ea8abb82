------------------------ MODULE DirectEchoClientProofs ------------------------
(***************************************************************************)
(* Theorems about the echo client of socket_without_device_afd/: it is an  *)
(* application of DirectSocket, so that what is proved of the socket holds *)
(* for it, and it ends as it is meant to, for every number and size of     *)
(* messages.                                                               *)
(***************************************************************************)
EXTENDS DirectEchoClient, DirectSocketProofs

----------------------------------------------------------------------------
(* The client uses its socket as any application may                       *)

LEMMA ClientSteps == ClientNext => [Next]_vars
<1> SUFFICES ASSUME ClientNext PROVE [Next]_vars
  OBVIOUS
<1> USE DEF Next, Application, Thread, Peer
<1>1. CASE SendMessage \/ SendFails \/ (LastMessageBack /\ UNCHANGED vars)
  BY <1>1 DEF SendMessage, SendFails
<1>2. CASE ReadData \/ ReadFindsNothing \/ ShutDownBoth \/ CloseSocket
  BY <1>2 DEF ReadData, ReadFindsNothing, ShutDownBoth, CloseSocket
<1>3. CASE ConnectToServer \/ TakePacket \/ HandleOn \/ LeaveByException
           \/ CloseAtEnd \/ End
  BY <1>3 DEF ConnectToServer, TakePacket, HandleOn, LeaveByException, CloseAtEnd, End
<1>4. CASE ServerEchoes
  BY <1>4 DEF ServerEchoes, PeerSends
<1>5. CASE ServerEnds \/ ServerAnswers \/ ServerReads
  BY <1>5 DEF ServerEnds, ServerAnswers, ServerReads
<1>6. QED
  BY <1>1, <1>2, <1>3, <1>4, <1>5 DEF ClientNext, ClientStep

\* The echo client is one of the applications over which the theorems about
\* the socket range.
THEOREM ClientIsApplication == ClientSpec => Spec
<1>1. ClientInit => Init
  BY DEF ClientInit
<1>2. [ClientNext]_clientVars => [Next]_vars
  BY ClientSteps DEF clientVars, vars
<1>3. QED
  BY <1>1, <1>2, PTL DEF ClientSpec, Spec

----------------------------------------------------------------------------
(* The inductive invariant                                                 *)

\* The statements of each callback.
Statements ==
  [none |-> {"none"},
   on_connected |-> {"write_data", "read_data", "close", "throw", "return"},
   on_readable |-> {"write_data", "read_data", "close", "throw", "return"},
   on_client_close |-> {"shutdown", "throw", "return"},
   on_connection_reset |-> {"close", "return"},
   on_disconnected |-> {"done"},
   on_connection_failed |-> {"throw"}, on_readable_oob |-> {"throw"},
   on_writable |-> {"throw"}, on_connection_complete |-> {"return"}]

Starting == connection_state \in Pending \cup {"created"}

\* The program is at a statement of the callback in progress, and throws
\* when something has gone wrong; it sends only on a connection it has not
\* closed.
AtInv ==
  /\ stack = <<>> => at = "none"
  /\ stack # <<>> => at \in Statements[Top.run] /\ (at = "throw" <=> thrown # "none")
  /\ at = "write_data" => s = "open" /\ connection_state = "connected"

\* It touches the socket in callbacks only until its loop has ended and all
\* that is left is to close it, and closes it only after the connection has
\* begun.
UseInv ==
  /\ strayed => s = "invalid" /\ stack = <<>>
  /\ ~alive => stack = <<>> /\ ~Looping
  /\ s = "invalid" => ~Looping /\ (alive => ~Starting)

\* The callbacks it does not expect are never made: nobody sends urgent
\* data, and it wants to be told of room only while it connects, since a
\* write that falls short ends it.
QuietInv ==
  /\ ~net.urgent /\ "RECEIVE_EXPEDITED" \notin out
  /\ stack # <<>> => Top.todo \cap {"on_writable", "on_readable_oob"} = {}
  /\ thrown = "none" /\ ~Starting =>
       "SEND" \notin events \cup poll /\ (packets > 0 => "SEND" \notin out)

\* The units of data in n messages.
Volume(n) == n * MessageSize

\* No more comes back than was sent; at most one message is on its way, and
\* none when the next one is sent.
AmountInv ==
  /\ number_of_messages_sent \in 0..number_of_messages
  /\ bytes_read \in 0..MessageSize - 1
  /\ echoed \in Nat /\ net.inbox <= echoed /\ echoed <= Volume(number_of_messages_sent)
  /\ Volume(number_of_messages_sent) + bytes_read + net.inbox <= echoed + MessageSize
  /\ at = "write_data" =>
       bytes_read = 0 /\ Volume(number_of_messages_sent) + net.inbox <= echoed
  /\ Starting => number_of_messages_sent = 0 /\ bytes_read = 0

AllBack ==
  /\ number_of_messages_sent = number_of_messages
  /\ echoed = Volume(number_of_messages)

\* The program closes the socket, or is done, when every message is back,
\* unless the server has ended the connection.
EndInv ==
  /\ at = "close" /\ calls["on_connection_reset"] = 0 => AllBack
  /\ /\ is_done \/ s = "invalid"
     /\ thrown = "none"
     /\ calls["on_connection_reset"] = 0 /\ calls["on_client_close"] = 0
     => AllBack

ThrownInv ==
  /\ thrown \in {"none", "failed to send all data", "connection failed",
                 "failed to shutdown"}
  /\ thrown = "failed to shutdown" => net.link \in {"reset", "closed"}

ClientInv == AtInv /\ UseInv /\ QuietInv /\ AmountInv /\ EndInv /\ ThrownInv

\* When ~echo_client closes the socket something is wanted, so close() makes
\* no callback.
CloseInv == thrown # "none" /\ ~is_done /\ s = "open" => events # {} /\ ~Starting

Base == Inv /\ TellInv /\ ClientInv /\ CloseInv

LEMMA BaseFacts ==
  ASSUME Base
  PROVE  /\ Shape /\ TypeOK /\ NestInv /\ LoadInv /\ TellInv
         /\ AtInv /\ UseInv /\ QuietInv /\ AmountInv /\ EndInv /\ ThrownInv /\ CloseInv
         /\ net \in Endpoints(MaxInbox) /\ net.inbox \in Nat
         /\ number_of_messages_sent \in Nat /\ bytes_read \in Nat
         /\ MessageSize \in Nat /\ MessageSize > 0 /\ number_of_messages \in Nat
  BY DirectAssumption, ProgramAssumption
  DEF Base, Inv, Shape, TypeOK, ClientInv, AmountInv, Endpoints

LEMMA StatementFacts ==
  /\ Statements["none"] = {"none"}
  /\ \A run \in Callbacks \cup {"none", "on_connection_complete"} :
       /\ Entry[run] \in Statements[run]
       /\ Entry[run] = "throw" <=>
            run \in {"on_connection_failed", "on_readable_oob", "on_writable"}
       /\ Entry[run] = "write_data" <=> run = "on_connected"
       /\ Entry[run] = "close" <=> run = "on_connection_reset"
       /\ Statements[run] \cap {"write_data", "read_data"} # {} =>
            Statements[run] = {"write_data", "read_data", "close", "throw", "return"}
       /\ "shutdown" \in Statements[run] =>
            run = "on_client_close" /\ {"throw", "return"} \subseteq Statements[run]
       /\ "close" \in Statements[run] => "return" \in Statements[run]
  BY DEF Callbacks, Entry, Statements

LEMMA VolumeFacts ==
  /\ Volume(0) = 0
  /\ \A n \in Nat : Volume(n) \in Nat /\ Volume(n + 1) = Volume(n) + MessageSize
<1>1. MessageSize \in Nat
  BY ProgramAssumption
<1>2. \A n, m \in Nat : n * m \in Nat /\ (n + 1) * m = n * m + m /\ 0 * m = 0
  OBVIOUS
<1>3. QED
  BY <1>1, <1>2 DEF Volume

\* A callback is in progress whenever the program has a statement to execute.
LEMMA AtFacts ==
  ASSUME Base, at # "none"
  PROVE  /\ stack # <<>> /\ Top \in Frames /\ at \in Statements[Top.run]
         /\ Top.run \in Callbacks \cup {"none", "on_connection_complete"}
         /\ Top.run # "none"
         /\ at = "throw" <=> thrown # "none"
         /\ alive /\ strayed = FALSE
         /\ connection_state # "created"
<1>1. /\ stack # <<>> /\ at \in Statements[Top.run] /\ (at = "throw" <=> thrown # "none")
  BY BaseFacts DEF AtInv
<1>2. Top \in Frames
  BY <1>1, BaseFacts, TopFacts
<1>3. Top.run \in Callbacks \cup {"none", "on_connection_complete"}
  BY <1>2 DEF Frames
<1>4. Top.run # "none"
  BY <1>1, StatementFacts
<1>5. alive /\ strayed = FALSE
  BY <1>1, BaseFacts DEF UseInv, TypeOK
<1>6. connection_state # "created"
  BY <1>1, <1>4, BaseFacts DEF NestInv, Frame
<1>7. QED
  BY <1>1, <1>2, <1>3, <1>4, <1>5, <1>6

----------------------------------------------------------------------------
(* Steps that leave the callback in progress                               *)

Held ==
  /\ UNCHANGED <<connection_state, stack, alive, orphaned, strayed, calls>>
  /\ net' \in Endpoints(MaxInbox) /\ Changes(net') /\ ~net'.urgent

LEMMA UrgentReady ==
  ASSUME NEW e \in Endpoints(MaxInbox), ~e.urgent
  PROVE  "RECEIVE_EXPEDITED" \notin Ready(e)
  BY DEF Ready, Endpoints, If

LEMMA HeldFacts ==
  ASSUME Base, Held,
         stack = <<>> => at' = at,
         stack # <<>> => at' \in Statements[Top.run] /\ (at' = "throw" <=> thrown' # "none"),
         at' = "write_data" => s' = "open" /\ connection_state = "connected",
         s' = s \/ (s' = "invalid" /\ ~Starting /\ ~Looping'),
         Looping' => Looping,
         thrown' = "none" => thrown = "none" /\ events' \subseteq events \cup {"RECEIVE"}
  PROVE  AtInv' /\ UseInv' /\ QuietInv'
<1>0. AtInv /\ UseInv /\ QuietInv
  BY BaseFacts
<1>1. UNCHANGED <<connection_state, stack, alive, orphaned, strayed, calls>> /\ Top' = Top
      /\ Starting' = Starting
  BY DEF Held, Top, Starting
<1>2. AtInv'
  BY <1>0, <1>1 DEF AtInv
<1>3. UseInv'
  BY <1>0, <1>1 DEF UseInv
<1>4. QuietInv'
  <2>1. "RECEIVE_EXPEDITED" \notin out'
    <3>1. CASE Completes(net')
      BY <3>1, UrgentReady DEF Completes, Held
    <3>2. CASE UNCHANGED out
      BY <1>0, <3>2 DEF QuietInv
    <3>3. QED
      BY <3>1, <3>2 DEF Held, Changes
  <2>2. thrown' = "none" /\ ~Starting =>
          "SEND" \notin events' \cup poll' /\ (packets' > 0 => "SEND" \notin out')
    <3>1. CASE Completes(net')
      BY <1>0, <3>1 DEF Completes, QuietInv
    <3>2. CASE UNCHANGED <<poll, packets, out>>
      BY <1>0, <3>2 DEF QuietInv
    <3>3. QED
      BY <3>1, <3>2 DEF Held, Changes
  <2>3. QED
    BY <1>0, <1>1, <2>1, <2>2 DEF QuietInv, Held
<1>5. QED
  BY <1>2, <1>3, <1>4

LEMMA AmountHeld ==
  ASSUME Base, net' \in Endpoints(MaxInbox),
         UNCHANGED <<bytes_read, number_of_messages_sent, echoed>>,
         net'.inbox <= net.inbox,
         Starting' => Starting,
         at' = "write_data" => at = "write_data" \/ Starting
  PROVE  AmountInv'
<1>0. AmountInv
  BY BaseFacts
<1> DEFINE V == Volume(number_of_messages_sent)
<1>1. /\ net.inbox \in Nat /\ net'.inbox \in Nat /\ V \in Nat /\ bytes_read \in Nat
      /\ echoed \in Nat /\ MessageSize \in Nat
  BY <1>0, BaseFacts, VolumeFacts, DirectAssumption DEF AmountInv, Endpoints
<1>2. /\ echoed <= V /\ net.inbox <= echoed
      /\ V + bytes_read + net.inbox <= echoed + MessageSize
      /\ at = "write_data" => bytes_read = 0 /\ V + net.inbox <= echoed
      /\ Starting => V = 0 /\ bytes_read = 0
  BY <1>0, VolumeFacts DEF AmountInv
<1>3. V' = V
  BY DEF Volume
<1> HIDE DEF V
<1>4. /\ net'.inbox <= echoed /\ V + bytes_read + net'.inbox <= echoed + MessageSize
      /\ at = "write_data" \/ Starting => bytes_read = 0 /\ V + net'.inbox <= echoed
  BY <1>1, <1>2
<1>5. QED
  BY <1>0, <1>2, <1>3, <1>4 DEF V, AmountInv

LEMMA EndHeld ==
  ASSUME Base, UNCHANGED <<number_of_messages_sent, echoed>>,
         calls'["on_connection_reset"] = calls["on_connection_reset"],
         calls'["on_client_close"] = calls["on_client_close"],
         at' = "close" => at = "close" \/ AllBack,
         (is_done' \/ s' = "invalid") /\ thrown' = "none" =>
            \/ (is_done \/ s = "invalid") /\ thrown = "none"
            \/ at = "close"
            \/ calls["on_client_close"] # 0
  PROVE  EndInv'
<1>0. EndInv
  BY BaseFacts
<1>1. AllBack' = AllBack
  BY DEF AllBack, Volume
<1>2. QED
  BY <1>0, <1>1 DEF EndInv

LEMMA ThrownHeld ==
  ASSUME Base, thrown' \in {thrown, "failed to send all data", "connection failed"},
         net.link \in {"reset", "closed"} => net'.link \in {"reset", "closed"}
  PROVE  ThrownInv'
  BY BaseFacts DEF ThrownInv

----------------------------------------------------------------------------
(* The steps of the callbacks                                              *)

\* write() takes the whole message, or there is none left to send.
LEMMA SendStep ==
  ASSUME Base, SendMessage \/ (LastMessageBack /\ UNCHANGED vars), UNCHANGED echoed
  PROVE  ClientInv'
<1> USE DEF socket, kernel, history
<1>0. /\ at = "write_data" /\ at # "none"
      /\ UNCHANGED <<is_done, thrown>> /\ at' \in {"read_data", "close"}
  BY DEF SendMessage, MessageSent, LastMessageBack
<1>1. /\ stack # <<>> /\ at \in Statements[Top.run] /\ thrown = "none" /\ alive
      /\ strayed = FALSE /\ Top.run \in Callbacks \cup {"none", "on_connection_complete"}
      /\ s = "open" /\ connection_state = "connected"
  BY <1>0, AtFacts, BaseFacts, StatementFacts DEF AtInv
<1>2. at' \in Statements[Top.run] /\ at' # "throw" /\ at' # "write_data"
  BY <1>0, <1>1, StatementFacts
<1>3. /\ Held /\ UNCHANGED <<s, events>>
      /\ net'.inbox = net.inbox /\ net'.link = net.link
  <2>1. CASE WriteAll
    <3> DEFINE e == [net EXCEPT !.room = FALSE]
    <3>1. e \in Endpoints(MaxInbox) /\ e.inbox = net.inbox /\ e.link = net.link
          /\ e.urgent = net.urgent
      BY BaseFacts DEF Endpoints
    <3>2. Settle(e) /\ UNCHANGED <<connection_state, stack, alive, orphaned, calls, s, events>>
          /\ Calls
      BY <2>1 DEF WriteAll, Connected
    <3> HIDE DEF e
    <3>3. Changes(e) /\ net' = e
      BY <3>1, <3>2, SettleFacts, BaseFacts DEF Settle
    <3>4. strayed' = strayed
      BY <1>1, <3>2 DEF Calls
    <3>5. QED
      BY <3>1, <3>2, <3>3, <3>4, BaseFacts DEF Held, QuietInv
  <2>2. CASE UNCHANGED vars
    BY <2>2, BaseFacts DEF vars, Held, Changes, QuietInv
  <2>3. QED
    BY <2>1, <2>2 DEF SendMessage
<1>4. Starting' = Starting
  BY <1>3 DEF Held, Starting
<1>5. ~Starting
  BY <1>1 DEF Starting, Pending
<1> DEFINE V == Volume(number_of_messages_sent)
<1>6. /\ V \in Nat /\ echoed \in Nat /\ net.inbox \in Nat /\ MessageSize \in Nat
      /\ bytes_read = 0 /\ echoed <= V /\ V + net.inbox <= echoed /\ net.inbox <= echoed
  BY <1>0, BaseFacts, VolumeFacts DEF AmountInv
<1>7. AtInv' /\ UseInv' /\ QuietInv'
  <2>1. Looping' = Looping
    BY <1>0 DEF Looping
  <2>2. QED
    BY <1>0, <1>1, <1>2, <1>3, <2>1, HeldFacts
<1>8. ThrownInv'
  BY <1>0, <1>3, ThrownHeld
<1>9. CASE SendMessage
  <2>1. /\ number_of_messages_sent < number_of_messages
        /\ number_of_messages_sent' = number_of_messages_sent + 1
        /\ bytes_read' = bytes_read /\ at' = "read_data"
    BY <1>9 DEF SendMessage, MessageSent, MoreToSend
  <2>2. number_of_messages_sent' \in 0..number_of_messages
    BY <2>1, BaseFacts
  <2>3. Volume(number_of_messages_sent') = V + MessageSize
    BY <2>1, BaseFacts, VolumeFacts
  <2> HIDE DEF V
  <2>4. /\ echoed <= V + MessageSize
        /\ (V + MessageSize) + 0 + net.inbox <= echoed + MessageSize
    BY <1>6
  <2>5. AmountInv'
    <3>1. bytes_read' \in 0..MessageSize - 1
      BY <2>1, BaseFacts DEF AmountInv
    <3>2. Volume(number_of_messages_sent)' = V + MessageSize
      BY <2>3 DEF Volume
    <3>3. QED
      BY <1>3, <1>4, <1>5, <1>6, <2>1, <2>2, <2>4, <3>1, <3>2 DEF AmountInv
  <2>6. EndInv'
    <3>1. ~((is_done \/ s = "invalid") /\ calls["on_connection_reset"] = 0
              /\ calls["on_client_close"] = 0)
      BY <1>1, <2>1, BaseFacts DEF EndInv, AllBack
    <3>2. QED
      BY <1>0, <1>3, <2>1, <3>1 DEF EndInv, Held
  <2>7. QED
    BY <1>7, <1>8, <2>5, <2>6 DEF ClientInv
<1>10. CASE LastMessageBack
  <2>1. /\ ~(number_of_messages_sent < number_of_messages)
        /\ UNCHANGED <<bytes_read, number_of_messages_sent>>
    BY <1>10 DEF LastMessageBack, MoreToSend
  <2>2. number_of_messages_sent = number_of_messages
    BY <2>1, BaseFacts DEF AmountInv
  <2>3. V = Volume(number_of_messages)
    BY <2>2
  <2> HIDE DEF V
  <2>4. echoed = V
    BY <1>6
  <2>5. AllBack
    BY <2>2, <2>3, <2>4 DEF AllBack
  <2>6. AmountInv'
    <3>1. net'.inbox <= net.inbox
      BY <1>3, <1>6
    <3>2. QED
      BY <1>2, <1>3, <1>4, <2>1, <3>1, AmountHeld DEF Held
  <2>7. EndInv'
    BY <1>0, <1>3, <2>1, <2>5, EndHeld DEF Held
  <2>8. QED
    BY <1>7, <1>8, <2>6, <2>7 DEF ClientInv
<1>11. QED
  BY <1>9, <1>10

\* write() takes less.
LEMMA SendFailsStep ==
  ASSUME Base, SendFails, UNCHANGED echoed
  PROVE  ClientInv'
<1>0. /\ at = "write_data" /\ at # "none" /\ at' = "throw"
      /\ thrown' = "failed to send all data"
      /\ UNCHANGED <<bytes_read, number_of_messages_sent, is_done>>
  BY DEF SendFails, MessageNotSent, Throws
<1>1. /\ stack # <<>> /\ at \in Statements[Top.run] /\ thrown = "none" /\ alive
      /\ strayed = FALSE /\ Top.run \in Callbacks \cup {"none", "on_connection_complete"}
  BY <1>0, AtFacts
<1>2. at' \in Statements[Top.run]
  <2>1. Statements[Top.run] = {"write_data", "read_data", "close", "throw", "return"}
    BY <1>0, <1>1, StatementFacts
  <2>2. QED
    BY <1>0, <2>1
<1>3. Connected /\ WriteSome
  BY DEF SendFails, WriteSome
<1>4. PICK e \in Endpoints(MaxInbox) :
         Want("SEND", e) /\ e.inbox = net.inbox /\ e.link = net.link /\ ~e.urgent
  <2>1. net \in Endpoints(MaxInbox) /\ ~net.urgent
    BY BaseFacts DEF QuietInv
  <2> DEFINE e == [net EXCEPT !.room = FALSE]
  <2>2. e \in Endpoints(MaxInbox) /\ e.inbox = net.inbox /\ e.link = net.link
        /\ e.urgent = net.urgent
    BY <2>1 DEF Endpoints
  <2>3. Want("SEND", net) \/ Want("SEND", e)
    BY <1>3 DEF WriteSome
  <2> HIDE DEF e
  <2>4. QED
    BY <2>1, <2>2, <2>3
<1>5. /\ Changes(e) /\ net' = e
      /\ UNCHANGED <<s, connection_state, alive, orphaned, stack, calls>>
  BY <1>1, <1>3, <1>4, BaseFacts, WantInsideFacts
<1>6. strayed' = strayed
  BY <1>1, <1>3 DEF Connected, Calls
<1>7. Held
  BY <1>4, <1>5, <1>6 DEF Held
<1>8. AtInv' /\ UseInv' /\ QuietInv'
  BY <1>0, <1>1, <1>2, <1>5, <1>7, HeldFacts DEF Looping
<1>9. AmountInv'
  <2>1. net'.inbox <= net.inbox /\ Starting' = Starting
    BY <1>4, <1>5, BaseFacts DEF Starting
  <2>2. QED
    BY <1>0, <1>7, <2>1, AmountHeld DEF Held
<1>10. EndInv' /\ ThrownInv'
  BY <1>0, <1>4, <1>5, EndHeld, ThrownHeld
<1>11. QED
  BY <1>8, <1>9, <1>10 DEF ClientInv

\* read() returns part of a message or the rest of it.
LEMMA ReadDataStep ==
  ASSUME Base, ReadData, UNCHANGED echoed
  PROVE  ClientInv'
<1>0. /\ at = "read_data" /\ at # "none"
      /\ UNCHANGED <<number_of_messages_sent, is_done, thrown>>
      /\ Connected
  BY DEF ReadData, DataRead, ReadSome
<1>1. /\ stack # <<>> /\ at \in Statements[Top.run] /\ thrown = "none" /\ alive
      /\ strayed = FALSE /\ Top.run \in Callbacks \cup {"none", "on_connection_complete"}
  BY <1>0, AtFacts
<1>2. PICK n \in 1..net.inbox : net' = [net EXCEPT !.inbox = net.inbox - n]
  BY DEF ReadData, ReadSome
<1>3. /\ net.inbox \in Nat /\ net.inbox \in 0..MaxInbox /\ MaxInbox \in Nat
      /\ net \in Endpoints(MaxInbox) /\ ~net.urgent
  BY BaseFacts, DirectAssumption DEF Endpoints, QuietInv
<1>4. n \in Nat /\ n > 0 /\ n <= net.inbox /\ net.inbox - n \in 0..MaxInbox
      /\ net.inbox - (net.inbox - n) = n
  BY <1>3
<1>5. /\ net' \in Endpoints(MaxInbox) /\ net'.inbox = net.inbox - n
      /\ net'.link = net.link /\ ~net'.urgent
  BY <1>2, <1>3, <1>4 DEF Endpoints
<1>6. /\ bytes_read + n <= MessageSize
      /\ IF bytes_read + n = MessageSize THEN bytes_read' = 0 /\ at' = "write_data"
         ELSE bytes_read' = bytes_read + n /\ at' = "read_data"
  <2>1. DataRead(n)
    BY <1>4, <1>5 DEF ReadData
  <2>2. QED
    BY <2>1 DEF DataRead
<1>7. at' \in {"read_data", "write_data"} /\ at' \in Statements[Top.run]
  BY <1>0, <1>1, <1>6, StatementFacts
<1>8. UNCHANGED <<s, connection_state, events, poll, packets, out, alive, orphaned, stack, calls>>
      /\ strayed' = strayed
  BY <1>1 DEF ReadData, ReadSome, Connected, Calls, socket
<1>9. Held
  BY <1>5, <1>8 DEF Held, Changes
<1>10. s' = "open" /\ connection_state = "connected"
  BY <1>0, <1>8 DEF Connected
<1>11. AtInv' /\ UseInv' /\ QuietInv'
  BY <1>0, <1>1, <1>7, <1>8, <1>9, <1>10, HeldFacts DEF Looping
<1>12. AmountInv'
  <2> DEFINE V == Volume(number_of_messages_sent)
  <2>1. /\ V \in Nat /\ echoed \in Nat /\ bytes_read \in Nat
        /\ MessageSize \in Nat /\ MessageSize > 0 /\ echoed <= V /\ net.inbox <= echoed
        /\ V + bytes_read + net.inbox <= echoed + MessageSize
        /\ number_of_messages_sent \in 0..number_of_messages
    BY BaseFacts, VolumeFacts DEF AmountInv
  <2>2. V' = V /\ ~Starting'
    BY <1>0, <1>8, <1>10 DEF Volume, Starting, Pending
  <2> HIDE DEF V
  <2>3. net.inbox - n <= echoed
    BY <1>3, <1>4, <2>1
  <2>4. CASE bytes_read + n = MessageSize
    <3>1. V + (net.inbox - n) <= echoed /\ V + 0 + (net.inbox - n) <= echoed + MessageSize
          /\ 0 \in 0..MessageSize - 1
      BY <1>3, <1>4, <2>1, <2>4
    <3>2. bytes_read' = 0 /\ at' = "write_data"
      BY <1>6, <2>4
    <3>3. QED
      BY <1>0, <1>5, <2>1, <2>2, <2>3, <3>1, <3>2 DEF V, AmountInv
  <2>5. CASE bytes_read + n # MessageSize
    <3>1. V + (bytes_read + n) + (net.inbox - n) <= echoed + MessageSize
          /\ bytes_read + n \in 0..MessageSize - 1
      BY <1>3, <1>4, <1>6, <2>1, <2>5
    <3>2. bytes_read' = bytes_read + n /\ at' = "read_data"
      BY <1>6, <2>5
    <3>3. QED
      BY <1>0, <1>5, <2>1, <2>2, <2>3, <3>1, <3>2 DEF V, AmountInv
  <2>6. QED
    BY <2>4, <2>5
<1>13. EndInv' /\ ThrownInv'
  BY <1>0, <1>5, <1>7, <1>8, EndHeld, ThrownHeld
<1>14. QED
  BY <1>11, <1>12, <1>13 DEF ClientInv

\* read() returns 0.
LEMMA ReadNothingStep ==
  ASSUME Base, ReadFindsNothing, UNCHANGED echoed
  PROVE  ClientInv'
<1>0. /\ at = "read_data" /\ at # "none" /\ at' = "return"
      /\ UNCHANGED <<bytes_read, number_of_messages_sent, is_done, thrown>>
      /\ Connected /\ Want("RECEIVE", net)
  BY DEF ReadFindsNothing, NothingRead, ReadNothing
<1>1. /\ stack # <<>> /\ at \in Statements[Top.run] /\ thrown = "none" /\ alive
      /\ strayed = FALSE /\ Top.run \in Callbacks \cup {"none", "on_connection_complete"}
  BY <1>0, AtFacts
<1>2. at' \in Statements[Top.run]
  BY <1>0, <1>1, StatementFacts
<1>3. /\ Changes(net) /\ net' = net /\ events' = events \cup {"RECEIVE"}
      /\ UNCHANGED <<s, connection_state, alive, orphaned, stack, calls>>
  BY <1>0, <1>1, BaseFacts, WantInsideFacts
<1>4. strayed' = strayed
  BY <1>0, <1>1 DEF Connected, Calls
<1>5. Held
  BY <1>3, <1>4, BaseFacts DEF Held, QuietInv
<1>6. AtInv' /\ UseInv' /\ QuietInv'
  BY <1>0, <1>1, <1>2, <1>3, <1>5, HeldFacts DEF Looping
<1>7. AmountInv'
  <2>1. net'.inbox <= net.inbox /\ Starting' = Starting
    BY <1>3, BaseFacts DEF Starting
  <2>2. QED
    BY <1>0, <1>5, <2>1, AmountHeld DEF Held
<1>8. EndInv' /\ ThrownInv'
  BY <1>0, <1>3, EndHeld, ThrownHeld
<1>9. QED
  BY <1>6, <1>7, <1>8 DEF ClientInv

\* shutdown(), which fails if the connection has been reset, and close().
LEMMA EndStep ==
  ASSUME Base, ShutDownBoth \/ CloseSocket, UNCHANGED echoed
  PROVE  ClientInv'
<1> USE DEF socket, kernel, history
<1>0. /\ at \in {"shutdown", "close"} /\ at # "none" /\ at # "throw"
      /\ UNCHANGED <<bytes_read, number_of_messages_sent>>
  BY DEF ShutDownBoth, CloseSocket, Finishes, Throws
<1>1. /\ stack # <<>> /\ at \in Statements[Top.run] /\ thrown = "none" /\ alive
      /\ strayed = FALSE /\ Top.run \in Callbacks \cup {"none", "on_connection_complete"}
      /\ Top.run # "none" /\ connection_state # "created"
  BY <1>0, AtFacts
<1>2. net \in Endpoints(MaxInbox) /\ ~net.urgent /\ net.inbox \in Nat
      /\ net.inbox <= net.inbox
  BY BaseFacts DEF QuietInv
<1>3. CASE ShutDownBoth
  <2>1. at = "shutdown" /\ Top.run = "on_client_close"
        /\ {"throw", "return"} \subseteq Statements[Top.run]
    <3>1. at = "shutdown"
      BY <1>3 DEF ShutDownBoth, Finishes
    <3>2. QED
      BY <1>1, <3>1, StatementFacts
  <2>2. /\ UNCHANGED <<s, connection_state, events, net, poll, packets, out, alive, orphaned, stack, calls>>
        /\ strayed' = strayed
    BY <1>1, <1>3 DEF ShutDownBoth, Shutdown, Calls, vars
  <2>3. Held
    BY <1>2, <2>2 DEF Held, Changes
  <2>4. calls["on_client_close"] # 0
    BY <1>1, <2>1, BaseFacts DEF TellInv
  <2>5. \/ at' = "return" /\ thrown' = thrown /\ is_done' = TRUE
        \/ /\ at' = "throw" /\ thrown' = "failed to shutdown" /\ is_done' = is_done
           /\ net.link = "reset"
    BY <1>3 DEF ShutDownBoth, Finishes, Throws
  <2>6. AtInv' /\ UseInv' /\ QuietInv'
    <3>1. Looping' => Looping
      BY <1>1, <2>5, BaseFacts DEF Looping
    <3>2. QED
      BY <1>1, <2>1, <2>2, <2>3, <2>5, <3>1, HeldFacts
  <2>7. AmountInv'
    <3>1. Starting' = Starting /\ at' # "write_data"
      BY <2>2, <2>5 DEF Starting
    <3>2. QED
      BY <1>0, <1>2, <2>2, <3>1, AmountHeld
  <2>8. EndInv'
    BY <1>0, <2>2, <2>4, <2>5, EndHeld
  <2>9. ThrownInv'
    BY <1>1, <2>2, <2>5 DEF ThrownInv
  <2>10. QED
    BY <2>6, <2>7, <2>8, <2>9 DEF ClientInv
<1>4. CASE CloseSocket
  <2>1. at = "close" /\ at' = "return" /\ is_done' = TRUE /\ thrown' = thrown
    BY <1>4 DEF CloseSocket, Finishes
  <2>2. "return" \in Statements[Top.run]
    BY <1>1, <2>1, StatementFacts
  <2>3. CASE Close
    <3>1. s = "open" /\ events # {}
      <4>1. s = "open" /\ Top \in Frames /\ Top.by \in {"poll", "close"}
        BY <1>0, <2>3, AtFacts DEF Close, Frames
      <4>2. QED
        BY <1>1, <4>1, BaseFacts DEF NestInv
    <3>2. /\ Changes(ClosedEndpoint) /\ net' = ClosedEndpoint
          /\ UNCHANGED <<connection_state, events, alive, orphaned, stack, calls>>
          /\ s' = "invalid"
      BY <2>3, <3>1, BaseFacts, CloseFacts DEF Changes, Completes
    <3>3. strayed' = strayed
      BY <1>1, <2>3 DEF Close, Calls
    <3>4. net' \in Endpoints(MaxInbox) /\ net'.link = "closed" /\ net'.inbox = 0
          /\ ~net'.urgent
      BY <3>2, EndpointFacts DEF ClosedEndpoint, NewEndpoint
    <3>5. Held
      BY <3>2, <3>3, <3>4 DEF Held
    <3>6. ~Starting
      <4>1. Top.run # "on_connection_complete"
        BY <1>1, <2>1 DEF Statements
      <4>2. connection_state \notin Pending
        BY <1>1, <4>1, BaseFacts DEF TellInv
      <4>3. QED
        BY <1>1, <4>2 DEF Starting
    <3>7. AtInv' /\ UseInv' /\ QuietInv'
      BY <1>1, <2>1, <2>2, <3>2, <3>5, <3>6, HeldFacts DEF Looping
    <3>8. AmountInv'
      <4>1. Starting' = Starting /\ net'.inbox <= net.inbox
        BY <1>2, <3>2, <3>4 DEF Starting
      <4>2. QED
        BY <1>0, <2>1, <3>4, <4>1, AmountHeld
    <3>9. EndInv' /\ ThrownInv'
      BY <1>0, <2>1, <3>2, <3>4, EndHeld, ThrownHeld
    <3>10. QED
      BY <3>7, <3>8, <3>9 DEF ClientInv
  <2>4. CASE UNCHANGED vars
    <3>1. UNCHANGED <<s, connection_state, events, net, poll, packets, out, alive, orphaned, stack,
                      calls, strayed>>
      BY <2>4 DEF vars
    <3>2. Held
      BY <1>2, <3>1 DEF Held, Changes
    <3>3. AtInv' /\ UseInv' /\ QuietInv'
      BY <1>1, <2>1, <2>2, <3>1, <3>2, HeldFacts DEF Looping
    <3>4. AmountInv'
      <4>1. Starting' = Starting
        BY <3>1 DEF Starting
      <4>2. QED
        BY <1>0, <1>2, <2>1, <3>1, <4>1, AmountHeld
    <3>5. EndInv' /\ ThrownInv'
      BY <1>0, <2>1, <3>1, EndHeld, ThrownHeld
    <3>6. QED
      BY <3>3, <3>4, <3>5 DEF ClientInv
  <2>5. QED
    BY <1>4, <2>3, <2>4 DEF CloseSocket
<1>5. QED
  BY <1>3, <1>4

----------------------------------------------------------------------------
(* The steps of main and of handle_events                                  *)

\* The statement at which the callback in progress begins.
LEMMA CalledFacts ==
  ASSUME NEW run, Called(run)
  PROVE  /\ at' = Entry[run]
         /\ UNCHANGED <<bytes_read, number_of_messages_sent>>
         /\ run = "on_connection_failed" => thrown' = "connection failed"
         /\ run \notin {"on_connection_failed", "on_readable_oob", "on_writable"}
              => thrown' = thrown /\ (is_done' <=> is_done)
         /\ is_done \/ run = "on_connection_failed" => is_done'
  BY DEF Called

LEMMA GoesFacts ==
  ASSUME Goes
  PROVE  /\ stack' = <<>> => Called("none")
         /\ stack' # <<>> => Called(Top'.run)
  BY DEF Goes, Top

\* Outside the callbacks the program waits.
LEMMA NoneEntry == Entry["none"] = "none" /\ Statements["none"] = {"none"}
  BY DEF Entry, Statements

\* A poll is submitted when no callback is in progress.
LEMMA SubmitsClient ==
  ASSUME Base, NEW interest, NEW e \in Endpoints(MaxInbox), NEW state,
         Submits(interest, e, state),
         e.inbox = net.inbox, ~e.urgent, e.link = "closed" => net.link = "closed",
         net.link \in {"reset", "closed"} => e.link \in {"reset", "closed"},
         thrown = "none" /\ state \notin Pending => "SEND" \notin interest,
         state # "created", Starting \/ state \notin Pending,
         at' = "none", thrown = "none", alive, strayed' = strayed,
         is_done' <=> is_done,
         UNCHANGED <<bytes_read, number_of_messages_sent, thrown, echoed>>
  PROVE  ClientInv'
<1>1. /\ s = "open" /\ s' = "open" /\ alive' = alive /\ calls' = calls
      /\ events' = interest /\ connection_state' = state
      /\ net' = e /\ out' = interest \cap Ready(e) /\ poll' \in {{}, interest}
  BY DEF Submits
<1>2. stack' # <<>> => Top'.run = "none" /\ Top'.todo = Raised(state, out')
  <2>1. stack' # <<>> => Top' = Frame("poll", "none", Raised(state, out'))
    BY SubmitsFacts
  <2>2. QED
    BY <2>1 DEF Frame
<1>3. Starting' <=> state \in Pending
  BY <1>1 DEF Starting
<1>4. AtInv'
  BY <1>2, NoneEntry DEF AtInv
<1>5. UseInv'
  BY <1>1, BaseFacts DEF UseInv, Looping
<1>6. QuietInv'
  <2>1. "RECEIVE_EXPEDITED" \notin out'
    BY <1>1, UrgentReady
  <2>2. state \notin Pending => "SEND" \notin out' \cup poll' \cup events'
    BY <1>1
  <2>3. stack' # <<>> => Top'.todo \cap {"on_writable", "on_readable_oob"} = {}
    BY <1>2, <2>1, <2>2, RaisedNews
  <2>4. QED
    BY <1>1, <1>3, <2>1, <2>2, <2>3 DEF QuietInv
<1>7. AmountInv'
  <2>1. net'.inbox <= net.inbox /\ net' \in Endpoints(MaxInbox) /\ at' # "write_data"
    BY <1>1, BaseFacts
  <2>2. Starting' => Starting
    BY <1>3
  <2>3. QED
    BY <2>1, <2>2, AmountHeld
<1>8. EndInv' /\ ThrownInv'
  BY <1>1, EndHeld, ThrownHeld
<1>9. QED
  BY <1>4, <1>5, <1>6, <1>7, <1>8 DEF ClientInv

LEMMA ConnectStep ==
  ASSUME Base, ConnectToServer, UNCHANGED echoed
  PROVE  ClientInv'
<1>0. /\ Looping /\ stack = <<>> /\ Connect
      /\ UNCHANGED <<at, bytes_read, number_of_messages_sent, is_done, thrown>>
  BY DEF ConnectToServer, program
<1>1. PICK link \in {"connecting", "up"} :
         Begin("pending_connect", [net EXCEPT !.link = link])
  BY <1>0 DEF Connect
<1> DEFINE e == [net EXCEPT !.link = link]
<1>2. /\ Calls /\ alive /\ net.link = "idle" /\ connection_state = "created"
  BY <1>0, <1>1 DEF Connect, Calls, Begin
<1>3. e \in Endpoints(MaxInbox) /\ e.link = link /\ e.inbox = net.inbox /\ ~e.urgent
  BY BaseFacts DEF Endpoints, Links, QuietInv
<1>4. s = "open" /\ strayed' = strayed
  BY <1>0, <1>2, BaseFacts DEF UseInv, Calls, TypeOK
<1>5. Submit(AllEvents, e, "pending_connect", <<>>)
      /\ UNCHANGED <<s, alive, orphaned, calls, threw>>
      /\ connection_state' = "pending_connect" /\ events' = AllEvents
  BY <1>0, <1>1 DEF Begin
<1> HIDE DEF e
<1>6. Submits(AllEvents, e, "pending_connect")
  BY <1>3, <1>4, <1>5, SubmitFacts
<1>7. "pending_connect" \in Pending /\ Starting /\ at' = "none" /\ thrown = "none"
  BY <1>0, <1>2, BaseFacts DEF Pending, Starting, AtInv, Looping
<1>8. QED
  BY <1>0, <1>2, <1>3, <1>4, <1>6, <1>7, SubmitsClient

LEMMA TakePacketStep ==
  ASSUME Base, TakePacket, UNCHANGED echoed
  PROVE  ClientInv'
<1> USE DEF history
<1>0. Shape /\ Looping /\ Dispatch /\ Goes
  BY BaseFacts DEF TakePacket
<1>1. /\ stack = <<>> /\ packets > 0 /\ packets' = packets - 1 /\ packets \in Nat
      /\ UNCHANGED <<s, connection_state, events, net, poll, out, alive, orphaned, calls, strayed>>
      /\ stack' # <<>> =>
           Top'.run = "none" /\ Top'.todo = Raised(connection_state, out)
  <2>1. /\ stack = <<>> /\ packets > 0 /\ packets' = packets - 1
        /\ UNCHANGED <<s, connection_state, events, net, poll, out, alive, orphaned, history>>
        /\ stack' # <<>> => Top' = Frame("poll", "none", Raised(connection_state, out))
    BY <1>0, DispatchFacts
  <2>2. packets \in Nat
    BY BaseFacts, DirectAssumption DEF TypeOK
  <2>3. QED
    BY <2>1, <2>2 DEF Frame
<1>2. /\ at' = "none"
      /\ is_done' <=> is_done
      /\ UNCHANGED <<bytes_read, number_of_messages_sent, thrown>>
  <2>1. Called("none")
    BY <1>0, <1>1, GoesFacts
  <2>2. QED
    BY <2>1, CalledFacts, NoneEntry
<1>3. thrown = "none" /\ Looping' /\ Starting' = Starting /\ alive
  BY <1>0, <1>1, <1>2, BaseFacts DEF Looping, Starting, UseInv
<1>4. connection_state # "created"
  BY <1>1, BaseFacts DEF NestInv
<1>5. AtInv'
  BY <1>1, <1>2, <1>3, NoneEntry DEF AtInv
<1>6. UseInv'
  BY <1>0, <1>1, <1>3, BaseFacts DEF UseInv
<1>7. QuietInv'
  <2>1. stack' # <<>> => Top'.todo \cap {"on_writable", "on_readable_oob"} = {}
    BY <1>1, <1>3, <1>4, BaseFacts, RaisedNews DEF QuietInv, Starting
  <2>2. QED
    BY <1>1, <1>2, <1>3, <2>1, BaseFacts DEF QuietInv
<1>8. AmountInv'
  BY <1>1, <1>2, <1>3, BaseFacts, AmountHeld
<1>9. EndInv' /\ ThrownInv'
  BY <1>1, <1>2, EndHeld, ThrownHeld
<1>10. QED
  BY <1>5, <1>6, <1>7, <1>8, <1>9 DEF ClientInv

\* The next callback is one of those that the program expects.
LEMMA NextCallbackStepClient ==
  ASSUME Base, at \in {"none", "return"}, NextCallback, Goes, UNCHANGED echoed
  PROVE  ClientInv'
<1> USE DEF kernel
<1> DEFINE c == First(Top.todo)
<1>1. /\ stack # <<>> /\ Top \in Frames /\ c \in Top.todo /\ c \in Callbacks
      /\ stack' # <<>> /\ Top'.run = c /\ Top'.todo = Top.todo \ {c}
  BY BaseFacts, NextCallbackFacts
<1>2. /\ connection_state' = StateFor(c, StateAfter(Top.run, connection_state))
      /\ events' = events \ Cleared[c] /\ Count(c)
      /\ UNCHANGED <<s, net, poll, packets, out, alive, orphaned, strayed>>
  BY DEF NextCallback
<1>3. /\ c = "on_disconnected" => s = "invalid"
      /\ connection_state \in Pending => c \in Begun \cup {"on_disconnected"}
      /\ connection_state \notin Pending => c \notin Begun
  BY <1>1, BaseFacts, FirstTold
<1>4. /\ c \notin {"on_writable", "on_readable_oob"}
      /\ Top'.todo \cap {"on_writable", "on_readable_oob"} = {}
  BY <1>1, BaseFacts DEF QuietInv
<1> HIDE DEF c
<1>5. alive /\ strayed = FALSE /\ at # "throw" /\ thrown = "none"
  BY <1>1, BaseFacts DEF UseInv, AtInv, TypeOK
<1>6. /\ at' = Entry[c]
      /\ UNCHANGED <<bytes_read, number_of_messages_sent>>
      /\ c = "on_connection_failed" => thrown' = "connection failed"
      /\ c # "on_connection_failed" => thrown' = thrown /\ (is_done' <=> is_done)
      /\ is_done => is_done'
  <2>1. Called(c)
    BY <1>1, GoesFacts
  <2>2. QED
    BY <1>4, <2>1, CalledFacts
<1>7. /\ at' \in Statements[c]
      /\ at' = "throw" <=> c = "on_connection_failed"
      /\ at' = "write_data" <=> c = "on_connected"
      /\ at' = "close" <=> c = "on_connection_reset"
  BY <1>1, <1>4, <1>6, StatementFacts
<1>8. c \in Begun => connection_state \in Pending /\ s = "open"
  BY <1>3, <1>5, BaseFacts DEF UseInv, TypeOK, Starting
<1>9. connection_state \in Pending => c \in Begun
  BY <1>3, <1>5, BaseFacts DEF UseInv, Starting
<1>10. ~Starting' /\ (c = "on_connected" => connection_state' = "connected")
  <2>1. connection_state \in ConnectionStates
    BY BaseFacts DEF TypeOK
  <2>2. /\ StateAfter(Top.run, connection_state) \in {connection_state, "client_closed"}
        /\ {connection_state, "client_closed"} \subseteq ConnectionStates
    BY <2>1, StateFacts DEF ConnectionStates
  <2>3. connection_state # "created"
    <3>1. connection_state = "created" => s = "invalid"
      BY <1>1, BaseFacts DEF NestInv, Frame, TellInv
    <3>2. QED
      BY <1>5, <3>1, BaseFacts DEF UseInv, Starting
  <2>4. connection_state' \in {connection_state, "client_closed", "connected", "disconnected"}
    BY <1>1, <1>2, <2>2, StateFacts
  <2>5. c \in Begun => connection_state' \in {"connected", "disconnected"}
    BY <1>1, <1>2, <2>2, StateFacts DEF Begun
  <2>6. c = "on_connected" => connection_state' = "connected"
    BY <1>1, <1>2, <2>2, StateFacts
  <2>7. QED
    BY <1>9, <2>3, <2>4, <2>5, <2>6 DEF Starting, Pending
<1>11. AtInv'
  BY <1>1, <1>2, <1>5, <1>6, <1>7, <1>8, <1>10 DEF AtInv, Begun
<1>12. UseInv'
  BY <1>1, <1>2, <1>5, <1>6, <1>7, <1>10, BaseFacts DEF UseInv, Looping
<1>13. QuietInv'
  <2>1. ASSUME thrown' = "none"
        PROVE  "SEND" \notin events' \cup poll' /\ (packets' > 0 => "SEND" \notin out')
    <3>1. CASE Starting
      <4>1. connection_state \in Pending
        <5>1. connection_state = "created" => s = "invalid"
          BY <1>1, BaseFacts DEF NestInv, Frame, TellInv
        <5>2. QED
          BY <1>5, <3>1, <5>1, BaseFacts DEF UseInv, Starting
      <4>2. c = "on_connected" /\ s = "open"
        BY <1>6, <1>8, <1>9, <2>1, <4>1 DEF Begun
      <4>3. "SEND" \notin events'
        BY <1>2, <4>2 DEF Cleared
      <4>4. Credit = 1
        <5>1. Top.by = "poll" /\ Top.run # "on_connection_complete"
          BY <1>1, <4>2, BaseFacts DEF NestInv, Frames
        <5>2. QED
          BY <1>1, <5>1 DEF Credit
      <4>5. packets = 0 /\ poll = {}
        <5>1. Load <= 1 /\ Load = Outstanding + 1
          BY <1>5, <4>4, BaseFacts DEF LoadInv, Load
        <5>2. packets \in Nat
          BY BaseFacts, DirectAssumption DEF TypeOK
        <5>3. QED
          BY <5>1, <5>2 DEF Outstanding
      <4>6. QED
        BY <1>2, <4>3, <4>5
    <3>2. CASE ~Starting
      BY <1>2, <1>5, <3>2, BaseFacts DEF QuietInv
    <3>3. QED
      BY <3>1, <3>2
  <2>2. QED
    BY <1>2, <1>4, <2>1, BaseFacts DEF QuietInv
<1>14. AmountInv'
  <2>1. at' = "write_data" => Starting
    BY <1>7, <1>8 DEF Starting, Begun
  <2>2. net' \in Endpoints(MaxInbox) /\ net'.inbox <= net.inbox
    BY <1>2, BaseFacts
  <2>3. QED
    BY <1>6, <1>10, <2>1, <2>2, AmountHeld
<1>15. EndInv'
  <2>1. calls \in [Milestones -> 0..2]
        /\ {"on_connection_reset", "on_client_close"} \subseteq Milestones
    BY BaseFacts DEF TypeOK, Milestones
  <2>2. /\ \A m \in {"on_connection_reset", "on_client_close"} :
              calls[m] \in 0..2 /\ calls'[m] \in 0..2 /\ (calls[m] > 0 => calls'[m] > 0)
        /\ c = "on_connection_reset" => calls'["on_connection_reset"] > 0
    BY <1>2, <2>1, CountFacts
  <2>3. \A m \in {"on_connection_reset", "on_client_close"} :
            /\ calls'[m] = 0 => calls[m] = 0
            /\ calls'[m] = 0 => m # c \/ c = "on_client_close"
    BY <2>2
  <2>4. AllBack' = AllBack
    BY <1>6 DEF AllBack, Volume
  <2>5. at' = "close" /\ calls'["on_connection_reset"] = 0 => FALSE
    BY <1>7, <2>3
  <2>6. thrown' = "none" => thrown = "none" /\ (is_done' <=> is_done)
    BY <1>6
  <2>7. QED
    BY <1>2, <2>3, <2>4, <2>5, <2>6, BaseFacts DEF EndInv
<1>16. ThrownInv'
  BY <1>2, <1>6, ThrownHeld
<1>17. QED
  BY <1>11, <1>12, <1>13, <1>14, <1>15, <1>16 DEF ClientInv

LEMMA HandleOnStep ==
  ASSUME Base, HandleOn, UNCHANGED echoed
  PROVE  ClientInv'
<1> USE DEF socket, kernel, history
<1>0. /\ Goes /\ at \in {"none", "return"} /\ stack # <<>>
      /\ NextCallback \/ Handled \/ Return
  BY DEF HandleOn, NextCallback, Handled, Return
<1>1. /\ alive /\ at # "throw" /\ thrown = "none"
      /\ connection_state \in ConnectionStates
      /\ StateAfter(Top.run, connection_state) \in {connection_state, "client_closed"}
      /\ Top.run # "on_client_close" =>
           StateAfter(Top.run, connection_state) = connection_state
  BY <1>0, BaseFacts, StateFacts DEF UseInv, AtInv, TypeOK
<1>2. CASE NextCallback
  BY <1>0, <1>2, NextCallbackStepClient
<1>3. CASE PollsAgain
  <2> DEFINE state == StateAfter(Top.run, connection_state)
  <2>1. Submits(events, net, state) /\ UNCHANGED strayed /\ s = "open"
    BY <1>3 DEF PollsAgain, Submits
  <2>2. connection_state # "created"
    BY <1>0, <2>1, BaseFacts DEF NestInv, Frame, TellInv
  <2>3. connection_state \in Pending => Top.run # "on_client_close"
    BY <1>0, BaseFacts DEF TellInv
  <2>4. /\ state # "created" /\ (Starting \/ state \notin Pending)
        /\ state \notin Pending => ~Starting
    BY <1>1, <2>2, <2>3 DEF Starting, Pending
  <2> HIDE DEF state
  <2>5. state \notin Pending => "SEND" \notin events
    BY <1>1, <2>4, BaseFacts DEF QuietInv
  <2>6. Called("none")
    <3>1. stack' # <<>> => Top' = Frame("poll", "none", Raised(state, out'))
      BY <2>1, SubmitsFacts DEF Submits
    <3>2. stack' # <<>> => Top'.run = "none"
      BY <3>1 DEF Frame
    <3>3. QED
      BY <1>0, <3>2, GoesFacts
  <2>7. /\ at' = "none" /\ (is_done' <=> is_done)
        /\ UNCHANGED <<bytes_read, number_of_messages_sent, thrown>>
    BY <2>6, CalledFacts, NoneEntry
  <2>8. net \in Endpoints(MaxInbox) /\ ~net.urgent
    BY BaseFacts DEF QuietInv
  <2>9. QED
    BY <1>1, <2>1, <2>4, <2>5, <2>7, <2>8, SubmitsClient
<1>4. CASE Announces
  <2>1. /\ s = "invalid"
        /\ connection_state' = StateAfter(Top.run, connection_state)
        /\ stack' = <<Frame("poll", "on_connection_complete", {})>>
        /\ Count("on_connection_complete")
        /\ UNCHANGED <<s, events, net, poll, packets, out, alive, orphaned, strayed>>
    BY <1>4 DEF Announces
  <2>2. Frame("poll", "on_connection_complete", {}) \in Frames
    BY DEF Frame, Frames
  <2>3. stack' # <<>> /\ Top' = Frame("poll", "on_connection_complete", {})
    BY <2>1, <2>2, FrameFacts DEF Top
  <2>4. Top'.run = "on_connection_complete" /\ Top'.todo = {}
    BY <2>3 DEF Frame
  <2>5. /\ at' = "return" /\ (is_done' <=> is_done)
        /\ UNCHANGED <<bytes_read, number_of_messages_sent, thrown>>
    <3>1. Called("on_connection_complete")
      BY <1>0, <2>3, <2>4, GoesFacts
    <3>2. Entry["on_connection_complete"] = "return"
      BY DEF Entry
    <3>3. at' = "return" /\ UNCHANGED <<bytes_read, number_of_messages_sent>>
      BY <3>1, <3>2, CalledFacts
    <3>4. thrown' = thrown /\ (is_done' <=> is_done)
      BY <3>1 DEF Called
    <3>5. QED
      BY <3>3, <3>4
  <2>6. ~Starting /\ ~Starting' /\ (Looping' => Looping)
    BY <1>1, <2>1, <2>5, BaseFacts DEF UseInv, Starting, Pending, Looping
  <2>7. calls'["on_connection_reset"] = calls["on_connection_reset"]
        /\ calls'["on_client_close"] = calls["on_client_close"]
    <3>1. calls \in [Milestones -> 0..2]
          /\ {"on_connection_reset", "on_client_close"} \subseteq Milestones
      BY BaseFacts DEF TypeOK, Milestones
    <3>2. QED
      BY <2>1, <3>1, CountFacts
  <2>8. AtInv' /\ UseInv'
    BY <1>0, <1>1, <2>1, <2>3, <2>4, <2>5, <2>6, BaseFacts DEF AtInv, UseInv, Statements
  <2>9. QuietInv'
    BY <1>1, <2>1, <2>4, <2>6, BaseFacts DEF QuietInv
  <2>10. AmountInv'
    BY <2>1, <2>5, <2>6, BaseFacts, AmountHeld
  <2>11. EndInv' /\ ThrownInv'
    BY <2>1, <2>5, <2>7, EndHeld, ThrownHeld
  <2>12. QED
    BY <2>8, <2>9, <2>10, <2>11 DEF ClientInv
<1>5. CASE Return
  <2>1. /\ stack' = <<>>
        /\ UNCHANGED <<connection_state, s, events, net, poll, packets, out, calls,
                       alive, orphaned, strayed>>
    BY <1>0, <1>5, BaseFacts, TopFacts DEF Return
  <2>2. /\ at' = "none" /\ (is_done' <=> is_done)
        /\ UNCHANGED <<bytes_read, number_of_messages_sent, thrown>>
    BY <1>0, <2>1, GoesFacts, CalledFacts, NoneEntry
  <2>3. Starting' = Starting /\ (Looping' <=> Looping)
    BY <2>1, <2>2 DEF Starting, Looping
  <2>4. AtInv' /\ UseInv' /\ QuietInv'
    BY <1>1, <2>1, <2>2, <2>3, BaseFacts DEF AtInv, UseInv, QuietInv
  <2>5. AmountInv'
    BY <2>1, <2>2, <2>3, BaseFacts, AmountHeld
  <2>6. EndInv' /\ ThrownInv'
    BY <2>1, <2>2, EndHeld, ThrownHeld
  <2>7. QED
    BY <2>4, <2>5, <2>6 DEF ClientInv
<1>6. QED
  BY <1>0, <1>2, <1>3, <1>4, <1>5, BaseFacts, HandledFacts

\* An exception leaves the loop, and the socket is closed and deleted outside
\* its callbacks.
LEMMA LeaveStep ==
  ASSUME Base, LeaveByException \/ CloseAtEnd \/ End, UNCHANGED echoed
  PROVE  ClientInv'
<1> USE DEF socket, kernel, history
<1>0. UNCHANGED <<bytes_read, number_of_messages_sent, is_done, thrown>>
  BY DEF LeaveByException, CloseAtEnd, End, program
<1>1. CASE LeaveByException
  <2>1. /\ at = "throw" /\ at # "none" /\ at' = "none" /\ Throw
    BY <1>1 DEF LeaveByException
  <2>2. stack # <<>> /\ thrown # "none" /\ alive
    BY <2>1, AtFacts
  <2>3. /\ stack' = <<>>
        /\ UNCHANGED <<connection_state, s, events, net, poll, packets, out, calls,
                       alive, orphaned, strayed>>
    BY <2>1, <2>2, BaseFacts, TopFacts DEF Throw
  <2>4. Starting' = Starting /\ Looping' = Looping
    BY <1>0, <2>3 DEF Starting, Looping
  <2>5. AtInv' /\ UseInv' /\ QuietInv'
    BY <1>0, <2>1, <2>2, <2>3, <2>4, BaseFacts DEF AtInv, UseInv, QuietInv
  <2>6. AmountInv' /\ EndInv' /\ ThrownInv'
    BY <1>0, <2>1, <2>3, <2>4, BaseFacts, AmountHeld, EndHeld, ThrownHeld
  <2>7. QED
    BY <2>5, <2>6 DEF ClientInv
<1>2. CASE CloseAtEnd \/ End
  <2>1. ~Looping /\ stack = <<>> /\ at' = at
    BY <1>2 DEF CloseAtEnd, End, program
  <2>2. /\ s' = "invalid" /\ Changes(ClosedEndpoint)
        /\ net' = ClosedEndpoint
        /\ UNCHANGED <<connection_state, events, stack, calls>>
        /\ alive' => ~Starting
    <3>1. CASE CloseAtEnd
      <4>1. /\ Close /\ s = "open" /\ thrown # "none" /\ ~is_done
        BY <3>1 DEF CloseAtEnd, Close, Looping
      <4>2. events # {} /\ ~Starting
        BY <4>1, BaseFacts DEF CloseInv
      <4>3. QED
        BY <4>1, <4>2, BaseFacts, CloseFacts DEF Changes, Completes
    <3>2. CASE End
      BY <3>2, BaseFacts, DeleteFacts DEF End, Changes, Completes
    <3>3. QED
      BY <1>2, <3>1, <3>2
  <2>3. net' \in Endpoints(MaxInbox) /\ net'.link = "closed" /\ net'.inbox = 0 /\ ~net'.urgent
    BY <2>2, EndpointFacts DEF ClosedEndpoint, NewEndpoint
  <2>4. Starting' = Starting /\ Looping' = Looping /\ net'.inbox <= net.inbox
    BY <1>0, <2>2, <2>3, BaseFacts DEF Starting, Looping
  <2>5. AtInv' /\ UseInv'
    BY <1>0, <2>1, <2>2, <2>4, BaseFacts DEF AtInv, UseInv
  <2>6. QuietInv'
    <3>1. out' = out \/ (out' \subseteq poll /\ out' \subseteq Ready(net'))
      BY <2>2, <2>3 DEF Changes, Completes
    <3>2. poll' \subseteq poll
      BY <2>2 DEF Changes, Completes
    <3>3. "RECEIVE_EXPEDITED" \notin out'
      BY <2>3, <3>1, UrgentReady, BaseFacts DEF QuietInv
    <3>4. thrown = "none" /\ ~Starting => (packets' > 0 => "SEND" \notin out')
      BY <2>2, <3>1, BaseFacts DEF QuietInv, Changes, Completes
    <3>5. QED
      BY <1>0, <2>1, <2>2, <2>3, <2>4, <3>2, <3>3, <3>4, BaseFacts DEF QuietInv
  <2>7. AmountInv' /\ ThrownInv'
    BY <1>0, <2>1, <2>3, <2>4, AmountHeld, ThrownHeld
  <2>8. EndInv'
    <3>1. thrown = "none" => is_done
      BY <2>1 DEF Looping
    <3>2. QED
      BY <1>0, <2>1, <2>2, <3>1, EndHeld
  <2>9. QED
    BY <2>5, <2>6, <2>7, <2>8 DEF ClientInv
<1>3. QED
  BY <1>1, <1>2

\* Whoever throws does so while the socket wants something.
LEMMA NextCloseInv ==
  ASSUME Base, [ClientNext]_clientVars
  PROVE  CloseInv'
<1> USE DEF socket, history
<1>0. CloseInv /\ thrown \in {"none", "failed to send all data", "connection failed",
                              "failed to shutdown"}
  BY BaseFacts DEF ThrownInv
<1>1. CASE thrown' = "none" \/ is_done' \/ s' # "open"
  BY <1>1 DEF CloseInv
<1>2. CASE UNCHANGED <<thrown, is_done, s, connection_state, events>>
  BY <1>0, <1>2 DEF CloseInv, Starting
<1>3. CASE SendMessage \/ (LastMessageBack /\ UNCHANGED vars) \/ ReadData \/ ReadFindsNothing
           \/ CloseSocket
  <2>1. at \notin {"none", "throw"} /\ thrown' = thrown
    BY <1>3 DEF SendMessage, MessageSent, LastMessageBack, ReadData, DataRead,
                ReadFindsNothing, NothingRead, CloseSocket, Finishes
  <2>2. thrown = "none"
    BY <2>1, AtFacts
  <2>3. QED
    BY <1>1, <2>1, <2>2
<1>4. CASE SendFails
  <2>1. connection_state = "connected" /\ WriteSome /\ stack # <<>> /\ alive
    <3>1. at = "write_data"
      BY <1>4 DEF SendFails, MessageNotSent
    <3>2. QED
      BY <1>4, <3>1, AtFacts DEF SendFails, WriteSome, Connected
  <2>2. events # {}
    BY <2>1, BaseFacts DEF NestInv
  <2>3. \E e \in Endpoints(MaxInbox) : Want("SEND", e)
    <3>1. net \in Endpoints(MaxInbox) /\ [net EXCEPT !.room = FALSE] \in Endpoints(MaxInbox)
      BY BaseFacts DEF Endpoints
    <3>2. QED
      BY <2>1, <3>1 DEF WriteSome
  <2>4. events' = events \cup {"SEND"} /\ UNCHANGED connection_state
    BY <2>1, <2>3, BaseFacts, WantInsideFacts DEF WriteSome, Connected
  <2>5. QED
    BY <2>1, <2>2, <2>4 DEF CloseInv, Starting, Pending
<1>5. CASE ShutDownBoth
  <2>1. at = "shutdown" /\ stack # <<>> /\ Top \in Frames /\ thrown = "none"
        /\ Top.run \notin {"none", "on_connection_complete"}
        /\ connection_state # "created"
    <3>1. at = "shutdown"
      BY <1>5 DEF ShutDownBoth, Finishes
    <3>2. QED
      BY <3>1, AtFacts DEF Statements
  <2>2. CASE Finishes("shutdown")
    BY <1>1, <2>2 DEF Finishes
  <2>3. CASE s = "open" /\ UNCHANGED vars
    <3>1. UNCHANGED <<s, events, connection_state>>
      BY <2>3 DEF vars
    <3>2. events # {}
      BY <2>1, <2>3, BaseFacts DEF NestInv, Frames
    <3>3. connection_state \notin Pending
      BY <2>1, BaseFacts DEF TellInv
    <3>4. QED
      BY <2>1, <3>1, <3>2, <3>3 DEF CloseInv, Starting
  <2>4. QED
    BY <1>5, <2>2, <2>3 DEF ShutDownBoth
<1>6. CASE ConnectToServer
  BY <1>1, <1>6 DEF ConnectToServer, Looping, program
<1>7. CASE TakePacket
  <2>1. thrown = "none" /\ Dispatch /\ Goes
    BY <1>7 DEF TakePacket, Looping
  <2>2. stack' # <<>> => Top' = Frame("poll", "none", Raised(connection_state, out))
    BY <2>1, BaseFacts, DispatchFacts
  <2>3. Called("none")
    BY <2>1, <2>2, GoesFacts DEF Frame
  <2>4. thrown' = "none"
    BY <2>1, <2>3 DEF Called
  <2>5. QED
    BY <1>1, <2>4
<1>8. CASE HandleOn
  <2>1. /\ Goes /\ at \in {"none", "return"} /\ stack # <<>>
        /\ NextCallback \/ Handled \/ Return
    BY <1>8 DEF HandleOn, NextCallback, Handled, Return
  <2>2. thrown = "none"
    BY <2>1, BaseFacts DEF AtInv
  <2>3. stack' = <<>> \/ Top'.run \notin {"on_writable", "on_readable_oob"}
    <3>1. CASE NextCallback
      BY <2>1, <3>1, BaseFacts, NextCallbackFacts DEF QuietInv
    <3>2. CASE PollsAgain
      <4>1. stack' # <<>> =>
              Top' = Frame("poll", "none", Raised(StateAfter(Top.run, connection_state), out'))
        BY <3>2, SubmitsFacts DEF PollsAgain, Submits
      <4>2. QED
        BY <4>1 DEF Frame
    <3>3. CASE Announces
      <4>1. /\ Frame("poll", "on_connection_complete", {}) \in Frames
            /\ stack' = <<Frame("poll", "on_connection_complete", {})>>
        BY <3>3 DEF Announces, Frame, Frames
      <4>2. Top' = Frame("poll", "on_connection_complete", {})
        BY <4>1, FrameFacts DEF Top
      <4>3. QED
        BY <4>2 DEF Frame
    <3>4. CASE Return
      BY <2>1, <3>4, BaseFacts, TopFacts DEF Return
    <3>5. QED
      BY <2>1, <3>1, <3>2, <3>3, <3>4, BaseFacts, HandledFacts
  <2>4. \/ Called("none")
        \/ Called(Top'.run) /\ Top'.run \notin {"on_writable", "on_readable_oob"}
    BY <2>1, <2>3, GoesFacts
  <2>5. thrown' = "none" \/ is_done'
    <3>1. PICK run : Called(run) /\ run \notin {"on_writable", "on_readable_oob"}
      BY <2>4
    <3>2. CASE run = "on_connection_failed"
      BY <3>1, <3>2, CalledFacts
    <3>3. CASE run # "on_connection_failed"
      BY <2>2, <3>1, <3>3, CalledFacts
    <3>4. QED
      BY <3>2, <3>3
  <2>6. QED
    BY <1>1, <2>5
<1>9. CASE LeaveByException
  BY <1>2, <1>9 DEF LeaveByException, Throw
<1>10. CASE CloseAtEnd \/ End
  BY <1>1, <1>10 DEF CloseAtEnd, End, Close, Delete
<1>11. CASE ServerEchoes \/ ServerEnds \/ ServerAnswers \/ ServerReads
  <2>1. UNCHANGED program /\ \E e : Network(e)
    BY <1>11 DEF ServerEchoes, ServerEnds, ServerAnswers, ServerReads, PeerShutsDown,
                 PeerAborts, PeerAccepts, PeerRefuses, PeerReads
  <2>2. QED
    BY <1>2, <2>1 DEF Network, program
<1>12. CASE UNCHANGED clientVars
  BY <1>2, <1>12 DEF clientVars, vars, program
<1>13. QED
  BY <1>3, <1>4, <1>5, <1>6, <1>7, <1>8, <1>9, <1>10, <1>11, <1>12 DEF ClientNext, ClientStep

----------------------------------------------------------------------------
(* The server                                                              *)

LEMMA ServerHeld ==
  ASSUME Base, NEW e \in Endpoints(MaxInbox), ~e.urgent, Network(e), UNCHANGED program
  PROVE  /\ Held /\ net' = e /\ UNCHANGED <<s, connection_state, calls>>
         /\ AtInv' /\ UseInv' /\ QuietInv'
<1>1. Changes(e) /\ net' = e
      /\ UNCHANGED <<s, connection_state, events, alive, orphaned, strayed, stack, calls>>
  BY BaseFacts, SettleFacts DEF Network, Settle, socket, history
<1>2. Held
  BY <1>1 DEF Held
<1>3. UNCHANGED <<at, thrown, is_done>>
  BY DEF program
<1>4. AtInv' /\ UseInv' /\ QuietInv'
  BY <1>1, <1>2, <1>3, BaseFacts, HeldFacts DEF AtInv, Looping
<1>5. QED
  BY <1>1, <1>2, <1>4

LEMMA ServerStep ==
  ASSUME Base, ServerEchoes \/ ServerEnds \/ ServerAnswers \/ ServerReads
  PROVE  ClientInv'
<1>0. UNCHANGED program
      /\ UNCHANGED <<at, bytes_read, number_of_messages_sent, is_done, thrown>>
  BY DEF ServerEchoes, ServerEnds, ServerAnswers, ServerReads, program
<1>1. net \in Endpoints(MaxInbox) /\ ~net.urgent
      /\ net.inbox \in Nat /\ MaxInbox \in Nat
  BY BaseFacts, DirectAssumption DEF QuietInv
<1>2. CASE ServerEchoes
  <2> DEFINE e == [net EXCEPT !.inbox = net.inbox + 1]
  <2>1. /\ echoed < number_of_messages_sent * MessageSize
        /\ net.link = "up" /\ net.inbox < MaxInbox
        /\ Network(e) /\ echoed' = echoed + 1
    BY <1>2 DEF ServerEchoes
  <2>2. net.inbox + 1 \in 0..MaxInbox
    BY <1>1, <2>1
  <2>3. e \in Endpoints(MaxInbox) /\ e.inbox = net.inbox + 1
        /\ e.link = net.link /\ ~e.urgent
    BY <1>1, <2>2 DEF Endpoints
  <2> HIDE DEF e
  <2>4. /\ Held /\ net' = e /\ UNCHANGED <<s, connection_state, calls>>
        /\ AtInv' /\ UseInv' /\ QuietInv'
    BY <1>0, <2>1, <2>3, ServerHeld
  <2> DEFINE V == Volume(number_of_messages_sent)
  <2>5. /\ V \in Nat /\ echoed \in Nat /\ echoed < V /\ V' = V
        /\ net.inbox <= echoed /\ bytes_read \in Nat /\ MessageSize \in Nat
        /\ V + bytes_read + net.inbox <= echoed + MessageSize
        /\ at = "write_data" => V + net.inbox <= echoed
    BY <1>0, <2>1, BaseFacts, VolumeFacts DEF Volume, AmountInv
  <2> HIDE DEF V
  <2>6. AmountInv'
    <3>1. /\ echoed + 1 \in Nat /\ net.inbox + 1 <= echoed + 1 /\ echoed + 1 <= V
          /\ V + bytes_read + (net.inbox + 1) <= (echoed + 1) + MessageSize
          /\ V + net.inbox <= echoed => V + (net.inbox + 1) <= echoed + 1
      BY <1>1, <2>5
    <3>2. Starting' = Starting /\ net'.inbox = net.inbox + 1
      BY <2>3, <2>4 DEF Starting
    <3>3. QED
      BY <1>0, <2>1, <2>5, <3>1, <3>2, BaseFacts DEF V, AmountInv
  <2>7. EndInv'
    <3>1. ~AllBack
      <4>1. ASSUME AllBack PROVE FALSE
        <5>1. number_of_messages_sent = number_of_messages /\ echoed = Volume(number_of_messages)
          BY <4>1 DEF AllBack
        <5>2. echoed = V
          BY <5>1 DEF V
        <5>3. QED
          BY <2>5, <5>2
      <4>2. QED
        BY <4>1
    <3>2. QED
      BY <1>0, <2>4, <3>1, BaseFacts DEF EndInv
  <2>8. ThrownInv'
    BY <1>0, <2>1, ThrownHeld
  <2>9. QED
    BY <2>4, <2>6, <2>7, <2>8 DEF ClientInv
<1>3. CASE ServerEnds \/ ServerAnswers \/ ServerReads
  <2>1. UNCHANGED echoed
    BY <1>3 DEF ServerEnds, ServerAnswers, ServerReads
  <2>2. PICK e \in Endpoints(MaxInbox) :
           /\ Network(e) /\ e.inbox <= net.inbox /\ ~e.urgent
           /\ net.link \in {"reset", "closed"} => e.link \in {"reset", "closed"}
    <3>1. net.inbox <= net.inbox
      BY <1>1
    <3>2. CASE PeerShutsDown
      <4> DEFINE e == [net EXCEPT !.fin = TRUE]
      <4>1. e \in Endpoints(MaxInbox) /\ e.inbox = net.inbox /\ e.link = net.link /\ ~e.urgent
        BY <1>1 DEF Endpoints
      <4>2. Network(e)
        BY <3>2 DEF PeerShutsDown
      <4> HIDE DEF e
      <4>3. QED
        BY <3>1, <4>1, <4>2
    <3>3. CASE PeerReads
      <4> DEFINE e == [net EXCEPT !.room = TRUE]
      <4>1. e \in Endpoints(MaxInbox) /\ e.inbox = net.inbox /\ e.link = net.link /\ ~e.urgent
        BY <1>1 DEF Endpoints
      <4>2. Network(e)
        BY <3>3 DEF PeerReads
      <4> HIDE DEF e
      <4>3. QED
        BY <3>1, <4>1, <4>2
    <3>4. CASE PeerAborts
      <4>1. /\ ResetEndpoint(net) \in Endpoints(MaxInbox)
            /\ ResetEndpoint(net).link = "reset"
            /\ ResetEndpoint(net).inbox = 0 /\ ~ResetEndpoint(net).urgent
        BY <1>1, EndpointFacts DEF ResetEndpoint
      <4>2. QED
        BY <1>1, <3>4, <4>1 DEF PeerAborts
    <3>5. CASE PeerAccepts \/ PeerRefuses
      <4>1. PICK link \in {"up", "refused"} :
               net.link = "connecting" /\ Network([net EXCEPT !.link = link])
        BY <3>5 DEF PeerAccepts, PeerRefuses
      <4> DEFINE e == [net EXCEPT !.link = link]
      <4>2. e \in Endpoints(MaxInbox) /\ e.inbox = net.inbox /\ ~e.urgent
        BY <1>1 DEF Endpoints, Links
      <4> HIDE DEF e
      <4>3. QED
        BY <3>1, <4>1, <4>2 DEF e
    <3>6. QED
      BY <1>3, <3>2, <3>3, <3>4, <3>5 DEF ServerEnds, ServerAnswers, ServerReads
  <2>3. /\ Held /\ net' = e /\ UNCHANGED <<s, connection_state, calls>>
        /\ AtInv' /\ UseInv' /\ QuietInv'
    BY <1>0, <2>2, ServerHeld
  <2>4. Starting' = Starting
    BY <2>3 DEF Starting
  <2>5. AmountInv' /\ EndInv' /\ ThrownInv'
    BY <1>0, <2>1, <2>2, <2>3, <2>4, AmountHeld, EndHeld, ThrownHeld
  <2>6. QED
    BY <2>3, <2>5 DEF ClientInv
<1>4. QED
  BY <1>2, <1>3

----------------------------------------------------------------------------
(* Results                                                                 *)

LEMMA NextClientInv ==
  ASSUME Base, [ClientNext]_clientVars
  PROVE  ClientInv'
<1>1. CASE UNCHANGED clientVars
  <2>1. UNCHANGED <<at, bytes_read, number_of_messages_sent, is_done, thrown, echoed,
                    stack, connection_state, net, events, poll, packets, out, calls, s,
                    alive, orphaned, strayed>>
    BY <1>1 DEF clientVars, program, vars, socket, kernel, history
  <2>2. Top' = Top /\ Starting' = Starting /\ Looping' = Looping /\ AllBack' = AllBack
        /\ Volume(number_of_messages_sent)' = Volume(number_of_messages_sent)
    BY <2>1 DEF Top, Starting, Looping, AllBack, Volume
  <2>3. QED
    BY <2>1, <2>2 DEF Base, ClientInv, AtInv, UseInv, QuietInv, AmountInv, EndInv, ThrownInv
<1>2. QED
  BY <1>1, SendStep, SendFailsStep, ReadDataStep, ReadNothingStep, EndStep, ConnectStep,
     TakePacketStep, HandleOnStep, LeaveStep, ServerStep
  DEF ClientNext, ClientStep

LEMMA ClientInvHolds == ClientSpec => [](ClientInv /\ CloseInv)
<1>1. ClientInit => ClientInv /\ CloseInv
  <2>1. ASSUME ClientInit PROVE ClientInv /\ CloseInv
    <3>1. /\ at = "none" /\ bytes_read = 0 /\ number_of_messages_sent = 0
          /\ is_done = FALSE /\ thrown = "none" /\ echoed = 0
          /\ stack = <<>> /\ connection_state = "created" /\ alive = TRUE
          /\ net = NewEndpoint /\ out = {} /\ s = "open" /\ strayed = FALSE
      BY <2>1 DEF ClientInit, ProgramInit, Init
    <3>2. net.inbox = 0 /\ net.urgent = FALSE /\ Looping /\ Starting
      BY <3>1 DEF NewEndpoint, Looping, Starting
    <3>3. 0 \in 0..number_of_messages /\ 0 \in 0..MessageSize - 1 /\ Volume(0) = 0
          /\ 0 + 0 + 0 <= 0 + MessageSize
      BY ProgramAssumption, VolumeFacts
    <3>4. AmountInv
      BY <3>1, <3>2, <3>3 DEF AmountInv
    <3>5. QED
      BY <3>1, <3>2, <3>4 DEF ClientInv, AtInv, UseInv, QuietInv, EndInv, ThrownInv,
                                     CloseInv
  <2>2. QED
    BY <2>1
<1>2. Inv /\ TellInv /\ ClientInv /\ CloseInv /\ [ClientNext]_clientVars
        => ClientInv' /\ CloseInv'
  BY NextClientInv, NextCloseInv DEF Base
<1>3. QED
  BY <1>1, <1>2, ClientIsApplication, InvHolds, TellInvHolds, PTL DEF ClientSpec

\* The program ends as it is meant to.  It ends without an exception only
\* when every message has come back, when the connection was reset, or when
\* the server closed first: then on_client_close ends it, however many
\* messages are missing.  With an exception it ends by one that it is written
\* to throw, never by a callback it does not expect.
THEOREM DirectClientEndsAsMeant == ClientSpec => []EndsAsMeant
<1>1. ClientInv => EndsAsMeant
  BY DEF ClientInv, EndInv, ThrownInv, AllBack, Volume, EndsAsMeant
<1>2. QED
  BY <1>1, ClientInvHolds, PTL

============================================================================
