-------------------------- MODULE EchoClientProofs --------------------------
(***************************************************************************)
(* Theorems about the echo client of socket/: it is an application of      *)
(* TcpSocket that never has two polls outstanding, although nothing in the *)
(* socket sees to that, and it ends as it is meant to, for every number    *)
(* and size of messages.                                                   *)
(***************************************************************************)
EXTENDS EchoClient, TcpSocketProofs

----------------------------------------------------------------------------
(* The client uses its socket as any application may                       *)

LEMMA ClientSteps == ClientNext => [Next]_vars
<1> SUFFICES ASSUME ClientNext PROVE [Next]_vars
  OBVIOUS
<1> USE DEF Next, Application, Thread, Peer
<1>1. CASE SendMessage \/ SendFails \/ (LastMessageBack /\ UNCHANGED vars)
  BY <1>1 DEF SendMessage, SendFails
<1>2. CASE ReadData \/ ReadFindsNothing \/ ShutDownBoth \/ CloseSocket
  BY <1>2 DEF ReadData, ReadFindsNothing, ShutDownBoth, CloseSocket
<1>3. CASE ConnectToServer \/ TakePacket \/ ReturnFromCallback \/ LeaveByException
           \/ CloseAtEnd \/ End
  BY <1>3 DEF ConnectToServer, TakePacket, ReturnFromCallback, LeaveByException, CloseAtEnd,
              End
<1>4. CASE ServerEchoes \/ ServerEnds \/ ServerAnswers \/ ServerReads
  BY <1>4 DEF ServerEchoes, ServerEnds, ServerAnswers, ServerReads
<1>5. QED
  BY <1>1, <1>2, <1>3, <1>4 DEF ClientNext, ClientStep

\* The echo client is one of the applications over which the theorems about
\* the socket range, those that assume no discipline of the application.
THEOREM ClientIsApplication == ClientSpec => Spec
<1>1. ClientInit => Init
  BY DEF ClientInit
<1>2. [ClientNext]_clientVars => [Next]_vars
  BY ClientSteps DEF clientVars, vars
<1>3. QED
  BY <1>1, <1>2, PTL DEF ClientSpec, Spec

----------------------------------------------------------------------------
(* The inductive invariant                                                 *)

\* The statements of each callback.
Statements ==
  [on_connected |-> {"write_data", "read_data", "close", "throw", "return"},
   on_readable |-> {"write_data", "read_data", "close", "throw", "return"},
   on_client_close |-> {"shutdown", "throw"},
   on_connection_reset |-> {"close", "return"},
   on_disconnected |-> {"return"},
   on_connection_failed |-> {"throw"}]

Starting == connection_state \in {"created", "pending_connect"}

EndCallbacks == {"on_connection_reset", "on_client_close"}

\* The program is at a statement of the callback that the main loop has made,
\* and throws when something has gone wrong.  A callback inside that one is
\* close()'s, its caller's last statement.  The on_disconnected of the
\* close() at the end comes after the exception.
AtInv ==
  /\ stack = <<>> => at = "none"
  /\ stack # <<>> =>
       /\ stack[1].run \in DOMAIN Statements /\ at \in Statements[stack[1].run]
       /\ stack[1].run = "on_disconnected" => stack[1].todo = {}
       /\ stack[1].run # "on_disconnected" => (at = "throw" <=> thrown # "none")
  /\ Len(stack) = 2 => at = "return"

\* It reads and writes only while nothing is outstanding: the poll that
\* called it back was the only one, and once it has polled again only the end
\* of the connection is still to be told.  It closes the socket last.
UseInv ==
  /\ s = "invalid" => ~Looping
  /\ at \in {"write_data", "read_data"} => Outstanding = {}
  /\ \A i \in 1..Len(stack) : stack[i].todo \subseteq EndCallbacks

\* The callbacks it does not expect are never made: nobody sends urgent
\* data, and it wants to be told of room only while it connects, since a
\* write that falls short ends it.
QuietInv ==
  /\ ~net.urgent /\ "RECEIVE_EXPEDITED" \notin out
  /\ thrown = "none" /\ ~Starting =>
       /\ "SEND" \notin events
       /\ \A i \in PollIds : "SEND" \notin polls[i]
       /\ iocp # {} => "SEND" \notin out

\* The units of data in n messages.
Volume(n) == n * MessageSize

\* No more comes back than was sent; at most one message is on its way, and
\* none when the next one is sent.
AmountInv ==
  /\ number_of_messages_sent \in 0..number_of_messages
  /\ bytes_read \in 0..MessageSize - 1
  /\ echoed \in Nat /\ net.inbox <= echoed /\ echoed <= Volume(number_of_messages_sent)
  /\ Volume(number_of_messages_sent) + bytes_read + net.inbox <= echoed + MessageSize
  /\ at = "write_data" =>
       bytes_read = 0 /\ Volume(number_of_messages_sent) + net.inbox <= echoed
  /\ Starting => number_of_messages_sent = 0 /\ bytes_read = 0

AllBack ==
  /\ number_of_messages_sent = number_of_messages
  /\ echoed = Volume(number_of_messages)

\* The program closes the socket, or is done, when every message is back,
\* unless the server has reset the connection.
EndInv ==
  /\ at = "close" /\ calls["on_connection_reset"] = 0 => AllBack
  /\ is_done /\ thrown = "none" /\ calls["on_connection_reset"] = 0 => AllBack

ThrownInv ==
  /\ thrown \in {"none", "failed to send all data", "connection failed", "not connected"}
  /\ at = "shutdown" \/ thrown = "not connected" => calls["on_client_close"] # 0

ClientInv == AtInv /\ UseInv /\ QuietInv /\ AmountInv /\ EndInv /\ ThrownInv

Base == TypeOK /\ StackInv /\ SocketInv /\ TellInv /\ OneWaitInv /\ ClientInv

LEMMA BaseFacts ==
  ASSUME Base
  PROVE  /\ TypeOK /\ StackInv /\ SocketInv /\ TellInv
         /\ OneWaitInv /\ PollInv /\ OutputInv
         /\ AtInv /\ UseInv /\ QuietInv /\ AmountInv /\ EndInv /\ ThrownInv
         /\ net \in Endpoints(MaxInbox) /\ net.inbox \in Nat /\ ~net.urgent
         /\ polls \in [PollIds -> SUBSET Events] /\ iocp \in SUBSET PollIds
         /\ out \in SUBSET Events /\ stack \in Seq(Frames)
         /\ number_of_messages_sent \in Nat /\ bytes_read \in Nat
         /\ MessageSize \in Nat /\ MessageSize > 0 /\ number_of_messages \in Nat
  BY MaxInboxAssumption, ProgramAssumption
  DEF Base, TypeOK, ClientInv, OneWaitInv, QuietInv, AmountInv, Endpoints

LEMMA VolumeFacts ==
  /\ Volume(0) = 0
  /\ \A n \in Nat : Volume(n) \in Nat /\ Volume(n + 1) = Volume(n) + MessageSize
<1>1. MessageSize \in Nat
  BY ProgramAssumption
<1>2. \A n, m \in Nat : n * m \in Nat /\ (n + 1) * m = n * m + m /\ 0 * m = 0
  OBVIOUS
<1>3. QED
  BY <1>1, <1>2 DEF Volume

\* Whenever the program has a statement to execute, the callback that the
\* main loop has made is in progress, and no other.
LEMMA AtFacts ==
  ASSUME Base, at \notin {"none", "return"}
  PROVE  /\ stack # <<>> /\ Len(stack) = 1 /\ Top = stack[1] /\ stack[1] \in Frames
         /\ stack[1].run \in DOMAIN Statements /\ at \in Statements[stack[1].run]
         /\ at = "throw" <=> thrown # "none"
         /\ alive /\ ~Starting
<1>1. /\ stack # <<>> /\ Len(stack) # 2
      /\ stack[1].run \in DOMAIN Statements /\ at \in Statements[stack[1].run]
      /\ at = "throw" <=> thrown # "none"
  BY BaseFacts DEF AtInv, Statements
<1>2. Len(stack) \in Nat \ {0} /\ Len(stack) \in 0..2 /\ Top \in Frames
  BY <1>1, BaseFacts, TopFacts DEF StackInv
<1>3. Len(stack) = 1
  BY <1>1, <1>2
<1>4. Top = stack[1]
  BY <1>3 DEF Top
<1>5. alive /\ ~Starting
  BY <1>1, BaseFacts DEF StackInv, TellInv, Starting
<1>6. QED
  BY <1>1, <1>2, <1>3, <1>4, <1>5

\* What the statements that are more than the end of a callback belong to.
LEMMA StatementFacts ==
  ASSUME NEW run \in DOMAIN Statements
  PROVE  /\ Statements[run] \cap {"write_data", "read_data"} # {} =>
              Statements[run] = {"write_data", "read_data", "close", "throw", "return"}
         /\ "shutdown" \in Statements[run] => "throw" \in Statements[run]
         /\ "close" \in Statements[run] => "return" \in Statements[run]
         /\ "none" \notin Statements[run]
  BY DEF Statements

----------------------------------------------------------------------------
(* How each part of the invariant is kept                                  *)

\* By a step that leaves the callbacks in progress alone.
LEMMA UseHeld ==
  ASSUME Base, UNCHANGED stack,
         stack = <<>> => at' = at,
         stack # <<>> => /\ at \notin {"none", "return"}
                         /\ at' \in Statements[stack[1].run]
                         /\ at' = "throw" <=> thrown' # "none",
         Len(stack) = 2 => at' = "return",
         s' = s \/ ~Looping', Looping' => Looping,
         at' \in {"write_data", "read_data"} => Outstanding' = {}
  PROVE  AtInv' /\ UseInv'
<1>0. AtInv /\ UseInv
  BY BaseFacts
<1>1. AtInv'
  <2>1. stack # <<>> => stack[1].run # "on_disconnected"
    BY <1>0 DEF AtInv, Statements
  <2>2. QED
    BY <1>0, <2>1 DEF AtInv
<1>2. UseInv'
  BY <1>0 DEF UseInv
<1>3. QED
  BY <1>1, <1>2

LEMMA UrgentReady ==
  ASSUME NEW e \in Endpoints(MaxInbox), ~e.urgent
  PROVE  "RECEIVE_EXPEDITED" \notin Ready(e)
  BY DEF Ready, Endpoints, If

\* By a step that submits no poll.
LEMMA QuietSettle ==
  ASSUME Base, NEW e \in Endpoints(MaxInbox), ~e.urgent, Settle(e, polls, out),
         thrown' = "none" /\ ~Starting' => thrown = "none" /\ ~Starting,
         events' \subseteq events
  PROVE  QuietInv'
<1>0. QuietInv /\ polls \in [PollIds -> SUBSET Events]
  BY BaseFacts
<1>1. /\ net' = e
      /\ polls' \in [PollIds -> SUBSET Events]
      /\ \A i \in PollIds : polls'[i] # {} => polls'[i] = polls[i]
  BY BaseFacts, SettleFacts
<1>2. \/ UNCHANGED <<iocp, out>>
      \/ \E i \in PollIds : out' = polls[i] \cap Ready(e)
  BY <1>0, SettleCases
<1>3. "RECEIVE_EXPEDITED" \notin out'
  BY <1>0, <1>2, UrgentReady DEF QuietInv
<1>4. ASSUME thrown' = "none", ~Starting'
      PROVE  /\ "SEND" \notin events'
             /\ \A i \in PollIds : "SEND" \notin polls'[i]
             /\ iocp' # {} => "SEND" \notin out'
  <2>1. /\ "SEND" \notin events /\ \A i \in PollIds : "SEND" \notin polls[i]
        /\ iocp # {} => "SEND" \notin out
    BY <1>0, <1>4 DEF QuietInv
  <2>2. QED
    BY <1>1, <1>2, <2>1
<1>5. QED
  BY <1>1, <1>3, <1>4 DEF QuietInv

\* By a step that leaves the driver alone, but for a packet it may take.
LEMMA QuietSame ==
  ASSUME Base, ~net'.urgent, UNCHANGED <<polls, out>>, iocp' \subseteq iocp,
         ~Starting' => ~Starting, thrown' = "none" => thrown = "none",
         events' \subseteq events
  PROVE  QuietInv'
<1>0. QuietInv
  BY BaseFacts
<1>1. QED
  BY <1>0 DEF QuietInv

\* By a step that polls: while the program goes on, for anything but room.
LEMMA QuietPoll ==
  ASSUME Base, NEW e \in Endpoints(MaxInbox), ~e.urgent,
         NEW interest \in SUBSET Events, Poll(interest, e), events' = interest,
         thrown' = "none" /\ ~Starting' =>
           "SEND" \notin interest /\ thrown = "none" /\ ~Starting
  PROVE  QuietInv'
<1>0. QuietInv /\ TypeOK /\ polls \in [PollIds -> SUBSET Events]
  BY BaseFacts
<1>1. /\ net' = e /\ out' \subseteq Ready(e)
      /\ \A i \in PollIds : polls'[i] # {} => polls'[i] \in {polls[i], interest}
  BY <1>0, PollFacts
<1>2. out' = {} \/ \E asked \in {polls[j] : j \in PollIds} \cup {interest} :
                      out' = asked \cap Ready(e)
  BY <1>0, PollCases
<1>3. "RECEIVE_EXPEDITED" \notin out'
  BY <1>1, UrgentReady
<1>4. ASSUME thrown' = "none", ~Starting'
      PROVE  /\ "SEND" \notin events'
             /\ \A i \in PollIds : "SEND" \notin polls'[i]
             /\ iocp' # {} => "SEND" \notin out'
  <2>1. "SEND" \notin interest /\ \A i \in PollIds : "SEND" \notin polls[i]
    BY <1>0, <1>4 DEF QuietInv
  <2>2. QED
    BY <1>1, <1>2, <2>1
<1>5. QED
  BY <1>1, <1>3, <1>4 DEF QuietInv

\* By a step that neither sends nor reads.
LEMMA AmountHeld ==
  ASSUME Base, net' \in Endpoints(MaxInbox),
         UNCHANGED <<bytes_read, number_of_messages_sent, echoed>>,
         net'.inbox <= net.inbox,
         Starting' => Starting,
         at' = "write_data" => at = "write_data" \/ Starting
  PROVE  AmountInv'
<1>0. AmountInv
  BY BaseFacts
<1> DEFINE V == Volume(number_of_messages_sent)
<1>1. /\ net.inbox \in Nat /\ net'.inbox \in Nat /\ V \in Nat /\ bytes_read \in Nat
      /\ echoed \in Nat /\ MessageSize \in Nat
  BY <1>0, BaseFacts, VolumeFacts, MaxInboxAssumption DEF AmountInv, Endpoints
<1>2. /\ echoed <= V /\ net.inbox <= echoed
      /\ V + bytes_read + net.inbox <= echoed + MessageSize
      /\ at = "write_data" => bytes_read = 0 /\ V + net.inbox <= echoed
      /\ Starting => V = 0 /\ bytes_read = 0
  BY <1>0, VolumeFacts DEF AmountInv
<1>3. V' = V
  BY DEF Volume
<1> HIDE DEF V
<1>4. /\ net'.inbox <= echoed /\ V + bytes_read + net'.inbox <= echoed + MessageSize
      /\ at = "write_data" \/ Starting => bytes_read = 0 /\ V + net'.inbox <= echoed
  BY <1>1, <1>2
<1>5. QED
  BY <1>0, <1>2, <1>3, <1>4 DEF V, AmountInv

\* By a step that neither sends nor lets the server send, and that takes the
\* history of no milestone back.
LEMMA EndHeld ==
  ASSUME Base, UNCHANGED <<number_of_messages_sent, echoed>>,
         \A m \in EndCallbacks : calls'[m] = 0 => calls[m] = 0,
         at' = "close" => at = "close" \/ AllBack \/ calls'["on_connection_reset"] # 0,
         is_done' /\ thrown' = "none" => (is_done /\ thrown = "none") \/ at = "close",
         at' = "shutdown" => calls'["on_client_close"] # 0,
         thrown' \in {thrown, "failed to send all data", "connection failed",
                      "not connected"},
         thrown' = "not connected" => thrown = "not connected" \/ at = "shutdown"
  PROVE  EndInv' /\ ThrownInv'
<1>0. EndInv /\ ThrownInv
  BY BaseFacts
<1>1. AllBack' = AllBack
  BY DEF AllBack, Volume
<1>2. calls'["on_connection_reset"] = 0 => calls["on_connection_reset"] = 0
  BY DEF EndCallbacks
<1>3. calls'["on_client_close"] = 0 => calls["on_client_close"] = 0
  BY DEF EndCallbacks
<1>4. EndInv'
  BY <1>0, <1>1, <1>2 DEF EndInv
<1>5. ThrownInv'
  BY <1>0, <1>3 DEF ThrownInv
<1>6. QED
  BY <1>4, <1>5

\* No step takes the history of a milestone back.
LEMMA CallsGrow ==
  ASSUME TypeOK, SocketInv, [ClientNext]_clientVars
  PROVE  \A m \in EndCallbacks : calls'[m] = 0 => calls[m] = 0
<1>1. [Next]_vars
  BY ClientSteps DEF clientVars, vars
<1>2. EndCallbacks \subseteq Milestones
  BY DEF EndCallbacks, Milestones
<1>3. QED
  BY <1>1, <1>2, CallsKept

----------------------------------------------------------------------------
(* The steps of the callbacks                                              *)

\* write() takes the whole message, or there is none left to send.
LEMMA SendStep ==
  ASSUME Base, SendMessage \/ (LastMessageBack /\ UNCHANGED vars), UNCHANGED echoed
  PROVE  ClientInv'
<1> USE DEF kernel
<1>0. /\ at = "write_data" /\ at \notin {"none", "return"}
      /\ UNCHANGED <<is_done, thrown>> /\ at' \in {"read_data", "close"}
  BY DEF SendMessage, MessageSent, LastMessageBack
<1>1. /\ stack # <<>> /\ Len(stack) = 1 /\ stack[1].run \in DOMAIN Statements
      /\ at \in Statements[stack[1].run] /\ thrown = "none" /\ ~Starting
      /\ Outstanding = {}
  BY <1>0, AtFacts, BaseFacts DEF UseInv
<1>2. at' \in Statements[stack[1].run] /\ at' # "throw"
  BY <1>0, <1>1, StatementFacts
<1>3. /\ UNCHANGED <<s, connection_state, events, polls, iocp, out, stack, calls>>
      /\ net' \in Endpoints(MaxInbox) /\ ~net'.urgent /\ net'.inbox = net.inbox
  <2>1. CASE WriteAll
    <3>1. net' = [net EXCEPT !.room = FALSE]
      BY <2>1 DEF WriteAll
    <3>2. net' \in Endpoints(MaxInbox) /\ net'.inbox = net.inbox /\ net'.urgent = net.urgent
      BY <3>1, BaseFacts DEF Endpoints
    <3>3. QED
      BY <2>1, <3>2, BaseFacts DEF WriteAll
  <2>2. CASE UNCHANGED vars
    BY <2>2, BaseFacts DEF vars
  <2>3. QED
    BY <2>1, <2>2 DEF SendMessage
<1>4. Starting' = Starting /\ Outstanding' = Outstanding
  BY <1>3 DEF Starting, Outstanding
<1>5. AtInv' /\ UseInv'
  <2>1. Looping' = Looping
    BY <1>0 DEF Looping
  <2>2. QED
    BY <1>0, <1>1, <1>2, <1>3, <1>4, <2>1, UseHeld
<1>6. QuietInv'
  BY <1>0, <1>3, <1>4, QuietSame
<1> DEFINE V == Volume(number_of_messages_sent)
<1>7. /\ V \in Nat /\ echoed \in Nat /\ net.inbox \in Nat /\ MessageSize \in Nat
      /\ bytes_read = 0 /\ echoed <= V /\ V + net.inbox <= echoed /\ net.inbox <= echoed
  BY <1>0, BaseFacts, VolumeFacts DEF AmountInv
<1>8. CASE SendMessage
  <2>1. /\ number_of_messages_sent < number_of_messages
        /\ number_of_messages_sent' = number_of_messages_sent + 1
        /\ bytes_read' = bytes_read /\ at' = "read_data"
    BY <1>8 DEF SendMessage, MessageSent, MoreToSend
  <2>2. number_of_messages_sent' \in 0..number_of_messages
    BY <2>1, BaseFacts
  <2>3. Volume(number_of_messages_sent') = V + MessageSize
    BY <2>1, BaseFacts, VolumeFacts
  <2> HIDE DEF V
  <2>4. /\ echoed <= V + MessageSize
        /\ (V + MessageSize) + 0 + net.inbox <= echoed + MessageSize
    BY <1>7
  <2>5. AmountInv'
    <3>1. bytes_read' \in 0..MessageSize - 1
      BY <2>1, BaseFacts DEF AmountInv
    <3>2. Volume(number_of_messages_sent)' = V + MessageSize
      BY <2>3 DEF Volume
    <3>3. QED
      BY <1>1, <1>3, <1>4, <1>7, <2>1, <2>2, <2>4, <3>1, <3>2 DEF AmountInv
  <2>6. EndInv' /\ ThrownInv'
    <3>1. ~(is_done /\ calls["on_connection_reset"] = 0)
      BY <1>1, <2>1, BaseFacts DEF EndInv, AllBack
    <3>2. QED
      BY <1>0, <1>1, <1>3, <2>1, <3>1, BaseFacts DEF EndInv, ThrownInv
  <2>7. QED
    BY <1>5, <1>6, <2>5, <2>6 DEF ClientInv
<1>9. CASE LastMessageBack
  <2>1. /\ ~(number_of_messages_sent < number_of_messages)
        /\ UNCHANGED <<bytes_read, number_of_messages_sent>>
        /\ at' = "close"
    BY <1>9 DEF LastMessageBack, MoreToSend
  <2>2. number_of_messages_sent = number_of_messages
    BY <2>1, BaseFacts DEF AmountInv
  <2>3. V = Volume(number_of_messages)
    BY <2>2
  <2> HIDE DEF V
  <2>4. echoed = V
    BY <1>7
  <2>5. AllBack
    BY <2>2, <2>3, <2>4 DEF AllBack
  <2>6. AmountInv'
    <3>1. net'.inbox <= net.inbox
      BY <1>3, <1>7
    <3>2. QED
      BY <1>3, <1>4, <2>1, <3>1, AmountHeld
  <2>7. EndInv' /\ ThrownInv'
    BY <1>0, <1>3, <2>1, <2>5, EndHeld
  <2>8. QED
    BY <1>5, <1>6, <2>6, <2>7 DEF ClientInv
<1>10. QED
  BY <1>8, <1>9

\* write() takes less.
LEMMA SendFailsStep ==
  ASSUME Base, SendFails, UNCHANGED echoed
  PROVE  ClientInv'
<1>0. /\ at = "write_data" /\ at \notin {"none", "return"} /\ at' = "throw"
      /\ thrown' = "failed to send all data"
      /\ UNCHANGED <<bytes_read, number_of_messages_sent, is_done>>
  BY DEF SendFails, MessageNotSent, Throws
<1>1. /\ stack # <<>> /\ Len(stack) = 1 /\ stack[1].run \in DOMAIN Statements
      /\ at \in Statements[stack[1].run] /\ thrown = "none" /\ ~Starting
  BY <1>0, AtFacts
<1>2. at' \in Statements[stack[1].run]
  <2>1. Statements[stack[1].run] = {"write_data", "read_data", "close", "throw", "return"}
    BY <1>0, <1>1, StatementFacts
  <2>2. QED
    BY <1>0, <2>1
<1>3. PICK e \in Endpoints(MaxInbox) :
         PollFor(WriteEvents, e) /\ e.inbox = net.inbox /\ ~e.urgent
  <2> DEFINE e == [net EXCEPT !.room = FALSE]
  <2>1. e \in Endpoints(MaxInbox) /\ e.inbox = net.inbox /\ ~e.urgent
    BY BaseFacts DEF Endpoints
  <2>2. PollFor(WriteEvents, net) \/ PollFor(WriteEvents, e)
    BY DEF SendFails, WriteSome
  <2> HIDE DEF e
  <2>3. QED
    BY <2>1, <2>2, BaseFacts
<1>4. /\ events' = events \cup WriteEvents /\ Poll(events', e)
      /\ UNCHANGED <<s, connection_state, stack, calls>>
  BY <1>3 DEF PollFor
<1>5. events' \in SUBSET Events
  BY <1>4, BaseFacts DEF TypeOK, WriteEvents, Events
<1>6. net' = e
  BY <1>4, <1>5, BaseFacts, PollFacts
<1>7. AtInv' /\ UseInv'
  <2>1. ~Looping'
    BY <1>0 DEF Looping
  <2>2. at' = "throw" <=> thrown' # "none"
    BY <1>0
  <2>3. at' \notin {"write_data", "read_data"}
    BY <1>0
  <2>4. Len(stack) # 2
    BY <1>1
  <2>5. UNCHANGED stack
    BY <1>4
  <2>6. QED
    BY <1>0, <1>1, <1>2, <2>1, <2>2, <2>3, <2>4, <2>5, UseHeld
<1>8. QuietInv'
  BY <1>0, <1>3, <1>4, <1>5, QuietPoll
<1>9. AmountInv'
  <2>1. net'.inbox <= net.inbox /\ Starting' = Starting
    BY <1>3, <1>4, <1>6, BaseFacts DEF Starting
  <2>2. QED
    BY <1>0, <1>3, <1>6, <2>1, AmountHeld
<1>10. EndInv' /\ ThrownInv'
  BY <1>0, <1>4, EndHeld
<1>11. QED
  BY <1>7, <1>8, <1>9, <1>10 DEF ClientInv

\* read() returns part of a message or the rest of it.
LEMMA ReadDataStep ==
  ASSUME Base, ReadData, UNCHANGED echoed
  PROVE  ClientInv'
<1>0. /\ at = "read_data" /\ at \notin {"none", "return"}
      /\ UNCHANGED <<number_of_messages_sent, is_done, thrown>>
  BY DEF ReadData, DataRead
<1>1. /\ stack # <<>> /\ Len(stack) = 1 /\ stack[1].run \in DOMAIN Statements
      /\ at \in Statements[stack[1].run] /\ thrown = "none" /\ ~Starting
      /\ Outstanding = {}
  BY <1>0, AtFacts, BaseFacts DEF UseInv
<1>2. PICK n \in 1..net.inbox : net' = [net EXCEPT !.inbox = net.inbox - n]
  BY DEF ReadData, ReadSome
<1>3. /\ net.inbox \in Nat /\ net.inbox \in 0..MaxInbox /\ MaxInbox \in Nat
      /\ net \in Endpoints(MaxInbox) /\ ~net.urgent
  BY BaseFacts, MaxInboxAssumption DEF Endpoints
<1>4. n \in Nat /\ n > 0 /\ n <= net.inbox /\ net.inbox - n \in 0..MaxInbox
      /\ net.inbox - (net.inbox - n) = n
  BY <1>3
<1>5. net' \in Endpoints(MaxInbox) /\ net'.inbox = net.inbox - n /\ ~net'.urgent
  BY <1>2, <1>3, <1>4 DEF Endpoints
<1>6. /\ bytes_read + n <= MessageSize
      /\ IF bytes_read + n = MessageSize THEN bytes_read' = 0 /\ at' = "write_data"
         ELSE bytes_read' = bytes_read + n /\ at' = "read_data"
  <2>1. DataRead(n)
    BY <1>4, <1>5 DEF ReadData
  <2>2. QED
    BY <2>1 DEF DataRead
<1>7. at' \in {"read_data", "write_data"} /\ at' \in Statements[stack[1].run]
  BY <1>0, <1>1, <1>6, StatementFacts
<1>8. UNCHANGED <<s, connection_state, events, polls, iocp, out, stack, calls>>
  BY DEF ReadData, ReadSome
<1>9. Starting' = Starting /\ Outstanding' = Outstanding
  BY <1>8 DEF Starting, Outstanding
<1>10. AtInv' /\ UseInv'
  BY <1>0, <1>1, <1>7, <1>8, <1>9, UseHeld DEF Looping
<1>11. QuietInv'
  BY <1>0, <1>5, <1>8, <1>9, QuietSame
<1>12. AmountInv'
  <2> DEFINE V == Volume(number_of_messages_sent)
  <2>1. /\ V \in Nat /\ echoed \in Nat /\ bytes_read \in Nat
        /\ MessageSize \in Nat /\ MessageSize > 0 /\ echoed <= V /\ net.inbox <= echoed
        /\ V + bytes_read + net.inbox <= echoed + MessageSize
        /\ number_of_messages_sent \in 0..number_of_messages
    BY BaseFacts, VolumeFacts DEF AmountInv
  <2>2. V' = V /\ ~Starting'
    BY <1>0, <1>1, <1>9 DEF Volume
  <2> HIDE DEF V
  <2>3. net.inbox - n <= echoed
    BY <1>3, <1>4, <2>1
  <2>4. CASE bytes_read + n = MessageSize
    <3>1. V + (net.inbox - n) <= echoed /\ V + 0 + (net.inbox - n) <= echoed + MessageSize
          /\ 0 \in 0..MessageSize - 1
      BY <1>3, <1>4, <2>1, <2>4
    <3>2. bytes_read' = 0 /\ at' = "write_data"
      BY <1>6, <2>4
    <3>3. QED
      BY <1>0, <1>5, <2>1, <2>2, <2>3, <3>1, <3>2 DEF V, AmountInv
  <2>5. CASE bytes_read + n # MessageSize
    <3>1. V + (bytes_read + n) + (net.inbox - n) <= echoed + MessageSize
          /\ bytes_read + n \in 0..MessageSize - 1
      BY <1>3, <1>4, <1>6, <2>1, <2>5
    <3>2. bytes_read' = bytes_read + n /\ at' = "read_data"
      BY <1>6, <2>5
    <3>3. QED
      BY <1>0, <1>5, <2>1, <2>2, <2>3, <3>1, <3>2 DEF V, AmountInv
  <2>6. QED
    BY <2>4, <2>5
<1>13. EndInv' /\ ThrownInv'
  BY <1>0, <1>7, <1>8, EndHeld
<1>14. QED
  BY <1>10, <1>11, <1>12, <1>13 DEF ClientInv

\* read() returns 0.
LEMMA ReadNothingStep ==
  ASSUME Base, ReadFindsNothing, UNCHANGED echoed
  PROVE  ClientInv'
<1>0. /\ at = "read_data" /\ at \notin {"none", "return"} /\ at' = "return"
      /\ UNCHANGED <<bytes_read, number_of_messages_sent, is_done, thrown>>
      /\ PollFor(ReadEvents, net)
  BY DEF ReadFindsNothing, NothingRead, ReadNothing
<1>1. /\ stack # <<>> /\ Len(stack) = 1 /\ stack[1].run \in DOMAIN Statements
      /\ at \in Statements[stack[1].run] /\ thrown = "none" /\ ~Starting
  BY <1>0, AtFacts
<1>2. at' \in Statements[stack[1].run]
  BY <1>0, <1>1, StatementFacts
<1>3. /\ events' = events \cup ReadEvents /\ Poll(events', net)
      /\ UNCHANGED <<s, connection_state, stack, calls>>
  BY <1>0 DEF PollFor
<1>4. events' \in SUBSET Events /\ "SEND" \notin events'
  BY <1>1, <1>3, BaseFacts DEF TypeOK, QuietInv, ReadEvents, Events
<1>5. net' = net
  BY <1>3, <1>4, BaseFacts, PollFacts
<1>6. AtInv' /\ UseInv'
  BY <1>0, <1>1, <1>2, <1>3, UseHeld DEF Looping
<1>7. QuietInv'
  BY <1>0, <1>1, <1>3, <1>4, BaseFacts, QuietPoll
<1>8. AmountInv'
  <2>1. net'.inbox <= net.inbox /\ Starting' = Starting
    BY <1>3, <1>5, BaseFacts DEF Starting
  <2>2. QED
    BY <1>0, <1>5, <2>1, BaseFacts, AmountHeld
<1>9. EndInv' /\ ThrownInv'
  BY <1>0, <1>3, EndHeld
<1>10. QED
  BY <1>6, <1>7, <1>8, <1>9 DEF ClientInv

\* shutdown(), which throws, and close().
LEMMA EndStep ==
  ASSUME Base, ShutDownBoth \/ CloseSocket, UNCHANGED echoed, [ClientNext]_clientVars
  PROVE  ClientInv'
<1> USE DEF kernel
<1>0. /\ at \in {"shutdown", "close"} /\ at \notin {"none", "return"} /\ at # "throw"
      /\ UNCHANGED <<bytes_read, number_of_messages_sent>>
  BY DEF ShutDownBoth, CloseSocket, Finishes, Throws
<1>1. /\ stack # <<>> /\ Len(stack) = 1 /\ stack[1].run \in DOMAIN Statements
      /\ at \in Statements[stack[1].run] /\ thrown = "none" /\ ~Starting
      /\ stack[1] \in Frames
  BY <1>0, AtFacts
<1>2. \A m \in EndCallbacks : calls'[m] = 0 => calls[m] = 0
  BY BaseFacts, CallsGrow
<1>3. net.inbox <= net.inbox
  BY BaseFacts
<1>4. CASE UNCHANGED vars
  <2>1. UNCHANGED <<s, connection_state, events, net, polls, iocp, out, stack, calls>>
    BY <1>4 DEF vars
  <2>2. Starting' = Starting
    BY <2>1 DEF Starting
  <2>3. \/ /\ at = "shutdown" /\ at' = "throw" /\ thrown' = "not connected"
           /\ is_done' = is_done
        \/ at = "close" /\ at' = "return" /\ thrown' = thrown /\ is_done' = TRUE
    BY DEF ShutDownBoth, CloseSocket, Finishes, Throws
  <2>4. at' \in Statements[stack[1].run] /\ (at' = "throw" <=> thrown' # "none")
    BY <1>1, <2>3, StatementFacts
  <2>5. AtInv' /\ UseInv'
    <3>1. Looping' => Looping
      BY <1>1, <2>3 DEF Looping
    <3>2. Len(stack) # 2
      BY <1>1
    <3>3. at' \notin {"write_data", "read_data"}
      BY <2>3
    <3>4. UNCHANGED <<stack, s>>
      BY <2>1
    <3>5. QED
      BY <1>0, <1>1, <2>4, <3>1, <3>2, <3>3, <3>4, UseHeld
  <2>6. QuietInv'
    BY <1>1, <2>1, <2>2, BaseFacts, QuietSame
  <2>7. AmountInv'
    BY <1>0, <1>3, <2>1, <2>2, <2>3, BaseFacts, AmountHeld
  <2>8. EndInv' /\ ThrownInv'
    BY <1>0, <1>2, <2>3, EndHeld
  <2>9. QED
    BY <2>5, <2>6, <2>7, <2>8 DEF ClientInv
<1>5. CASE Close /\ Finishes("close")
  <2>1. at = "close" /\ at' = "return" /\ thrown' = thrown /\ is_done' = TRUE
    BY <1>5 DEF Finishes
  <2>2. s' = "invalid" /\ Settle(ClosedEndpoint, polls, out)
    BY <1>5 DEF Close
  <2>3. /\ ClosedEndpoint \in Endpoints(MaxInbox) /\ ClosedEndpoint.inbox = 0
        /\ ~ClosedEndpoint.urgent
    BY EndpointFacts DEF ClosedEndpoint, NewEndpoint
  <2>4. net' = ClosedEndpoint
    BY <2>2 DEF Settle
  <2>5. /\ ~Starting' /\ events' \subseteq events
        /\ \/ stack' = stack
           \/ stack' = Append(stack, [run |-> "on_disconnected", todo |-> {}])
    <3>1. CASE events = {}
      <4>1. HandleEvents({"LOCAL_CLOSE"})
        BY <1>5, <3>1 DEF Close
      <4>2. /\ connection_state' = "disconnected" /\ events' = {}
            /\ stack' = Append(stack, [run |-> "on_disconnected", todo |-> {}])
        BY <4>1, BaseFacts, CloseEnds DEF HandleEvents
      <4>3. QED
        BY <4>2 DEF Starting
    <3>2. CASE events # {}
      BY <1>1, <1>5, <3>2 DEF Close, Starting
    <3>3. QED
      BY <3>1, <3>2
  <2>6. /\ stack' # <<>> /\ stack'[1] = stack[1] /\ Len(stack') \in 1..2
        /\ \A i \in 1..Len(stack') : stack'[i].todo \subseteq EndCallbacks
    <3> DEFINE f == [run |-> "on_disconnected", todo |-> {}]
    <3>1. \A i \in 1..Len(stack) : stack[i].todo \subseteq EndCallbacks
      BY BaseFacts DEF UseInv
    <3>2. CASE stack' = stack
      <4>1. stack' # <<>> /\ stack'[1] = stack[1]
        BY <1>1, <3>2
      <4>2. Len(stack') = 1
        BY <1>1, <3>2
      <4>3. Len(stack') \in 1..2
        BY <4>2
      <4>4. \A i \in 1..Len(stack') : stack'[i].todo \subseteq EndCallbacks
        BY <3>1, <3>2
      <4>5. QED
        BY <4>1, <4>3, <4>4
    <3>3. CASE stack' = Append(stack, f)
      <4>1. f \in Frames
        BY DEF Frames, Callbacks
      <4>2. f.todo = {}
        OBVIOUS
      <4> HIDE DEF f
      <4>3. /\ Append(stack, f) # <<>> /\ Len(Append(stack, f)) = Len(stack) + 1
            /\ \A i \in 1..Len(stack) : Append(stack, f)[i] = stack[i]
            /\ Append(stack, f)[Len(stack) + 1] = f
        BY <4>1, BaseFacts, AppendProperties
      <4>4. Len(stack') = 2 /\ stack'[1] = stack[1] /\ stack'[2] = f
        BY <1>1, <3>3, <4>3
      <4>5. \A i \in 1..2 : stack'[i].todo \subseteq EndCallbacks
        BY <1>1, <3>1, <4>2, <4>4
      <4>6. stack' # <<>>
        BY <3>3, <4>3
      <4>7. Len(stack') \in 1..2
        BY <4>4
      <4>8. \A i \in 1..Len(stack') : stack'[i].todo \subseteq EndCallbacks
        BY <4>4, <4>5
      <4>9. QED
        BY <4>4, <4>6, <4>7, <4>8
    <3>4. QED
      BY <2>5, <3>2, <3>3
  <2>7. AtInv' /\ UseInv'
    <3>1. at' \in Statements[stack[1].run]
      BY <1>1, <2>1, StatementFacts
    <3>2. stack[1].run # "on_disconnected"
      BY <1>1, <2>1 DEF Statements
    <3>3. AtInv'
      BY <1>1, <2>1, <2>6, <3>1, <3>2 DEF AtInv
    <3>4. UseInv'
      BY <2>1, <2>6 DEF UseInv, Looping
    <3>5. QED
      BY <3>3, <3>4
  <2>8. QuietInv'
    BY <1>1, <2>1, <2>2, <2>3, <2>5, QuietSettle
  <2>9. AmountInv'
    <3>1. net'.inbox <= net.inbox
      BY <2>3, <2>4, BaseFacts
    <3>2. QED
      BY <1>0, <2>1, <2>3, <2>4, <2>5, <3>1, AmountHeld
  <2>10. EndInv' /\ ThrownInv'
    BY <1>0, <1>2, <2>1, EndHeld
  <2>11. QED
    BY <2>7, <2>8, <2>9, <2>10 DEF ClientInv
<1>6. QED
  BY <1>4, <1>5 DEF ShutDownBoth, CloseSocket

----------------------------------------------------------------------------
(* The steps of main and of handle_events                                  *)

LEMMA CalledFacts ==
  ASSUME NEW run, Called(run)
  PROVE  /\ at' = Entry[run]
         /\ UNCHANGED <<bytes_read, number_of_messages_sent>>
         /\ run \notin {"on_connection_failed", "on_readable_oob", "on_writable"}
              => thrown' = thrown /\ (is_done' <=> is_done)
         /\ is_done => is_done'
         /\ run = "on_connection_failed" => thrown' = "connection failed"
<1>1. at' = Entry[run] /\ UNCHANGED <<bytes_read, number_of_messages_sent>>
  BY DEF Called
<1>2. run \notin {"on_connection_failed", "on_readable_oob", "on_writable"}
        => thrown' = thrown /\ (is_done' <=> is_done)
  BY DEF Called
<1>3. is_done => is_done'
  BY DEF Called
<1>4. run = "on_connection_failed" => thrown' = "connection failed"
  BY DEF Called
<1>5. QED
  BY <1>1, <1>2, <1>3, <1>4

\* Where the callbacks begin.
LEMMA EntryFacts ==
  ASSUME NEW c \in {"on_connected", "on_readable", "on_connection_failed"} \cup EndCallbacks
  PROVE  /\ c \in DOMAIN Statements /\ Entry[c] \in Statements[c]
         /\ Entry[c] = "throw" <=> c = "on_connection_failed"
         /\ Entry[c] = "write_data" <=> c = "on_connected"
         /\ Entry[c] = "read_data" <=> c = "on_readable"
         /\ Entry[c] = "close" <=> c = "on_connection_reset"
         /\ Entry[c] = "shutdown" <=> c = "on_client_close"
         /\ c \in EndCallbacks => StateFor(c, connection_state) = "disconnected"
         /\ StateFor(c, connection_state) \in {"connected", "disconnected", connection_state}
  BY DEF Statements, Entry, EndCallbacks, StateFor

\* handle_events, or a callback that returns to it, makes the program's next
\* callback.
LEMMA CallStep ==
  ASSUME Base, [ClientNext]_clientVars, UNCHANGED <<echoed, s>>,
         NEW todo \in SUBSET Callbacks, todo # {}, Invoke(todo, <<>>), Goes,
         Len(stack) # 2, thrown = "none", at \in {"none", "return"},
         First(todo) \in {"on_connected", "on_readable", "on_connection_failed"} \cup EndCallbacks,
         todo \ {First(todo)} \subseteq EndCallbacks,
         First(todo) = "on_connected" => Starting,
         First(todo) \in {"on_connected", "on_readable"} => Outstanding' = {},
         net' = net
  PROVE  /\ AtInv' /\ UseInv' /\ AmountInv' /\ EndInv' /\ ThrownInv'
         /\ Starting' => Starting
         /\ First(todo) \in EndCallbacks => ~Starting'
<1> DEFINE c == First(todo)
           f == [run |-> c, todo |-> todo \ {c}]
<1>1. /\ Len(<<>>) = 0 /\ <<>> \in Seq(Frames) /\ TypeOK
      /\ connection_state' = StateFor(c, connection_state)
  BY EmptySeq, BaseFacts DEF Invoke
<1>2. /\ Len(stack') = Len(<<>>) + 1 /\ stack'[Len(<<>>) + 1] = f
      /\ stack' \in Seq(Frames)
      /\ \A m \in Milestones : m = c /\ calls[m] = 0 => calls'[m] = 1
  BY <1>1, InvokeFacts
<1>3. f.run = c /\ f.todo \subseteq EndCallbacks
  OBVIOUS
<1> HIDE DEF f
<1>4. Len(stack') = 1 /\ stack'[1] = f
  BY <1>1, <1>2
<1>5. stack' # <<>> /\ stack'[Len(stack')] = f
  BY <1>1, <1>4
<1>6. Called(c)
  BY <1>3, <1>5 DEF Goes
<1> HIDE DEF c
<1>7. /\ c \in DOMAIN Statements /\ Entry[c] \in Statements[c]
      /\ Entry[c] = "throw" <=> c = "on_connection_failed"
      /\ Entry[c] = "write_data" <=> c = "on_connected"
      /\ Entry[c] = "read_data" <=> c = "on_readable"
      /\ Entry[c] = "close" <=> c = "on_connection_reset"
      /\ Entry[c] = "shutdown" <=> c = "on_client_close"
      /\ c \in EndCallbacks => connection_state' = "disconnected"
      /\ connection_state' \in {"connected", "disconnected", connection_state}
  BY <1>1, EntryFacts DEF c
<1>8. /\ at' = Entry[c] /\ UNCHANGED <<bytes_read, number_of_messages_sent>>
      /\ is_done => is_done'
      /\ c = "on_connection_failed" => thrown' = "connection failed"
  BY <1>6, CalledFacts
<1>9. c # "on_connection_failed" => thrown' = thrown /\ (is_done' <=> is_done)
  <2>1. c \notin {"on_readable_oob", "on_writable"}
    BY DEF c, EndCallbacks
  <2>2. QED
    BY <1>6, <2>1, CalledFacts
<1>10. at' = "throw" <=> thrown' # "none"
  BY <1>7, <1>8, <1>9
<1>11. AtInv'
  <2>1. Len(stack') # 2
    BY <1>4
  <2>2. c # "on_disconnected"
    BY DEF c, EndCallbacks
  <2>3. QED
    BY <1>3, <1>4, <1>5, <1>7, <1>8, <1>10, <2>1, <2>2 DEF AtInv
<1>12. UseInv'
  <2>1. Looping' => Looping
    BY <1>8 DEF Looping
  <2>2. at' \in {"write_data", "read_data"} => Outstanding' = {}
    BY <1>7, <1>8 DEF c
  <2>3. \A i \in 1..Len(stack') : stack'[i].todo \subseteq EndCallbacks
    BY <1>3, <1>4
  <2>4. QED
    BY <2>1, <2>2, <2>3, BaseFacts DEF UseInv
<1>13. (Starting' => Starting) /\ (c \in EndCallbacks => ~Starting')
  BY <1>7 DEF Starting
<1>14. AmountInv'
  <2>1. net' \in Endpoints(MaxInbox) /\ net'.inbox <= net.inbox
    BY BaseFacts
  <2>2. at' = "write_data" => Starting
    BY <1>7, <1>8 DEF c
  <2>3. QED
    BY <1>8, <1>13, <2>1, <2>2, AmountHeld
<1>15. EndInv' /\ ThrownInv'
  <2>1. \A m \in EndCallbacks : calls'[m] = 0 => calls[m] = 0
    BY BaseFacts, CallsGrow
  <2>2. ASSUME c \in EndCallbacks PROVE calls'[c] # 0
    <3>1. c \in Milestones
      BY <2>2 DEF EndCallbacks, Milestones
    <3>2. QED
      BY <1>2, <2>1, <2>2, <3>1
  <2>3. at' = "close" => calls'["on_connection_reset"] # 0
    BY <1>7, <1>8, <2>2 DEF EndCallbacks
  <2>4. at' = "shutdown" => calls'["on_client_close"] # 0
    BY <1>7, <1>8, <2>2 DEF EndCallbacks
  <2>5. /\ is_done' /\ thrown' = "none" => is_done /\ thrown = "none"
        /\ thrown' \in {thrown, "connection failed"}
    BY <1>8, <1>9
  <2>6. QED
    BY <1>8, <2>1, <2>3, <2>4, <2>5, EndHeld
<1>16. QED
  BY <1>11, <1>12, <1>13, <1>14, <1>15 DEF c

\* The last callback in progress has returned, or there was none to make.
LEMMA IdleStep ==
  ASSUME Base, UNCHANGED <<echoed, s, connection_state, calls, net>>,
         stack' = <<>>, Goes, Len(stack) # 2
  PROVE  AtInv' /\ UseInv' /\ AmountInv' /\ EndInv' /\ ThrownInv' /\ thrown' = thrown
<1>1. Called("none")
  BY DEF Goes
<1>2. Entry["none"] = "none"
  BY DEF Entry
<1>3. at' = "none" /\ UNCHANGED <<bytes_read, number_of_messages_sent>>
  BY <1>1, <1>2, CalledFacts
<1>4. thrown' = thrown /\ (is_done' <=> is_done)
  BY <1>1 DEF Called
<1>5. Starting' = Starting
  BY DEF Starting
<1>6. AtInv'
  <2>1. Len(<<>>) # 2
    OBVIOUS
  <2>2. QED
    BY <1>3, <2>1 DEF AtInv
<1>7. UseInv'
  <2>1. Looping' => Looping
    BY <1>4 DEF Looping
  <2>2. \A i \in 1..Len(stack') : stack'[i].todo \subseteq EndCallbacks
    <3>1. Len(stack') = 0
      OBVIOUS
    <3>2. QED
      BY <3>1
  <2>3. QED
    BY <1>3, <2>1, <2>2, BaseFacts DEF UseInv
<1>8. AmountInv'
  <2>1. net' \in Endpoints(MaxInbox) /\ net'.inbox <= net.inbox
    BY BaseFacts
  <2>2. QED
    BY <1>3, <1>5, <2>1, AmountHeld
<1>9. EndInv' /\ ThrownInv'
  BY <1>3, <1>4, EndHeld
<1>10. QED
  BY <1>4, <1>6, <1>7, <1>8, <1>9

\* The events each callback is raised by.
LEMMA RaisedBy ==
  ASSUME NEW state, NEW ev
  PROVE  /\ "on_readable" \in Raised(state, ev) => "RECEIVE" \in ev
         /\ "on_readable_oob" \in Raised(state, ev) => "RECEIVE_EXPEDITED" \in ev
         /\ "on_writable" \in Raised(state, ev) => "SEND" \in ev
  BY DEF Raised, CallbackFor, If

\* The callbacks of one handle_events call: the one that may read or write
\* is made first, and is the only one that may.
LEMMA RaisedOrder ==
  ASSUME NEW state \in {"pending_connect", "connected", "disconnected"},
         NEW ev \in SUBSET Events, "LOCAL_CLOSE" \notin ev, "RECEIVE_EXPEDITED" \notin ev,
         state = "pending_connect" => Outcome(ev),
         state # "pending_connect" => "SEND" \notin ev,
         Raised(state, ev) # {}
  PROVE  LET todo == Raised(state, ev) IN
         /\ First(todo) \in {"on_connected", "on_readable", "on_connection_failed"}
                              \cup EndCallbacks
         /\ todo \ {First(todo)} \subseteq EndCallbacks
         /\ First(todo) = "on_connected" => state = "pending_connect"
<1> DEFINE todo == Raised(state, ev)
           c == First(todo)
<1>1. /\ todo \in SUBSET Callbacks /\ c \in todo
      /\ todo \ {c} \subseteq LaterCallbacks
  BY LaterFacts
<1>2. /\ c # "on_disconnected"
      /\ state # "pending_connect" =>
           c \in LaterCallbacks \cup {"on_writable", "on_disconnected"}
      /\ state = "pending_connect" =>
           c \in {"on_connected", "on_connection_failed", "on_disconnected"}
  BY FirstRaised
<1>3. "on_readable_oob" \notin todo
  BY RaisedBy
<1>4. CASE state = "pending_connect"
  <2>1. "RECEIVE" \notin ev
    BY <1>4 DEF Outcome, ConnectEvents
  <2>2. "on_readable" \notin todo
    BY <2>1, RaisedBy
  <2> HIDE DEF todo
  <2>3. QED
    BY <1>1, <1>2, <1>3, <1>4, <2>2 DEF todo, LaterCallbacks, EndCallbacks
<1>5. CASE state # "pending_connect"
  <2>1. "on_writable" \notin todo
    BY <1>5, RaisedBy
  <2>2. c \in {"on_readable"} \cup EndCallbacks
    BY <1>1, <1>2, <1>3, <1>5, <2>1 DEF LaterCallbacks, EndCallbacks
  <2>3. todo \subseteq {"on_readable"} \cup EndCallbacks
    BY <1>1, <1>3, <2>2 DEF LaterCallbacks, EndCallbacks
  <2>4. ASSUME "on_readable" \in todo PROVE c = "on_readable"
    <3>1. Rank["on_readable"] = 1 /\ \A d \in EndCallbacks : Rank[d] \in {3, 4}
      BY DEF Rank, EndCallbacks
    <3>2. \A d \in todo : Rank["on_readable"] <= Rank[d]
      BY <2>3, <3>1
    <3> HIDE DEF todo
    <3>3. \A d \in todo : Rank[c] <= Rank[d]
      BY <2>4, <3>2 DEF First
    <3>4. Rank[c] <= 1
      BY <2>4, <3>1, <3>3
    <3>5. QED
      BY <2>2, <3>1, <3>4
  <2>5. todo \ {c} \subseteq EndCallbacks
    BY <2>3, <2>4
  <2>6. c # "on_connected"
    BY <2>2 DEF EndCallbacks
  <2>7. QED
    BY <2>2, <2>5, <2>6
<1>6. QED
  BY <1>4, <1>5

\* The main loop takes a packet: the only one, and with it the only poll.
LEMMA TakePacketStep ==
  ASSUME Base, TakePacket, UNCHANGED echoed, [ClientNext]_clientVars
  PROVE  ClientInv'
<1> USE DEF kernel
<1>0. Looping /\ Dispatch /\ Goes /\ stack = <<>> /\ thrown = "none"
      /\ UNCHANGED <<s, net, polls, out>>
  BY DEF TakePacket, Dispatch, Looping
<1>1. at = "none" /\ s = "open" /\ Len(stack) # 2
  <2>1. Len(<<>>) # 2
    OBVIOUS
  <2>2. QED
    BY <1>0, <2>1, BaseFacts DEF AtInv, UseInv, TypeOK
<1>2. PICK i \in iocp : iocp' = iocp \ {i}
  BY <1>0 DEF Dispatch
<1>3. Outstanding = {i} /\ polls[i] = {}
  BY <1>2, BaseFacts DEF PollInv, OnePollOutstanding, Outstanding
<1>4. Outstanding' = {} /\ iocp' = {} /\ \A j \in PollIds : polls'[j] = {}
  <2>1. Outstanding' = {}
    BY <1>0, <1>2, <1>3 DEF Outstanding
  <2>2. \A j \in PollIds : polls'[j] = {} /\ j \notin iocp'
    BY <2>1 DEF Outstanding
  <2>3. QED
    BY <1>2, <2>1, <2>2, BaseFacts
<1>5. connection_state \in {"pending_connect", "connected", "disconnected"}
  BY <1>3, BaseFacts DEF TellInv, TypeOK, ConnectionStates
<1>6. "LOCAL_CLOSE" \notin out /\ "RECEIVE_EXPEDITED" \notin out
  BY <1>1, BaseFacts DEF SocketInv, QuietInv
<1> DEFINE todo == Raised(connection_state, out)
<1>7. CASE ~(registered /\ out # {}) \/ todo = {}
  <2>1. UNCHANGED <<connection_state, stack, calls>> /\ events' \in {{}, events}
    BY <1>0, <1>7 DEF Dispatch, HandleEvents
  <2>2. AtInv' /\ UseInv' /\ AmountInv' /\ EndInv' /\ ThrownInv' /\ thrown' = thrown
    BY <1>0, <1>1, <2>1, IdleStep
  <2>3. QuietInv'
    <3>1. Starting' = Starting /\ events' \subseteq events /\ iocp' \subseteq iocp
      BY <1>4, <2>1 DEF Starting
    <3>2. QED
      BY <1>0, <2>2, <3>1, BaseFacts, QuietSame
  <2>4. QED
    BY <2>2, <2>3 DEF ClientInv
<1>8. CASE registered /\ out # {} /\ todo # {}
  <2>1. events' = {} /\ Invoke(todo, <<>>)
    BY <1>0, <1>8 DEF Dispatch, HandleEvents
  <2>2. /\ connection_state = "pending_connect" => Outcome(out)
        /\ connection_state # "pending_connect" => "SEND" \notin out
    BY <1>0, <1>2, <1>5, BaseFacts DEF TellInv, QuietInv, Starting
  <2>3. /\ First(todo) \in {"on_connected", "on_readable", "on_connection_failed"}
                             \cup EndCallbacks
        /\ todo \ {First(todo)} \subseteq EndCallbacks
        /\ First(todo) = "on_connected" => Starting
    BY <1>5, <1>6, <1>8, <2>2, BaseFacts, RaisedOrder DEF Starting
  <2>4. todo \in SUBSET Callbacks /\ todo # {}
    BY <1>8, RaisedFacts
  <2> HIDE DEF todo
  <2>5. AtInv' /\ UseInv' /\ AmountInv' /\ EndInv' /\ ThrownInv'
    BY <1>0, <1>1, <1>4, <2>1, <2>3, <2>4, CallStep
  <2>6. QuietInv'
    BY <1>0, <1>4, <2>1, BaseFacts DEF QuietInv
  <2>7. QED
    BY <2>5, <2>6 DEF ClientInv
<1>9. QED
  BY <1>7, <1>8

\* A callback returns: to close(), to the next callback or to the main loop.
LEMMA ReturnClient ==
  ASSUME Base, ReturnFromCallback, UNCHANGED echoed, [ClientNext]_clientVars
  PROVE  ClientInv'
<1> USE DEF kernel
<1>0. /\ at = "return" /\ Return /\ Goes /\ stack # <<>>
      /\ UNCHANGED <<s, events, net, polls, iocp, out>>
  BY DEF ReturnFromCallback, Return
<1>1. /\ stack[1].run \in DOMAIN Statements /\ at \in Statements[stack[1].run]
      /\ \A i \in 1..Len(stack) : stack[i].todo \subseteq EndCallbacks
  BY <1>0, BaseFacts DEF AtInv, UseInv
<1>2. thrown = "none" \/ stack[1].todo = {}
  BY <1>0, BaseFacts DEF AtInv
<1>3. /\ Len(stack) \in Nat \ {0} /\ Len(stack) \in 0..2 /\ Top \in Frames
      /\ Callers \in Seq(Frames) /\ Len(Callers) = Len(stack) - 1
      /\ \A i \in 1..Len(Callers) : Callers[i] = stack[i]
  BY <1>0, BaseFacts, TopFacts DEF StackInv
<1>4. ~Starting
  BY <1>0, BaseFacts DEF TellInv, Starting
<1>5. CASE Len(stack) = 2
  <2>1. Top = stack[2] /\ stack[2].todo = {}
    BY <1>5, BaseFacts DEF Top, StackInv
  <2>2. stack' = Callers /\ UNCHANGED <<connection_state, calls>>
    BY <1>0, <2>1 DEF Return
  <2>3. Len(stack') = 1 /\ stack'[1] = stack[1]
    BY <1>3, <1>5, <2>2
  <2>4. UNCHANGED <<at, bytes_read, number_of_messages_sent, is_done, thrown>>
    BY <1>0, <1>5 DEF Goes, program
  <2>5. Starting' = Starting /\ Looping' = Looping
    BY <2>2, <2>4 DEF Starting, Looping
  <2>6. AtInv'
    <3>1. Len(stack') # 2 /\ stack' # <<>>
      BY <2>3
    <3>2. QED
      BY <1>0, <1>1, <2>3, <2>4, <3>1, BaseFacts DEF AtInv
  <2>7. UseInv'
    <3>1. \A i \in 1..Len(stack') : stack'[i].todo \subseteq EndCallbacks
      BY <1>1, <1>5, <2>3
    <3>2. QED
      BY <1>0, <2>4, <2>5, <3>1, BaseFacts DEF UseInv
  <2>8. QuietInv'
    BY <1>0, <2>4, <2>5, BaseFacts, QuietSame
  <2>9. AmountInv'
    <3>1. net' \in Endpoints(MaxInbox) /\ net'.inbox <= net.inbox
      BY <1>0, BaseFacts
    <3>2. QED
      BY <1>0, <2>4, <2>5, <3>1, AmountHeld
  <2>10. EndInv' /\ ThrownInv'
    BY <1>0, <2>2, <2>4, EndHeld
  <2>11. QED
    BY <2>6, <2>7, <2>8, <2>9, <2>10 DEF ClientInv
<1>6. CASE Len(stack) # 2
  <2>1. Len(stack) = 1
    BY <1>3, <1>6
  <2>2. Top = stack[1] /\ Top.todo \subseteq EndCallbacks
    BY <1>1, <2>1 DEF Top
  <2>3. Callers = <<>>
    BY <1>3, <2>1, EmptySeq
  <2>4. CASE Top.todo = {}
    <3>1. stack' = <<>> /\ UNCHANGED <<connection_state, calls>>
      BY <1>0, <2>3, <2>4 DEF Return
    <3>2. AtInv' /\ UseInv' /\ AmountInv' /\ EndInv' /\ ThrownInv' /\ thrown' = thrown
      BY <1>0, <1>6, <3>1, IdleStep
    <3>3. QuietInv'
      <4>1. Starting' = Starting
        BY <3>1 DEF Starting
      <4>2. QED
        BY <1>0, <3>2, <4>1, BaseFacts, QuietSame
    <3>4. QED
      BY <3>2, <3>3 DEF ClientInv
  <2>5. CASE Top.todo # {}
    <3> DEFINE todo == Top.todo
    <3>1. Invoke(todo, <<>>) /\ thrown = "none"
      BY <1>0, <1>2, <2>2, <2>3, <2>5 DEF Return
    <3>2. todo \in SUBSET Callbacks /\ todo # {} /\ todo \subseteq EndCallbacks
      BY <1>3, <2>2, <2>5 DEF Frames
    <3> HIDE DEF todo
    <3>3. First(todo) \in EndCallbacks /\ todo \ {First(todo)} \subseteq EndCallbacks
          /\ First(todo) \notin {"on_connected", "on_readable"}
      BY <3>2, FirstFacts DEF EndCallbacks
    <3>4. AtInv' /\ UseInv' /\ AmountInv' /\ EndInv' /\ ThrownInv' /\ ~Starting'
      BY <1>0, <1>6, <3>1, <3>2, <3>3, CallStep
    <3>5. QuietInv'
      BY <1>0, <1>4, <3>1, BaseFacts, QuietSame
    <3>6. QED
      BY <3>4, <3>5 DEF ClientInv
  <2>6. QED
    BY <2>4, <2>5
<1>7. QED
  BY <1>5, <1>6

\* An exception leaves the callback and the main loop.
LEMMA LeaveStep ==
  ASSUME Base, LeaveByException, UNCHANGED echoed
  PROVE  ClientInv'
<1> USE DEF kernel
<1>0. /\ at = "throw" /\ at' = "none" /\ at \notin {"none", "return"} /\ stack' = Callers
      /\ UNCHANGED <<bytes_read, number_of_messages_sent, is_done, thrown>>
      /\ UNCHANGED <<s, connection_state, events, net, polls, iocp, out, calls>>
  BY DEF LeaveByException, Throw
<1>1. stack # <<>> /\ Len(stack) = 1 /\ thrown # "none"
  BY <1>0, AtFacts
<1>2. stack' = <<>>
  <2>1. Callers \in Seq(Frames) /\ Len(Callers) = Len(stack) - 1
    BY <1>1, BaseFacts, TopFacts
  <2>2. Len(Callers) = 0
    BY <1>1, <2>1
  <2>3. QED
    BY <1>0, <2>1, <2>2, EmptySeq
<1>3. Len(stack') = 0 /\ Len(stack') # 2
  BY <1>2
<1>4. Starting' = Starting /\ Looping' = Looping
  BY <1>0 DEF Starting, Looping
<1>5. AtInv'
  BY <1>0, <1>2, <1>3 DEF AtInv
<1>6. UseInv'
  <2>1. \A i \in 1..Len(stack') : stack'[i].todo \subseteq EndCallbacks
    BY <1>3
  <2>2. QED
    BY <1>0, <1>4, <2>1, BaseFacts DEF UseInv
<1>7. QuietInv'
  BY <1>0, <1>4, BaseFacts, QuietSame
<1>8. AmountInv'
  <2>1. net' \in Endpoints(MaxInbox) /\ net'.inbox <= net.inbox
    BY <1>0, BaseFacts
  <2>2. QED
    BY <1>0, <1>4, <2>1, AmountHeld
<1>9. EndInv' /\ ThrownInv'
  BY <1>0, EndHeld
<1>10. QED
  BY <1>5, <1>6, <1>7, <1>8, <1>9 DEF ClientInv

\* connect(), from the main loop.
LEMMA ConnectStep ==
  ASSUME Base, ConnectToServer, UNCHANGED echoed
  PROVE  ClientInv'
<1>0. /\ Looping /\ stack = <<>> /\ connection_state = "created"
      /\ connection_state' = "pending_connect" /\ events' = ConnectEvents
      /\ UNCHANGED <<s, stack, calls>>
      /\ UNCHANGED <<at, bytes_read, number_of_messages_sent, is_done, thrown>>
  BY DEF ConnectToServer, Connect, program
<1>1. PICK link \in {"connecting", "up"} :
         Poll(ConnectEvents, [net EXCEPT !.link = link])
  BY DEF ConnectToServer, Connect
<1> DEFINE e == [net EXCEPT !.link = link]
<1>2. e \in Endpoints(MaxInbox) /\ e.inbox = net.inbox /\ ~e.urgent
  BY BaseFacts DEF Endpoints, Links
<1>3. Poll(ConnectEvents, e)
  BY <1>1
<1> HIDE DEF e
<1>4. ConnectEvents \in SUBSET Events
  BY DEF ConnectEvents, Events
<1>5. net' = e
  BY <1>2, <1>3, <1>4, BaseFacts, PollFacts
<1>6. Starting /\ Starting' /\ Looping' = Looping
  BY <1>0 DEF Starting, Looping
<1>7. at = "none" /\ Len(stack) # 2
  <2>1. Len(<<>>) # 2
    OBVIOUS
  <2>2. QED
    BY <1>0, <2>1, BaseFacts DEF AtInv
<1>8. AtInv' /\ UseInv'
  BY <1>0, <1>6, <1>7, UseHeld
<1>9. QuietInv'
  BY <1>0, <1>2, <1>3, <1>4, <1>6, QuietPoll
<1>10. AmountInv'
  <2>1. net'.inbox <= net.inbox
    BY <1>2, <1>5, BaseFacts
  <2>2. QED
    BY <1>0, <1>2, <1>5, <1>6, <2>1, AmountHeld
<1>11. EndInv' /\ ThrownInv'
  BY <1>0, <1>7, EndHeld
<1>12. QED
  BY <1>8, <1>9, <1>10, <1>11 DEF ClientInv

\* A change of the connection from outside the callbacks.
LEMMA OutsideStep ==
  ASSUME Base, UNCHANGED <<program, connection_state, stack, calls>>,
         s' = s \/ ~Looping, events' = events,
         NEW e \in Endpoints(MaxInbox), ~e.urgent, Settle(e, polls, out)
  PROVE  AtInv' /\ UseInv' /\ QuietInv' /\ net' = e
<1>0. UNCHANGED <<at, is_done, thrown>>
  BY DEF program
<1>1. Starting' = Starting /\ Looping' = Looping /\ net' = e
  BY <1>0 DEF Starting, Looping, Settle
<1>2. Outstanding = {} => Outstanding' = {}
  BY BaseFacts, SettleStep
<1>3. AtInv'
  BY <1>0, BaseFacts DEF AtInv
<1>4. UseInv'
  BY <1>0, <1>1, <1>2, BaseFacts DEF UseInv
<1>5. QuietInv'
  BY <1>0, <1>1, QuietSettle
<1>6. QED
  BY <1>1, <1>3, <1>4, <1>5

\* The destructors.
LEMMA DestroyStep ==
  ASSUME Base, End, UNCHANGED echoed
  PROVE  ClientInv'
<1>0. /\ ~Looping /\ Settle(ClosedEndpoint, polls, out)
      /\ UNCHANGED <<program, connection_state, events, stack, calls>>
  BY DEF End, Destroy
<1>1. ClosedEndpoint \in Endpoints(MaxInbox) /\ ClosedEndpoint.inbox = 0
      /\ ~ClosedEndpoint.urgent
  BY EndpointFacts DEF ClosedEndpoint, NewEndpoint
<1>2. AtInv' /\ UseInv' /\ QuietInv' /\ net' = ClosedEndpoint
  BY <1>0, <1>1, OutsideStep
<1>3. UNCHANGED <<at, bytes_read, number_of_messages_sent, is_done, thrown>>
      /\ Starting' = Starting
  BY <1>0 DEF program, Starting
<1>4. AmountInv'
  <2>1. net'.inbox <= net.inbox
    BY <1>1, <1>2, BaseFacts
  <2>2. QED
    BY <1>1, <1>2, <1>3, <2>1, AmountHeld
<1>5. EndInv' /\ ThrownInv'
  <2>1. /\ at' = "close" => at = "close"
        /\ is_done' /\ thrown' = "none" => is_done /\ thrown = "none"
        /\ thrown' = thrown
        /\ at' = "shutdown" => calls["on_client_close"] # 0
    BY <1>3, BaseFacts DEF ThrownInv
  <2>2. QED
    BY <1>0, <1>3, <2>1, EndHeld
<1>6. QED
  BY <1>2, <1>4, <1>5 DEF ClientInv

\* The close() of ~echo_client, and the callback it makes.
LEMMA CloseAtEndStep ==
  ASSUME Base, CloseAtEnd, UNCHANGED echoed, [ClientNext]_clientVars
  PROVE  ClientInv'
<1>0. /\ ~Looping /\ ~is_done /\ thrown # "none" /\ stack = <<>> /\ Close
      /\ s' = "invalid" /\ Settle(ClosedEndpoint, polls, out)
      /\ UNCHANGED <<bytes_read, number_of_messages_sent, thrown>>
  BY DEF CloseAtEnd, Close, Looping, Finishes, program
<1>1. /\ ClosedEndpoint \in Endpoints(MaxInbox) /\ ClosedEndpoint.inbox = 0
      /\ ~ClosedEndpoint.urgent /\ net' = ClosedEndpoint
  BY <1>0, EndpointFacts DEF ClosedEndpoint, NewEndpoint, Settle
<1>2. at = "none" /\ ~Looping' /\ at' \in {"none", "return"}
  BY <1>0, BaseFacts DEF AtInv, CloseAtEnd, Finishes, program, Looping
<1> DEFINE f == [run |-> "on_disconnected", todo |-> {}]
<1>3. \/ UNCHANGED <<program, stack, connection_state, events>>
      \/ /\ at' = "return" /\ connection_state' = "disconnected" /\ events' = {}
         /\ stack' # <<>> /\ Len(stack') = 1 /\ stack'[1] = f
  <2>1. CASE events # {}
    BY <1>0, <2>1 DEF Close, CloseAtEnd
  <2>2. CASE events = {}
    <3>1. HandleEvents({"LOCAL_CLOSE"})
      BY <1>0, <2>2 DEF Close
    <3>2. /\ connection_state' = "disconnected" /\ events' = {}
          /\ stack' = Append(stack, f)
      BY <3>1, BaseFacts, CloseEnds DEF HandleEvents
    <3>3. f \in Frames
      BY DEF Frames, Callbacks
    <3> HIDE DEF f
    <3>4. Len(stack') = 1 /\ stack'[1] = f /\ stack' # <<>>
      <4>1. /\ Append(stack, f) # <<>> /\ Len(Append(stack, f)) = Len(stack) + 1
            /\ Append(stack, f)[Len(stack) + 1] = f
        BY <3>3, BaseFacts, AppendProperties
      <4>2. Len(stack) = 0
        BY <1>0
      <4>3. QED
        BY <3>2, <4>1, <4>2
    <3>5. at' = "return"
      BY <3>4 DEF CloseAtEnd, Finishes
    <3>6. QED
      BY <3>2, <3>4, <3>5
  <2>3. QED
    BY <2>1, <2>2
<1>4. f.run = "on_disconnected" /\ f.todo = {}
  OBVIOUS
<1> HIDE DEF f
<1>5. AtInv'
  <2>1. CASE UNCHANGED <<program, stack>>
    BY <1>0, <2>1, BaseFacts DEF AtInv, program
  <2>2. CASE at' = "return" /\ stack' # <<>> /\ Len(stack') = 1 /\ stack'[1] = f
    <3>1. f.run \in DOMAIN Statements /\ "return" \in Statements[f.run]
      BY <1>4 DEF Statements
    <3>2. QED
      BY <1>4, <2>2, <3>1 DEF AtInv
  <2>3. QED
    BY <1>3, <2>1, <2>2
<1>6. UseInv'
  <2>1. Len(stack) = 0 /\ \A i \in 1..Len(stack') :
                             i \in 1..Len(stack) \/ stack'[i].todo = {}
    BY <1>0, <1>3, <1>4
  <2>2. \A i \in 1..Len(stack') : stack'[i].todo \subseteq EndCallbacks
    BY <2>1
  <2>3. QED
    BY <1>2, <2>2 DEF UseInv
<1>7. QuietInv'
  BY <1>0, <1>1, <1>3, QuietSettle
<1>8. AmountInv'
  <2>1. net'.inbox <= net.inbox
    BY <1>1, BaseFacts
  <2>2. Starting' => Starting
    BY <1>3 DEF Starting
  <2>3. QED
    BY <1>0, <1>1, <1>2, <2>1, <2>2, AmountHeld
<1>9. EndInv' /\ ThrownInv'
  <2>1. \A m \in EndCallbacks : calls'[m] = 0 => calls[m] = 0
    BY BaseFacts, CallsGrow
  <2>2. QED
    BY <1>0, <1>2, <2>1, EndHeld
<1>10. QED
  BY <1>5, <1>6, <1>7, <1>8, <1>9 DEF ClientInv

----------------------------------------------------------------------------
(* The server                                                              *)

LEMMA ServerStep ==
  ASSUME Base, ServerEchoes \/ ServerEnds \/ ServerAnswers \/ ServerReads
  PROVE  ClientInv'
<1>0. UNCHANGED program
      /\ UNCHANGED <<at, bytes_read, number_of_messages_sent, is_done, thrown>>
  BY DEF ServerEchoes, ServerEnds, ServerAnswers, ServerReads, program
<1>1. net \in Endpoints(MaxInbox) /\ ~net.urgent
      /\ net.inbox \in Nat /\ MaxInbox \in Nat /\ net.inbox <= net.inbox
  BY BaseFacts, MaxInboxAssumption
<1>2. CASE ServerEchoes
  <2> DEFINE e == [net EXCEPT !.inbox = net.inbox + 1]
  <2>1. /\ echoed < number_of_messages_sent * MessageSize
        /\ net.inbox < MaxInbox
        /\ Network(e) /\ echoed' = echoed + 1
    BY <1>2 DEF ServerEchoes, PeerSends
  <2>2. net.inbox + 1 \in 0..MaxInbox
    BY <1>1, <2>1
  <2>3. e \in Endpoints(MaxInbox) /\ e.inbox = net.inbox + 1 /\ ~e.urgent
    BY <1>1, <2>2 DEF Endpoints
  <2> HIDE DEF e
  <2>4. /\ Settle(e, polls, out)
        /\ UNCHANGED <<s, connection_state, events, stack, calls>>
    BY <2>1 DEF Network
  <2>5. AtInv' /\ UseInv' /\ QuietInv' /\ net' = e
    BY <1>0, <2>3, <2>4, OutsideStep
  <2> DEFINE V == Volume(number_of_messages_sent)
  <2>6. /\ V \in Nat /\ echoed \in Nat /\ echoed < V /\ V' = V
        /\ net.inbox <= echoed /\ bytes_read \in Nat /\ MessageSize \in Nat
        /\ V + bytes_read + net.inbox <= echoed + MessageSize
        /\ at = "write_data" => V + net.inbox <= echoed
    BY <1>0, <2>1, BaseFacts, VolumeFacts DEF Volume, AmountInv
  <2> HIDE DEF V
  <2>7. AmountInv'
    <3>1. /\ echoed + 1 \in Nat /\ net.inbox + 1 <= echoed + 1 /\ echoed + 1 <= V
          /\ V + bytes_read + (net.inbox + 1) <= (echoed + 1) + MessageSize
          /\ V + net.inbox <= echoed => V + (net.inbox + 1) <= echoed + 1
      BY <1>1, <2>6
    <3>2. Starting' = Starting /\ net'.inbox = net.inbox + 1
      BY <2>3, <2>4, <2>5 DEF Starting
    <3>3. QED
      BY <1>0, <2>1, <2>6, <3>1, <3>2, BaseFacts DEF V, AmountInv
  <2>8. EndInv' /\ ThrownInv'
    <3>1. ASSUME AllBack PROVE FALSE
      <4>1. number_of_messages_sent = number_of_messages /\ echoed = Volume(number_of_messages)
        BY <3>1 DEF AllBack
      <4>2. echoed = V
        BY <4>1 DEF V
      <4>3. QED
        BY <2>6, <4>2
    <3>2. EndInv'
      BY <1>0, <2>4, <3>1, BaseFacts DEF EndInv
    <3>3. ThrownInv'
      BY <1>0, <2>4, BaseFacts DEF ThrownInv
    <3>4. QED
      BY <3>2, <3>3
  <2>9. QED
    BY <2>5, <2>7, <2>8 DEF ClientInv
<1>3. CASE ServerEnds \/ ServerAnswers \/ ServerReads
  <2>1. UNCHANGED echoed
    BY <1>3 DEF ServerEnds, ServerAnswers, ServerReads
  <2>2. PICK e \in Endpoints(MaxInbox) :
           Network(e) /\ e.inbox <= net.inbox /\ ~e.urgent
    <3>1. CASE PeerShutsDown
      <4> DEFINE e == [net EXCEPT !.fin = TRUE]
      <4>1. e \in Endpoints(MaxInbox) /\ e.inbox = net.inbox /\ ~e.urgent
        BY <1>1 DEF Endpoints
      <4>2. Network(e)
        BY <3>1 DEF PeerShutsDown
      <4> HIDE DEF e
      <4>3. QED
        BY <1>1, <4>1, <4>2
    <3>2. CASE PeerReads
      <4> DEFINE e == [net EXCEPT !.room = TRUE]
      <4>1. e \in Endpoints(MaxInbox) /\ e.inbox = net.inbox /\ ~e.urgent
        BY <1>1 DEF Endpoints
      <4>2. Network(e)
        BY <3>2 DEF PeerReads
      <4> HIDE DEF e
      <4>3. QED
        BY <1>1, <4>1, <4>2
    <3>3. CASE PeerAborts
      <4>1. /\ ResetEndpoint(net) \in Endpoints(MaxInbox)
            /\ ResetEndpoint(net).inbox = 0 /\ ~ResetEndpoint(net).urgent
        BY <1>1, EndpointFacts DEF ResetEndpoint
      <4>2. QED
        BY <1>1, <3>3, <4>1 DEF PeerAborts
    <3>4. CASE PeerAccepts \/ PeerRefuses
      <4>1. PICK link \in {"up", "refused"} : Network([net EXCEPT !.link = link])
        BY <3>4 DEF PeerAccepts, PeerRefuses
      <4> DEFINE e == [net EXCEPT !.link = link]
      <4>2. e \in Endpoints(MaxInbox) /\ e.inbox = net.inbox /\ ~e.urgent
        BY <1>1 DEF Endpoints, Links
      <4>3. Network(e)
        BY <4>1
      <4> HIDE DEF e
      <4>4. QED
        BY <1>1, <4>2, <4>3
    <3>5. QED
      BY <1>3, <3>1, <3>2, <3>3, <3>4 DEF ServerEnds, ServerAnswers, ServerReads
  <2>3. /\ Settle(e, polls, out)
        /\ UNCHANGED <<s, connection_state, events, stack, calls>>
    BY <2>2 DEF Network
  <2>4. AtInv' /\ UseInv' /\ QuietInv' /\ net' = e
    BY <1>0, <2>2, <2>3, OutsideStep
  <2>5. Starting' = Starting
    BY <2>3 DEF Starting
  <2>6. AmountInv'
    BY <1>0, <2>1, <2>2, <2>4, <2>5, AmountHeld
  <2>7. EndInv' /\ ThrownInv'
    BY <1>0, <2>1, <2>3, BaseFacts, EndHeld DEF ThrownInv
  <2>8. QED
    BY <2>4, <2>6, <2>7 DEF ClientInv
<1>4. QED
  BY <1>2, <1>3

----------------------------------------------------------------------------
(* Results                                                                 *)

LEMMA NextClientInv ==
  ASSUME Base, [ClientNext]_clientVars
  PROVE  ClientInv'
<1>1. CASE UNCHANGED clientVars
  <2>1. UNCHANGED <<at, bytes_read, number_of_messages_sent, is_done, thrown, echoed, stack,
                    connection_state, net, events, polls, iocp, out, calls, s>>
    BY <1>1 DEF clientVars, program, vars, kernel
  <2>2. Outstanding' = Outstanding /\ Starting' = Starting /\ Looping' = Looping
        /\ AllBack' = AllBack
        /\ Volume(number_of_messages_sent)' = Volume(number_of_messages_sent)
    BY <2>1 DEF Outstanding, Starting, Looping, AllBack, Volume
  <2>3. QED
    BY <2>1, <2>2 DEF Base, ClientInv, AtInv, UseInv, QuietInv, AmountInv, EndInv, ThrownInv
<1>2. QED
  BY <1>1, SendStep, SendFailsStep, ReadDataStep, ReadNothingStep, EndStep, ConnectStep,
     TakePacketStep, ReturnClient, LeaveStep, CloseAtEndStep, DestroyStep, ServerStep
  DEF ClientNext, ClientStep

\* The client's polls are those of an application that waits for one thing
\* at a time.
LEMMA NextWaits ==
  ASSUME Base, [ClientNext]_clientVars
  PROVE  OneWaitInv'
<1>1. at \in {"write_data", "read_data"} => Outstanding = {}
  BY BaseFacts DEF UseInv
<1>2. ClientNext => [WaitsForOne]_vars
  <2>1. CASE SendMessage \/ (LastMessageBack /\ UNCHANGED vars)
    BY <2>1 DEF SendMessage, WaitsForOne
  <2>2. CASE SendFails \/ ReadFindsNothing
    BY <1>1, <2>2 DEF SendFails, MessageNotSent, ReadFindsNothing, NothingRead, WaitsForOne
  <2>3. CASE ReadData \/ ShutDownBoth \/ CloseSocket \/ CloseAtEnd
    BY <2>3 DEF ReadData, ShutDownBoth, CloseSocket, CloseAtEnd, WaitsForOne
  <2>4. CASE ConnectToServer \/ TakePacket \/ ReturnFromCallback \/ LeaveByException \/ End
    BY <2>4 DEF ConnectToServer, TakePacket, ReturnFromCallback, LeaveByException, End,
       WaitsForOne, Thread
  <2>5. CASE ServerEchoes \/ ServerEnds \/ ServerAnswers \/ ServerReads
    BY <2>5 DEF ServerEchoes, ServerEnds, ServerAnswers, ServerReads, WaitsForOne, Peer
  <2>6. QED
    BY <2>1, <2>2, <2>3, <2>4, <2>5 DEF ClientNext, ClientStep
<1>3. [WaitsForOne]_vars
  BY <1>2 DEF clientVars, vars
<1>4. QED
  BY <1>3, BaseFacts, NextOneWaitInv

LEMMA ClientInvHolds == ClientSpec => [](OneWaitInv /\ ClientInv)
<1>1. ClientInit => OneWaitInv /\ ClientInv
  <2>1. ASSUME ClientInit PROVE OneWaitInv /\ ClientInv
    <3>1. /\ at = "none" /\ bytes_read = 0 /\ number_of_messages_sent = 0
          /\ is_done = FALSE /\ thrown = "none" /\ echoed = 0
          /\ stack = <<>> /\ connection_state = "created"
          /\ net = NewEndpoint /\ out = {} /\ s = "open"
      BY <2>1 DEF ClientInit, ProgramInit, Init
    <3>2. net.inbox = 0 /\ net.urgent = FALSE /\ Looping /\ Starting
      BY <3>1 DEF NewEndpoint, Looping, Starting
    <3>3. 0 \in 0..number_of_messages /\ 0 \in 0..MessageSize - 1 /\ Volume(0) = 0
          /\ 0 + 0 + 0 <= 0 + MessageSize
      BY ProgramAssumption, VolumeFacts
    <3>4. AmountInv
      BY <3>1, <3>2, <3>3 DEF AmountInv
    <3>5. Len(stack) = 0 /\ Len(stack) # 2
      BY <3>1
    <3>6. UseInv
      <4>1. \A i \in 1..Len(stack) : stack[i].todo \subseteq EndCallbacks
        BY <3>5
      <4>2. QED
        BY <3>1, <4>1 DEF UseInv
    <3>7. ClientInv
      BY <3>1, <3>2, <3>4, <3>5, <3>6 DEF ClientInv, AtInv, QuietInv, EndInv, ThrownInv
    <3>8. QED
      BY <2>1, <3>7, InitOneWaitInv DEF ClientInit
  <2>2. QED
    BY <2>1
<1>2. TypeOK /\ StackInv /\ SocketInv /\ TellInv /\ OneWaitInv /\ ClientInv
        /\ [ClientNext]_clientVars => OneWaitInv' /\ ClientInv'
  BY NextClientInv, NextWaits DEF Base
<1>3. QED
  BY <1>1, <1>2, ClientIsApplication, TypeCorrect, StackInvHolds, SocketInvHolds,
     TellInvHolds, PTL DEF ClientSpec

\* The client never has two polls outstanding: what TcpSocket promises only
\* to an application that waits for one thing at a time, it may rely on.
THEOREM ClientWaitsForOneThing == ClientSpec => []WaitsForOneThing
<1>1. OneWaitInv => WaitsForOneThing
  BY DEF OneWaitInv, PollInv, WaitsForOneThing
<1>2. QED
  BY <1>1, ClientInvHolds, PTL

\* The program ends as it is meant to: without an exception only when every
\* message has come back or the server has reset the connection, and with one
\* of the exceptions it is written to throw, never by a callback it does not
\* expect.
THEOREM ClientEndsAsMeant == ClientSpec => []EndsAsMeant
<1>1. TypeOK => calls["on_client_close"] \in 0..2
  BY DEF TypeOK, Milestones
<1>2. ASSUME TypeOK, EndInv, ThrownInv
      PROVE  EndsAsMeant
  <2>1. thrown = "not connected" => calls["on_client_close"] > 0
    <3>1. thrown = "not connected" => calls["on_client_close"] # 0
      BY <1>2 DEF ThrownInv
    <3>2. \A n \in 0..2 : n # 0 => n > 0
      OBVIOUS
    <3>3. QED
      BY <1>1, <1>2, <3>1, <3>2
  <2>2. is_done /\ thrown = "none" /\ calls["on_connection_reset"] = 0 => AllBack
    BY <1>2 DEF EndInv
  <2>3. thrown \in {"none", "failed to send all data", "connection failed",
                    "not connected"}
    BY <1>2 DEF ThrownInv
  <2>4. QED
    BY <2>1, <2>2, <2>3 DEF EndsAsMeant, AllBack, Volume
<1>3. TypeOK /\ ClientInv => EndsAsMeant
  BY <1>2 DEF ClientInv
<1>4. QED
  BY <1>3, ClientInvHolds, ClientIsApplication, TypeCorrect, PTL

============================================================================
