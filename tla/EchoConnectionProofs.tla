------------------------ MODULE EchoConnectionProofs ------------------------
(***************************************************************************)
(* Theorems about one connection of the echo server: it is an application  *)
(* of DirectSocket, so that what is proved of the socket holds for it, and *)
(* it echoes everything before it closes.                                  *)
(***************************************************************************)
EXTENDS EchoConnection, DirectSocketProofs

----------------------------------------------------------------------------
(* The connection uses its socket as any application may                   *)

LEMMA ConnectionSteps == ConnectionNext => [Next]_vars
<1> SUFFICES ASSUME ConnectionNext PROVE [Next]_vars
  OBVIOUS
<1> USE DEF Next, Application, Thread, Peer
<1>1. CASE AcceptConnection \/ TakePacket \/ HandleOn \/ ServerEnds
  BY <1>1 DEF AcceptConnection, TakePacket, HandleOn, ServerEnds
<1>2. CASE ReadData \/ ReadFindsNothing \/ WriteData \/ WriteFallsShort
  BY <1>2 DEF ReadData, ReadFindsNothing, WriteData, WriteFallsShort
<1>3. CASE ShutDown \/ ShutDownFails \/ CloseConnection \/ DeleteThis
  BY <1>3 DEF ShutDown, ShutDownFails, CloseConnection, DeleteThis, vars
<1>4. CASE ClientSends
  BY <1>4 DEF ClientSends, PeerSends
<1>5. CASE ClientSendsUrgent
  BY <1>5 DEF ClientSendsUrgent, PeerSends
<1>6. CASE ClientShutsDown \/ ClientTakesEcho \/ ClientAborts
  BY <1>6 DEF ClientShutsDown, ClientTakesEcho, ClientAborts
<1>7. QED
  BY <1>1, <1>2, <1>3, <1>4, <1>5, <1>6 DEF ConnectionNext, ThreadStep, ClientStep

\* A connection of the echo server is one of the applications over which the
\* theorems about the socket range.
THEOREM ConnectionIsApplication == ConnectionSpec => Spec
<1>1. ConnectionInit => Init
  BY DEF ConnectionInit
<1>2. [ConnectionNext]_connectionVars => [Next]_vars
  BY ConnectionSteps DEF connectionVars, vars
<1>3. QED
  BY <1>1, <1>2, PTL DEF ConnectionSpec, Spec

----------------------------------------------------------------------------
(* Where the callbacks are                                                 *)

Reading == at \in {"read_data", "write_data"}

\* The statements of each callback.
Statements ==
  [none |-> {"none"},
   on_connected |-> {"read_data", "write_data", "return"},
   on_readable |-> {"read_data", "write_data", "return"},
   on_writable |-> {"return"},
   on_client_close |-> {"shutdown", "close", "throw", "return"},
   on_connection_reset |-> {"close", "return"},
   on_disconnected |-> {"return"},
   on_connection_failed |-> {"throw"}, on_readable_oob |-> {"throw"},
   on_connection_complete |-> {"delete", "return"}]

\* The program is at a statement of the callback in progress, and does not
\* close the socket before the connection begins.
AtInv ==
  /\ stack = <<>> => at = "none"
  /\ stack # <<>> => at \in Statements[Top.run]
  /\ connection_state = "created" => stack = <<>>

\* What the client has sent is echoed, in the buffer or unread, unless a
\* reset or the close has discarded some; outside read_data and write_data
\* the buffer is empty.
AmountInv ==
  /\ bytes_read \in 0..BufferSize /\ sent \in 0..MaxSent /\ echoed \in Nat
  /\ bytes_read # 0 => Reading
  /\ echoed + bytes_read + net.inbox <= sent
  /\ net.link = "up" => echoed + bytes_read + net.inbox = sent

\* Every poll asks for data, since read_data reads until there is none.
AsksInv ==
  /\ connection_state # "created" /\ ~Reading => "RECEIVE" \in events
  /\ poll # {} => "RECEIVE" \in poll

\* So the client's FIN is reported together with the data that precedes it,
\* and on_readable has read all of that before on_client_close is called.
FinInv ==
  /\ net.link = "up" /\ "DISCONNECT" \in out =>
        net.fin /\ (net.inbox = 0 \/ "RECEIVE" \in out)
  /\ net.link = "up" /\ stack # <<>> /\ "on_client_close" \in Top.todo =>
        net.fin /\ (net.inbox = 0 \/ "on_readable" \in Top.todo \/ Reading)
  /\ net.link = "up" /\ at = "shutdown" => net.fin /\ net.inbox = 0

\* When the program closes the socket, everything has been echoed, and no
\* more can come.
EndInv ==
  /\ at = "close" /\ calls["on_connection_reset"] = 0 =>
        echoed = sent /\ (net.link = "up" => net.fin)
  /\ s = "invalid" /\ calls["on_connection_reset"] = 0 => echoed = sent

EchoInv == AtInv /\ AmountInv /\ AsksInv /\ FinInv /\ EndInv

LEMMA EntryFacts ==
  \A run \in Callbacks \cup {"none", "on_connection_complete"} :
    /\ Entry[run] \in Statements[run]
    /\ Entry[run] \in {"read_data", "write_data"} <=> run \in {"on_connected", "on_readable"}
    /\ Entry[run] = "read_data" <=> run \in {"on_connected", "on_readable"}
    /\ Entry[run] = "shutdown" <=> run = "on_client_close"
    /\ Entry[run] = "close" <=> run = "on_connection_reset"
  BY DEF Callbacks, Entry, Statements

LEMMA StatementFacts ==
  /\ Statements["none"] = {"none"}
  /\ \A run \in Callbacks \cup {"none", "on_connection_complete"} :
       /\ Statements[run] \subseteq {"none", "read_data", "write_data", "shutdown",
                                     "close", "delete", "throw", "return"}
       /\ Statements[run] \cap {"read_data", "write_data"} # {} =>
            run \in {"on_connected", "on_readable"}
       /\ "delete" \in Statements[run] => run = "on_connection_complete"
       /\ "shutdown" \in Statements[run] => run = "on_client_close"
       /\ run \in {"on_connected", "on_readable"} =>
            Statements[run] = {"read_data", "write_data", "return"}
       /\ "shutdown" \in Statements[run] => {"close", "throw", "return"} \subseteq Statements[run]
       /\ "close" \in Statements[run] \/ "delete" \in Statements[run]
            => "return" \in Statements[run]
  BY DEF Callbacks, Statements

----------------------------------------------------------------------------
(* Steps that leave the callback in progress                               *)

\* The connection does not come back, and after the FIN nothing arrives.
Evolves(e) ==
  e.link = "up" =>
    net.link = "up" /\ (net.fin => e.fin /\ (net.inbox = 0 => e.inbox = 0))

Held ==
  /\ UNCHANGED <<connection_state, stack, calls>>
  /\ net' \in Endpoints(MaxInbox) /\ Changes(net') /\ Evolves(net')
  /\ events \subseteq events'

LEMMA ReadyReport ==
  ASSUME NEW e \in Endpoints(MaxInbox), NEW interest
  PROVE  LET report == interest \cap Ready(e) IN
         "RECEIVE" \in interest /\ e.link = "up" /\ "DISCONNECT" \in report =>
           e.fin /\ (e.inbox = 0 \/ "RECEIVE" \in report)
  BY DEF Ready, Endpoints, If

LEMMA HeldFacts ==
  ASSUME AtInv, AsksInv, FinInv, Held,
         Reading' \/ "RECEIVE" \in events' \/ ~Reading,
         stack # <<>> => at' \in Statements[Top.run],
         stack = <<>> => at' = at,
         Reading /\ net'.link = "up" => Reading' \/ net'.inbox = 0,
         at' = "shutdown" => at = "shutdown"
  PROVE  AtInv' /\ AsksInv' /\ FinInv'
<1>1. UNCHANGED <<connection_state, stack>> /\ Top' = Top /\ events \subseteq events'
  BY DEF Held, Top
<1>2. AtInv'
  BY <1>1 DEF AtInv
<1>3. AsksInv'
  <2>1. poll' # {} => poll' = poll
    BY DEF Held, Changes, Completes
  <2>2. QED
    BY <1>1, <2>1 DEF AsksInv
<1>4. FinInv'
  <2>1. ASSUME net'.link = "up", "DISCONNECT" \in out'
        PROVE  net'.fin /\ (net'.inbox = 0 \/ "RECEIVE" \in out')
    <3>1. CASE Completes(net')
      BY <2>1, <3>1, ReadyReport DEF Completes, AsksInv, Held
    <3>2. CASE UNCHANGED <<poll, packets, out>>
      BY <2>1, <3>2 DEF FinInv, Held, Evolves
    <3>3. QED
      BY <3>1, <3>2 DEF Held, Changes
  <2>2. ASSUME net'.link = "up", stack # <<>>, "on_client_close" \in Top.todo
        PROVE  net'.fin /\ (net'.inbox = 0 \/ "on_readable" \in Top.todo \/ Reading')
    BY <2>2 DEF FinInv, Held, Evolves
  <2>3. ASSUME net'.link = "up", at' = "shutdown"
        PROVE  net'.fin /\ net'.inbox = 0
    BY <2>3 DEF FinInv, Held, Evolves
  <2>4. QED
    BY <1>1, <2>1, <2>2, <2>3 DEF FinInv
<1>5. QED
  BY <1>2, <1>3, <1>4

\* read() and write() inside a callback do not poll at once.
LEMMA WantInside ==
  ASSUME Shape, Connected, stack # <<>>, NEW event \in {"RECEIVE", "SEND"},
         NEW e \in Endpoints(MaxInbox), Evolves(e), Want(event, e)
  PROVE  /\ Held /\ net' = e /\ event \in events'
         /\ UNCHANGED s
<1>1. /\ Changes(e) /\ net' = e /\ events' = events \cup {event}
      /\ UNCHANGED <<s, connection_state, stack, calls>>
  BY WantInsideFacts
<1>2. QED
  BY <1>1 DEF Held

\* Between its callbacks the program has nothing in its buffer.
LEMMA AtFacts ==
  ASSUME Shape, AtInv, AmountInv, at # "none"
  PROVE  /\ stack # <<>> /\ Top \in Frames /\ at \in Statements[Top.run]
         /\ Top.run \in Callbacks \cup {"none", "on_connection_complete"}
         /\ connection_state # "created"
         /\ events # {} \/ s = "invalid"
         /\ ~Reading => bytes_read = 0
<1>1. stack # <<>>
  BY DEF AtInv
<1>2. Top \in Frames
  BY <1>1, TopFacts
<1>3. Top.by \in {"poll", "close"}
      /\ Top.run \in Callbacks \cup {"none", "on_connection_complete"}
  BY <1>2 DEF Frames
<1>4. events # {} \/ s = "invalid"
  BY <1>1, <1>3 DEF Shape, NestInv
<1>5. QED
  BY <1>1, <1>2, <1>3, <1>4 DEF AtInv, AmountInv

----------------------------------------------------------------------------
(* How the amounts change                                                  *)

\* Nothing is sent, read or echoed; what has been received may be lost, but
\* then the connection is.
LEMMA AmountHeld ==
  ASSUME AmountInv, net \in Endpoints(MaxInbox), net' \in Endpoints(MaxInbox),
         UNCHANGED <<bytes_read, sent, echoed>>,
         net'.inbox <= net.inbox,
         net'.link = "up" => net.link = "up" /\ net'.inbox = net.inbox,
         bytes_read # 0 => Reading'
  PROVE  AmountInv'
<1>1. /\ bytes_read \in Nat /\ sent \in Nat /\ echoed \in Nat
      /\ net.inbox \in Nat /\ net'.inbox \in Nat
  BY ConnectionAssumption DEF AmountInv, Endpoints
<1>2. \A a, b, c, d, e \in Nat : a + b + c <= d /\ e <= c => a + b + e <= d
  OBVIOUS
<1>3. echoed + bytes_read + net'.inbox <= sent
  BY <1>1, <1>2 DEF AmountInv
<1>4. QED
  BY <1>3 DEF AmountInv

\* Units move from what is unread to the buffer, and from there to what is
\* echoed.
LEMMA AmountMoves ==
  ASSUME AmountInv, Reading, net \in Endpoints(MaxInbox),
         NEW r \in Nat, NEW w \in Nat, NEW held \in 0..BufferSize,
         r <= net.inbox, w <= bytes_read + r, held = bytes_read + r - w,
         bytes_read' = held, echoed' = echoed + w, sent' = sent,
         net'.inbox = net.inbox - r, net'.link = net.link,
         held # 0 => Reading'
  PROVE  AmountInv'
<1>1. /\ bytes_read \in Nat /\ sent \in Nat /\ echoed \in Nat /\ net.inbox \in Nat
  BY ConnectionAssumption DEF AmountInv, Endpoints
<1>2. \A a, b, c, x, y \in Nat :
         x <= c /\ y <= b + x =>
           /\ (a + y) + (b + x - y) + (c - x) = a + b + c
           /\ a + y \in Nat
  OBVIOUS
<1>3. /\ (echoed + w) + (bytes_read + r - w) + (net.inbox - r)
           = echoed + bytes_read + net.inbox
      /\ echoed + w \in Nat
  BY <1>1, <1>2
<1>4. /\ (echoed + w) + held + (net.inbox - r) <= sent
      /\ net.link = "up" => (echoed + w) + held + (net.inbox - r) = sent
  BY <1>3 DEF AmountInv
<1>5. QED
  BY <1>3, <1>4 DEF AmountInv

----------------------------------------------------------------------------
(* The steps of the callbacks                                              *)

LEMMA EndHeld ==
  ASSUME EndInv, Held, UNCHANGED <<s, echoed, sent>>, at' = at \/ at' # "close"
  PROVE  EndInv'
  BY DEF EndInv, Held, Evolves

Base == Shape /\ TellInv /\ EchoInv

LEMMA ReadDataStep ==
  ASSUME Base, ReadData \/ ReadFindsNothing
  PROVE  EchoInv'
<1>0. /\ Shape /\ AtInv /\ AmountInv /\ AsksInv /\ FinInv /\ EndInv
      /\ at = "read_data" /\ Reading /\ net \in Endpoints(MaxInbox)
  BY DEF Base, EchoInv, ReadData, ReadFindsNothing, Shape, TypeOK, Reading
<1>1. /\ stack # <<>> /\ s = "open"
      /\ Statements[Top.run] = {"read_data", "write_data", "return"}
  <2>1. /\ stack # <<>> /\ at \in Statements[Top.run]
        /\ Top.run \in Callbacks \cup {"none", "on_connection_complete"}
    BY <1>0, AtFacts
  <2>2. Top.run \in {"on_connected", "on_readable"}
    BY <1>0, <2>1, StatementFacts
  <2>3. QED
    BY <1>0, <2>1, <2>2, StatementFacts DEF ReadData, ReadFindsNothing, ReadSome,
       ReadNothing, Connected
<1>2. BufferSize \in Nat /\ BufferSize > 0 /\ bytes_read \in 0..BufferSize
  BY <1>0, ConnectionAssumption DEF AmountInv
<1>3. CASE ReadData
  <2>1. PICK n \in 1..net.inbox : net' = [net EXCEPT !.inbox = net.inbox - n]
    BY <1>3 DEF ReadData, ReadSome
  <2>2. /\ net.inbox \in 0..MaxInbox /\ MaxInbox \in Nat
    BY <1>0, DirectAssumption DEF Endpoints
  <2>3. /\ n \in Nat /\ n > 0 /\ n <= net.inbox /\ net.inbox - n \in 0..MaxInbox
    BY <2>2
  <2>4. /\ net' \in Endpoints(MaxInbox) /\ net'.inbox = net.inbox - n
        /\ net'.link = net.link /\ net'.fin = net.fin
    BY <1>0, <2>1, <2>3 DEF Endpoints
  <2>5. /\ Held
        /\ UNCHANGED <<s, events>>
    <3>1. UNCHANGED <<connection_state, stack, calls, s, events, poll, packets, out>>
      BY <1>3 DEF ReadData, ReadSome, socket
    <3>2. net.inbox = 0 => net'.inbox = 0
      BY <2>2, <2>3
    <3>3. QED
      BY <2>4, <3>1, <3>2 DEF Held, Changes, Evolves
  <2>6. /\ bytes_read' = bytes_read + net.inbox - net'.inbox /\ bytes_read' <= BufferSize
        /\ at' \in {"read_data", "write_data"} /\ UNCHANGED <<echoed, sent>>
    BY <1>2, <1>3 DEF ReadData, AfterRead
  <2>7. bytes_read + net.inbox - (net.inbox - n) = bytes_read + n - 0
        /\ bytes_read + n >= 0
    BY <1>2, <2>2, <2>3
  <2>8. bytes_read' = bytes_read + n - 0 /\ bytes_read' \in 0..BufferSize
    BY <1>2, <2>3, <2>4, <2>6, <2>7
  <2>9. echoed' = echoed + 0
    BY <1>0, <2>6 DEF AmountInv
  <2>10. Reading'
    BY <2>6 DEF Reading
  <2>11. AmountInv'
    <3> DEFINE held == bytes_read'
    <3>1. held \in 0..BufferSize /\ held = bytes_read + n - 0 /\ bytes_read' = held
      BY <2>8
    <3>2. 0 \in Nat /\ 0 <= bytes_read + n /\ sent' = sent
      BY <2>6, <2>7
    <3> HIDE DEF held
    <3>3. QED
      BY <1>0, <2>3, <2>4, <2>9, <2>10, <3>1, <3>2, AmountMoves
  <2>12. AtInv' /\ AsksInv' /\ FinInv'
    BY <1>0, <1>1, <2>5, <2>6, <2>10, HeldFacts
  <2>13. EndInv'
    BY <1>0, <2>5, <2>6, EndHeld
  <2>14. QED
    BY <2>11, <2>12, <2>13 DEF EchoInv
<1>4. CASE ReadFindsNothing
  <2>1. /\ Connected /\ (net.link = "reset" \/ net.inbox = 0)
        /\ Want("RECEIVE", net)
    BY <1>4 DEF ReadFindsNothing, ReadNothing
  <2>2. Held /\ net' = net /\ "RECEIVE" \in events' /\ UNCHANGED s
    BY <1>0, <1>1, <2>1, WantInside DEF Evolves
  <2>3. /\ UNCHANGED <<bytes_read, echoed, sent>>
        /\ at' = IF bytes_read > 0 THEN "write_data" ELSE "return"
    BY <1>4 DEF ReadFindsNothing, AfterRead
  <2>4. bytes_read # 0 => Reading'
    BY <1>2, <2>3 DEF Reading
  <2>5. AmountInv'
    <3>1. net'.inbox <= net.inbox
      BY <1>0, <2>2, DirectAssumption DEF Endpoints
    <3>2. net' \in Endpoints(MaxInbox)
      BY <1>0, <2>2
    <3>3. QED
      BY <1>0, <2>2, <2>3, <2>4, <3>1, <3>2, AmountHeld
  <2>6. net'.link = "up" => Reading' \/ net'.inbox = 0
    BY <2>1, <2>2
  <2>7. AtInv' /\ AsksInv' /\ FinInv'
    BY <1>0, <1>1, <2>2, <2>3, <2>6, HeldFacts
  <2>8. EndInv'
    BY <1>0, <2>2, <2>3, EndHeld
  <2>9. QED
    BY <2>5, <2>7, <2>8 DEF EchoInv
<1>5. QED
  BY <1>3, <1>4

LEMMA WriteDataStep ==
  ASSUME Base, WriteData \/ WriteFallsShort
  PROVE  EchoInv'
<1> USE DEF socket, kernel, history
<1>0. /\ Shape /\ TypeOK /\ AtInv /\ AmountInv /\ AsksInv /\ FinInv /\ EndInv
      /\ at = "write_data" /\ Reading /\ net \in Endpoints(MaxInbox)
  BY DEF Base, EchoInv, WriteData, WriteFallsShort, Shape, TypeOK, Reading
<1>1. /\ stack # <<>>
      /\ Statements[Top.run] = {"read_data", "write_data", "return"}
  <2>1. /\ stack # <<>> /\ at \in Statements[Top.run]
        /\ Top.run \in Callbacks \cup {"none", "on_connection_complete"}
    BY <1>0, AtFacts
  <2>2. Top.run \in {"on_connected", "on_readable"}
    BY <1>0, <2>1, StatementFacts
  <2>3. QED
    BY <2>1, <2>2, StatementFacts
<1>2. BufferSize \in Nat /\ BufferSize > 0 /\ bytes_read \in 0..BufferSize
      /\ net.inbox \in Nat /\ echoed \in Nat /\ bytes_read \in Nat
  BY <1>0, ConnectionAssumption, DirectAssumption DEF AmountInv, Endpoints
<1>3. /\ [net EXCEPT !.room = FALSE] \in Endpoints(MaxInbox)
      /\ [net EXCEPT !.room = FALSE].inbox = net.inbox
      /\ [net EXCEPT !.room = FALSE].link = net.link
      /\ [net EXCEPT !.room = FALSE].fin = net.fin
      /\ Evolves([net EXCEPT !.room = FALSE]) /\ Evolves(net)
  BY <1>0 DEF Endpoints, Evolves
<1>4. /\ Held /\ UNCHANGED s
      /\ net'.inbox = net.inbox /\ net'.link = net.link
  <2>1. CASE WriteAll
    <3>1. Settle([net EXCEPT !.room = FALSE])
          /\ UNCHANGED <<connection_state, stack, calls, s, events>>
      BY <2>1 DEF WriteAll
    <3>2. Changes([net EXCEPT !.room = FALSE])
      BY <1>0, <1>3, <3>1, SettleFacts
    <3>3. net' = [net EXCEPT !.room = FALSE]
      BY <3>1 DEF Settle
    <3>4. QED
      BY <1>3, <3>1, <3>2, <3>3 DEF Held
  <2>2. CASE UNCHANGED vars
    BY <1>0, <1>3, <2>2 DEF vars, Held, Changes
  <2>3. CASE WriteSome
    <3>1. Connected
      BY <2>3 DEF WriteSome
    <3>2. PICK e \in {net, [net EXCEPT !.room = FALSE]} : Want("SEND", e)
      BY <2>3 DEF WriteSome
    <3>3. e \in Endpoints(MaxInbox) /\ Evolves(e)
          /\ e.inbox = net.inbox /\ e.link = net.link
      BY <1>0, <1>3
    <3>4. QED
      BY <1>0, <1>1, <3>1, <3>2, <3>3, WantInside
  <2>4. QED
    BY <2>1, <2>2, <2>3 DEF WriteData, WriteFallsShort
<1>5. PICK w \in 0..bytes_read :
         /\ bytes_read' = bytes_read - w /\ echoed' = echoed + w /\ sent' = sent
         /\ at' = AfterWrite(bytes_read')
  <2>1. CASE WriteData
    <3>1. /\ bytes_read' = 0 /\ echoed' = echoed + bytes_read /\ sent' = sent
          /\ at' = AfterWrite(0)
      BY <2>1 DEF WriteData
    <3>2. bytes_read \in 0..bytes_read /\ bytes_read - bytes_read = 0
      BY <1>2
    <3>3. QED
      BY <3>1, <3>2
  <2>2. CASE WriteFallsShort
    <3>1. PICK written \in 0..bytes_read - 1 :
             bytes_read' = bytes_read - written /\ echoed' = echoed + written
      BY <2>2 DEF WriteFallsShort
    <3>2. written \in 0..bytes_read
      BY <1>2
    <3>3. QED
      BY <2>2, <3>1, <3>2 DEF WriteFallsShort
  <2>3. QED
    BY <2>1, <2>2
<1>6. at' \in {"read_data", "write_data"} /\ Reading'
  <2>1. AfterWrite(bytes_read') \in {"read_data", "write_data"}
    BY <1>2 DEF AfterWrite, AfterRead
  <2>2. QED
    BY <1>5, <2>1 DEF Reading
<1>7. AmountInv'
  <2>1. /\ w \in Nat /\ w <= bytes_read + 0 /\ 0 \in Nat /\ 0 <= net.inbox
        /\ bytes_read - w \in 0..BufferSize /\ bytes_read - w = bytes_read + 0 - w
        /\ net.inbox = net.inbox - 0
    BY <1>2, <1>5
  <2>2. net'.inbox = net.inbox - 0
    BY <1>4, <2>1
  <2> DEFINE held == bytes_read - w
  <2>3. held \in 0..BufferSize /\ held = bytes_read + 0 - w /\ bytes_read' = held
    BY <1>5, <2>1
  <2> HIDE DEF held
  <2>4. QED
    BY <1>0, <1>4, <1>5, <1>6, <2>1, <2>2, <2>3, AmountMoves
<1>8. AtInv' /\ AsksInv' /\ FinInv'
  BY <1>0, <1>1, <1>4, <1>6, HeldFacts
<1>9. EndInv'
  <2>1. s = "open" /\ at' # "close"
    BY <1>6 DEF WriteData, WriteFallsShort, WriteAll, WriteSome, Connected
  <2>2. QED
    BY <1>4, <2>1 DEF EndInv
<1>10. QED
  BY <1>7, <1>8, <1>9 DEF EchoInv

LEMMA EndStep ==
  ASSUME Base, ShutDown \/ ShutDownFails \/ CloseConnection \/ DeleteThis
  PROVE  EchoInv'
<1> USE DEF socket, kernel, history
<1>0. /\ Shape /\ TypeOK /\ TellInv /\ AtInv /\ AmountInv /\ AsksInv /\ FinInv /\ EndInv
      /\ at \in {"shutdown", "close", "delete"} /\ ~Reading /\ at # "none"
      /\ net \in Endpoints(MaxInbox)
      /\ UNCHANGED <<bytes_read, echoed, sent>>
  BY DEF Base, EchoInv, ShutDown, ShutDownFails, CloseConnection, DeleteThis,
     Shape, TypeOK, Reading
<1>1. /\ stack # <<>> /\ Top \in Frames /\ at \in Statements[Top.run]
      /\ Top.run \in Callbacks \cup {"none", "on_connection_complete"}
      /\ connection_state # "created"
      /\ events # {} \/ s = "invalid"
      /\ bytes_read = 0
  BY <1>0, AtFacts
<1>2. net.inbox \in Nat /\ net.inbox <= net.inbox
  BY <1>0, DirectAssumption DEF Endpoints
<1>3. CASE ShutDown \/ ShutDownFails
  <2>1. /\ UNCHANGED <<connection_state, events, net, poll, packets, out, stack, calls, s>>
        /\ at = "shutdown" /\ at' \in {"close", "return", "throw"}
    BY <1>3 DEF ShutDown, ShutDownFails, Shutdown, vars
  <2>2. Held
    BY <1>0, <2>1 DEF Held, Changes, Evolves
  <2>3. at' \in Statements[Top.run]
    BY <1>0, <1>1, <2>1, StatementFacts
  <2>4. AtInv' /\ AsksInv' /\ FinInv'
    BY <1>0, <1>1, <2>1, <2>2, <2>3, HeldFacts
  <2>5. AmountInv'
    BY <1>0, <1>1, <1>2, <2>1, AmountHeld
  <2>6. EndInv'
    <3>1. CASE at' # "close"
      BY <1>0, <2>1, <2>2, <3>1, EndHeld
    <3>2. CASE at' = "close"
      <4>1. net.link = "up" /\ s = "open"
        BY <1>3, <3>2 DEF ShutDown, ShutDownFails, Shutdown
      <4>2. net.fin /\ net.inbox = 0
        BY <1>0, <2>1, <4>1 DEF FinInv
      <4>3. echoed + bytes_read + net.inbox = sent
        BY <1>0, <4>1 DEF AmountInv
      <4>4. echoed = sent
        BY <1>0, <1>1, <4>2, <4>3 DEF AmountInv
      <4>5. QED
        BY <1>0, <2>1, <4>1, <4>2, <4>4 DEF EndInv
    <3>3. QED
      BY <3>1, <3>2
  <2>7. QED
    BY <2>4, <2>5, <2>6 DEF EchoInv
<1>4. CASE CloseConnection \/ DeleteThis
  <2>1. /\ Changes(ClosedEndpoint) /\ net' = ClosedEndpoint
        /\ UNCHANGED <<connection_state, events, stack, calls>>
        /\ at' = "return" /\ s' = "invalid"
    <3>1. CASE CloseConnection
      <4>1. Close /\ at' = "return"
        BY <3>1 DEF CloseConnection
      <4>2. QED
        BY <1>0, <1>1, <4>1, CloseFacts DEF Changes, Completes
    <3>2. CASE DeleteThis
      <4>1. Delete /\ at' = "return"
        BY <3>2 DEF DeleteThis
      <4>2. QED
        BY <1>0, <4>1, DeleteFacts DEF Changes, Completes
    <3>3. QED
      BY <1>4, <3>1, <3>2
  <2>2. /\ net' \in Endpoints(MaxInbox) /\ net'.link = "closed" /\ net'.inbox = 0
    BY <2>1, EndpointFacts DEF ClosedEndpoint, NewEndpoint
  <2>3. Held
    BY <2>1, <2>2 DEF Held, Evolves
  <2>4. at \in {"close", "delete"}
    BY <1>4 DEF CloseConnection, DeleteThis
  <2>5. at' \in Statements[Top.run]
    BY <1>1, <2>1, <2>4, StatementFacts
  <2>6. AtInv' /\ AsksInv' /\ FinInv'
    BY <1>0, <1>1, <2>1, <2>2, <2>3, <2>5, HeldFacts
  <2>7. AmountInv'
    <3>1. net'.inbox <= net.inbox
      BY <1>2, <2>2
    <3>2. QED
      BY <1>0, <1>1, <2>2, <3>1, AmountHeld
  <2>8. EndInv'
    <3>1. at = "close" \/ s = "invalid"
      <4>1. CASE at = "delete"
        <5>1. Top.run = "on_connection_complete"
          BY <1>1, <4>1, StatementFacts
        <5>2. QED
          BY <1>0, <1>1, <5>1 DEF Shape, NestInv
      <4>2. QED
        BY <2>4, <4>1
    <3>2. calls["on_connection_reset"] = 0 => echoed = sent
      BY <1>0, <3>1 DEF EndInv
    <3>3. QED
      BY <1>0, <2>1, <3>2 DEF EndInv
  <2>9. QED
    BY <2>6, <2>7, <2>8 DEF EchoInv
<1>5. QED
  BY <1>3, <1>4

----------------------------------------------------------------------------
(* The steps of handle_events                                              *)

\* The statement at which the callback in progress begins.
LEMMA GoesFacts ==
  ASSUME Goes
  PROVE  /\ UNCHANGED <<bytes_read, echoed, sent>>
         /\ stack' = <<>> => at' = "none"
         /\ stack' # <<>> => at' = Entry[Top'.run]
  BY DEF Goes, Entry, Top

\* A poll that asks for data is submitted when no callback is in progress.
LEMMA SubmitsEcho ==
  ASSUME Base, ~Reading, Goes, NEW interest, "RECEIVE" \in interest,
         NEW state, state # "created", Submits(interest, net, state)
  PROVE  EchoInv'
<1>0. /\ AtInv /\ AmountInv /\ AsksInv /\ FinInv /\ EndInv /\ net \in Endpoints(MaxInbox)
  BY DEF Base, EchoInv, Shape, TypeOK
<1>1. /\ s = "open" /\ s' = "open" /\ events' = interest /\ connection_state' = state
      /\ net' = net /\ out' = interest \cap Ready(net) /\ poll' \in {{}, interest}
  BY DEF Submits
<1>2. stack' # <<>> =>
        Top'.run = "none" /\ Top'.todo = Raised(state, out') /\ out' # {}
  <2>1. stack' # <<>> => Top' = Frame("poll", "none", Raised(state, out')) /\ out' # {}
    BY SubmitsFacts
  <2>2. QED
    BY <2>1 DEF Frame
<1>3. at' = "none" /\ ~Reading' /\ UNCHANGED <<bytes_read, echoed, sent>>
  BY <1>2, GoesFacts DEF Entry, Reading
<1>4. AtInv'
  BY <1>1, <1>2, <1>3, StatementFacts DEF AtInv
<1>5. AmountInv'
  BY <1>0, <1>1, <1>3 DEF AmountInv
<1>6. AsksInv'
  BY <1>1 DEF AsksInv
<1>7. FinInv'
  <2>1. net.link = "up" /\ "DISCONNECT" \in out' =>
          net.fin /\ (net.inbox = 0 \/ "RECEIVE" \in out')
    BY <1>0, <1>1, ReadyReport
  <2>2. QED
    BY <1>1, <1>2, <1>3, <2>1, RaisedNews DEF FinInv
<1>8. EndInv'
  BY <1>1, <1>3 DEF EndInv
<1>9. QED
  BY <1>4, <1>5, <1>6, <1>7, <1>8 DEF EchoInv

LEMMA AcceptStep ==
  ASSUME Base, AcceptConnection
  PROVE  EchoInv'
<1>1. /\ stack = <<>> /\ Calls /\ Begin("pending_accept", net) /\ Goes
  BY DEF AcceptConnection, Accepted
<1>2. ~Reading
  BY <1>1 DEF Base, EchoInv, AtInv, Reading
<1>3. s = "open" /\ net \in Endpoints(MaxInbox)
  BY <1>1 DEF Begin, Calls, Base, Shape, NestInv, TypeOK
<1>4. Submit(AllEvents, net, "pending_accept", <<>>)
      /\ UNCHANGED <<s, alive, orphaned, calls, threw>>
      /\ connection_state' = "pending_accept" /\ events' = AllEvents
  BY <1>1 DEF Begin
<1>5. Submits(AllEvents, net, "pending_accept")
  BY <1>3, <1>4, SubmitFacts
<1>6. "RECEIVE" \in AllEvents
  BY DEF AllEvents, Events
<1>7. QED
  BY <1>1, <1>2, <1>5, <1>6, SubmitsEcho

LEMMA TakePacketStep ==
  ASSUME Base, TakePacket
  PROVE  EchoInv'
<1> USE DEF history
<1>0. /\ Shape /\ AtInv /\ AmountInv /\ AsksInv /\ FinInv /\ EndInv
      /\ Dispatch /\ Goes
  BY DEF Base, EchoInv, TakePacket
<1>1. /\ stack = <<>> /\ packets > 0 /\ UNCHANGED <<s, connection_state, events, net, poll, out, calls>>
      /\ stack' # <<>> =>
           Top'.run = "none" /\ Top'.todo = Raised(connection_state, out)
  <2>1. /\ stack = <<>> /\ packets > 0
        /\ UNCHANGED <<s, connection_state, events, net, poll, out, calls>>
        /\ stack' # <<>> => Top' = Frame("poll", "none", Raised(connection_state, out))
    BY <1>0, DispatchFacts
  <2>2. QED
    BY <2>1 DEF Frame
<1>2. /\ at = "none" /\ at' = "none" /\ ~Reading /\ ~Reading'
      /\ UNCHANGED <<bytes_read, echoed, sent>>
  BY <1>0, <1>1, GoesFacts DEF Entry, Reading, AtInv
<1>3. connection_state # "created"
  BY <1>0, <1>1 DEF Shape, NestInv
<1>4. AtInv'
  BY <1>1, <1>2, <1>3, StatementFacts DEF AtInv
<1>5. AmountInv' /\ AsksInv' /\ EndInv'
  BY <1>0, <1>1, <1>2 DEF AmountInv, AsksInv, EndInv
<1>6. FinInv'
  BY <1>0, <1>1, <1>2, RaisedNews DEF FinInv
<1>7. QED
  BY <1>4, <1>5, <1>6 DEF EchoInv

LEMMA ServerEndsStep ==
  ASSUME Base, ServerEnds
  PROVE  EchoInv'
<1>0. /\ Shape /\ AtInv /\ AmountInv /\ AsksInv /\ FinInv /\ EndInv
      /\ at = "throw" /\ at' = "none" /\ Throw
      /\ UNCHANGED <<bytes_read, echoed, sent>>
  BY DEF Base, EchoInv, ServerEnds
<1>1. /\ stack # <<>> /\ stack' = Callers
      /\ UNCHANGED <<s, connection_state, events, net, poll, out, calls>>
  BY <1>0 DEF Throw, InCallback, socket, kernel
<1>2. stack' = <<>>
  BY <1>0, <1>1, TopFacts
<1>3. ~Reading /\ ~Reading'
  BY <1>0 DEF Reading
<1>4. QED
  BY <1>0, <1>1, <1>2, <1>3 DEF EchoInv, AtInv, AmountInv, AsksInv, FinInv, EndInv

\* When on_client_close is called, on_readable has been.
LEMMA NextCallbackEcho ==
  ASSUME Base, at \in {"none", "return"}, NextCallback, Goes
  PROVE  EchoInv'
<1> USE DEF kernel
<1> DEFINE c == First(Top.todo)
<1>0. /\ Shape /\ TypeOK /\ AtInv /\ AmountInv /\ AsksInv /\ FinInv /\ EndInv /\ ~Reading
  BY DEF Base, EchoInv, Shape, Reading
<1>1. /\ stack # <<>> /\ Top \in Frames /\ c \in Top.todo /\ c \in Callbacks
      /\ stack' # <<>> /\ Top'.run = c /\ Top'.todo = Top.todo \ {c}
  BY <1>0, NextCallbackFacts
<1>2. \A d \in Top.todo : Rank[c] <= Rank[d]
  BY <1>1, FirstFacts DEF Frames
<1>3. /\ connection_state' = StateFor(c, StateAfter(Top.run, connection_state))
      /\ events' = events \ Cleared[c] /\ Count(c)
      /\ UNCHANGED <<s, net, poll, out>>
  BY DEF NextCallback
<1> HIDE DEF c
<1>4. at' = Entry[c] /\ UNCHANGED <<bytes_read, echoed, sent>>
  BY <1>1, GoesFacts
<1>5. connection_state # "created" /\ connection_state' # "created"
  <2>1. connection_state \in ConnectionStates /\ connection_state # "created"
    BY <1>0, <1>1 DEF TypeOK, AtInv
  <2>2. /\ StateAfter(Top.run, connection_state) \in ConnectionStates
        /\ StateAfter(Top.run, connection_state) # "created"
    BY <2>1, StateFacts DEF ConnectionStates
  <2>3. QED
    BY <1>1, <1>3, <2>1, <2>2, StateFacts
<1>6. /\ Reading' <=> c \in {"on_connected", "on_readable"}
      /\ at' \in Statements[c]
      /\ at' = "shutdown" => c = "on_client_close"
      /\ at' = "close" => c = "on_connection_reset"
  BY <1>1, <1>4, EntryFacts DEF Reading
<1>7. AtInv'
  BY <1>1, <1>5, <1>6 DEF AtInv
<1>8. AmountInv'
  BY <1>0, <1>3, <1>4 DEF AmountInv
<1>9. AsksInv'
  <2>1. c # "on_readable" => "RECEIVE" \notin Cleared[c]
    BY <1>1 DEF Callbacks, Cleared
  <2>2. QED
    BY <1>0, <1>3, <1>5, <1>6, <2>1 DEF AsksInv
<1>10. FinInv'
  <2>1. c = "on_client_close" => "on_readable" \notin Top.todo
    BY <1>2 DEF Rank
  <2>2. QED
    BY <1>0, <1>1, <1>3, <1>6, <2>1 DEF FinInv
<1>11. EndInv'
  <2>1. calls \in [Milestones -> 0..2] /\ "on_connection_reset" \in Milestones
    BY <1>0 DEF TypeOK, Milestones
  <2>2. /\ calls["on_connection_reset"] \in 0..2 /\ calls'["on_connection_reset"] \in 0..2
        /\ calls["on_connection_reset"] > 0 => calls'["on_connection_reset"] > 0
        /\ c = "on_connection_reset" => calls'["on_connection_reset"] > 0
    BY <1>3, <2>1, CountFacts
  <2>3. /\ calls'["on_connection_reset"] = 0 =>
             calls["on_connection_reset"] = 0 /\ c # "on_connection_reset"
    BY <2>2
  <2>4. QED
    BY <1>0, <1>3, <1>4, <1>6, <2>3 DEF EndInv
<1>12. QED
  BY <1>7, <1>8, <1>9, <1>10, <1>11 DEF EchoInv

LEMMA HandleOnStep ==
  ASSUME Base, HandleOn
  PROVE  EchoInv'
<1> USE DEF socket, kernel, history
<1>0. /\ Shape /\ TypeOK /\ AtInv /\ AmountInv /\ AsksInv /\ FinInv /\ EndInv
      /\ ~Reading /\ Goes /\ at \in {"none", "return"}
      /\ NextCallback \/ Handled \/ Return
  BY DEF Base, EchoInv, Shape, Reading, HandleOn
<1>1. CASE NextCallback
  BY <1>0, <1>1, NextCallbackEcho
<1>2. CASE PollsAgain
  <2>1. /\ stack # <<>> /\ Submits(events, net, StateAfter(Top.run, connection_state))
    BY <1>2 DEF PollsAgain, Finishing
  <2>2. connection_state # "created" /\ connection_state \in ConnectionStates
    BY <1>0, <2>1 DEF AtInv, TypeOK
  <2>3. "RECEIVE" \in events
    BY <1>0, <2>2 DEF AsksInv
  <2>4. StateAfter(Top.run, connection_state) # "created"
    BY <2>2, StateFacts
  <2>5. QED
    BY <1>0, <2>1, <2>3, <2>4, SubmitsEcho
<1>3. CASE Announces
  <2>1. /\ stack # <<>> /\ s = "invalid"
        /\ connection_state' = StateAfter(Top.run, connection_state)
        /\ stack' = <<Frame("poll", "on_connection_complete", {})>>
        /\ Count("on_connection_complete")
        /\ UNCHANGED <<s, events, net, poll, out>>
    BY <1>3 DEF Announces, Finishing
  <2>2. Frame("poll", "on_connection_complete", {}) \in Frames
    BY DEF Frame, Frames
  <2>3. stack' # <<>> /\ Top' = Frame("poll", "on_connection_complete", {})
    BY <2>1, <2>2, FrameFacts DEF Top
  <2>4. Top'.run = "on_connection_complete" /\ Top'.todo = {}
    BY <2>3 DEF Frame
  <2>5. at' = "delete" /\ ~Reading' /\ UNCHANGED <<bytes_read, echoed, sent>>
    BY <1>0, <2>3, <2>4, GoesFacts DEF Entry, Reading
  <2>6. connection_state # "created" /\ connection_state' # "created"
    BY <1>0, <2>1, StateFacts DEF AtInv, TypeOK
  <2>7. calls'["on_connection_reset"] = calls["on_connection_reset"]
    <3>1. calls \in [Milestones -> 0..2] /\ "on_connection_reset" \in Milestones
      BY <1>0 DEF TypeOK, Milestones
    <3>2. QED
      BY <2>1, <3>1, CountFacts
  <2>8. AtInv'
    BY <2>3, <2>4, <2>5, <2>6 DEF AtInv, Statements
  <2>9. AmountInv' /\ AsksInv'
    BY <1>0, <2>1, <2>5, <2>6 DEF AmountInv, AsksInv
  <2>10. FinInv' /\ EndInv'
    BY <1>0, <2>1, <2>4, <2>5, <2>7 DEF FinInv, EndInv
  <2>11. QED
    BY <2>8, <2>9, <2>10 DEF EchoInv
<1>4. CASE Return
  <2>1. /\ stack # <<>> /\ stack' = <<>>
        /\ UNCHANGED <<connection_state, s, events, net, poll, out, calls>>
    BY <1>0, <1>4, TopFacts DEF Return
  <2>2. at' = "none" /\ ~Reading' /\ UNCHANGED <<bytes_read, echoed, sent>>
    BY <1>0, <2>1, GoesFacts DEF Reading
  <2>3. QED
    BY <1>0, <2>1, <2>2 DEF EchoInv, AtInv, AmountInv, AsksInv, FinInv, EndInv
<1>5. QED
  BY <1>0, <1>1, <1>2, <1>3, <1>4, HandledFacts

----------------------------------------------------------------------------
(* The client                                                              *)

LEMMA ClientHeld ==
  ASSUME Base, NEW e \in Endpoints(MaxInbox), Evolves(e), Network(e),
         UNCHANGED at
  PROVE  Held /\ net' = e /\ UNCHANGED s /\ AtInv' /\ AsksInv' /\ FinInv'
<1>0. Shape /\ TypeOK /\ AtInv /\ AsksInv /\ FinInv
  BY DEF Base, EchoInv, Shape
<1>1. Changes(e) /\ net' = e /\ UNCHANGED <<s, connection_state, events, stack, calls>>
  BY <1>0, SettleFacts DEF Network, Settle, socket, history
<1>2. Held
  BY <1>1 DEF Held
<1>3. AtInv' /\ AsksInv' /\ FinInv'
  BY <1>0, <1>1, <1>2, HeldFacts DEF AtInv, Reading
<1>4. QED
  BY <1>1, <1>2, <1>3

LEMMA ClientStepEcho ==
  ASSUME Base, ClientStep
  PROVE  EchoInv'
<1>0. /\ Shape /\ TypeOK /\ TellInv /\ AtInv /\ AmountInv /\ AsksInv /\ FinInv /\ EndInv
      /\ net \in Endpoints(MaxInbox)
  BY DEF Base, EchoInv, Shape, TypeOK
<1>1. /\ net.inbox \in Nat /\ net.inbox <= MaxInbox /\ MaxInbox \in Nat
      /\ bytes_read \in Nat /\ sent \in Nat /\ echoed \in Nat /\ MaxSent \in Nat
  BY <1>0, DirectAssumption, ConnectionAssumption DEF Endpoints, AmountInv
<1>2. CASE ClientSends
  <2> DEFINE e == [net EXCEPT !.inbox = net.inbox + 1]
  <2>1. /\ sent < MaxSent /\ net.link = "up" /\ ~net.fin /\ net.inbox < MaxInbox
        /\ Network(e) /\ sent' = sent + 1 /\ UNCHANGED <<at, bytes_read, echoed>>
    BY <1>2 DEF ClientSends
  <2>2. net.inbox + 1 \in 0..MaxInbox
    BY <1>1, <2>1
  <2>3. e \in Endpoints(MaxInbox) /\ e.inbox = net.inbox + 1
        /\ e.link = net.link /\ e.fin = net.fin
    BY <1>0, <2>2 DEF Endpoints
  <2>4. Evolves(e)
    BY <2>1, <2>3 DEF Evolves
  <2> HIDE DEF e
  <2>5. Held /\ net' = e /\ UNCHANGED s /\ AtInv' /\ AsksInv' /\ FinInv'
    BY <2>1, <2>3, <2>4, ClientHeld
  <2>6. AmountInv'
    <3>1. \A a, b, c, d \in Nat :
             /\ a + b + c <= d => a + b + (c + 1) <= d + 1
             /\ a + b + c = d => a + b + (c + 1) = d + 1
      OBVIOUS
    <3>2. /\ echoed + bytes_read + (net.inbox + 1) <= sent + 1
          /\ net.link = "up" => echoed + bytes_read + (net.inbox + 1) = sent + 1
          /\ sent + 1 \in 0..MaxSent
      BY <1>0, <1>1, <2>1, <3>1 DEF AmountInv
    <3>3. /\ net'.inbox = net.inbox + 1 /\ net'.link = net.link
          /\ Reading' = Reading
      BY <2>1, <2>3, <2>5 DEF Reading
    <3>4. QED
      BY <1>0, <2>1, <3>2, <3>3 DEF AmountInv
  <2>7. EndInv'
    <3>1. net.link # "closed" /\ s # "invalid"
      BY <1>0, <2>1 DEF TellInv
    <3>2. ~(at = "close" /\ calls["on_connection_reset"] = 0)
      BY <1>0, <2>1 DEF EndInv
    <3>3. QED
      BY <2>1, <2>5, <3>1, <3>2 DEF EndInv, Held
  <2>8. QED
    BY <2>5, <2>6, <2>7 DEF EchoInv
<1>3. CASE ClientSendsUrgent \/ ClientShutsDown \/ ClientTakesEcho \/ ClientAborts
  <2>1. UNCHANGED <<at, bytes_read, echoed, sent>>
    BY <1>3 DEF ClientSendsUrgent, ClientShutsDown, ClientTakesEcho, ClientAborts, connection
  <2>2. PICK e \in Endpoints(MaxInbox) :
           /\ Network(e) /\ e.inbox <= net.inbox
           /\ e.link = "up" => net.link = "up" /\ e.inbox = net.inbox /\ (net.fin => e.fin)
    <3>1. CASE ClientSendsUrgent
      <4> DEFINE e == [net EXCEPT !.urgent = TRUE]
      <4>1. e \in Endpoints(MaxInbox) /\ e.inbox = net.inbox /\ e.link = net.link
            /\ e.fin = net.fin
        BY <1>0 DEF Endpoints
      <4>2. Network(e)
        BY <3>1 DEF ClientSendsUrgent
      <4> HIDE DEF e
      <4>3. e.inbox <= net.inbox
        BY <1>1, <4>1
      <4>4. QED
        BY <4>1, <4>2, <4>3
    <3>2. CASE ClientShutsDown
      <4> DEFINE e == [net EXCEPT !.fin = TRUE]
      <4>1. e \in Endpoints(MaxInbox) /\ e.inbox = net.inbox /\ e.link = net.link
            /\ e.fin
        BY <1>0 DEF Endpoints
      <4>2. Network(e)
        BY <3>2 DEF ClientShutsDown, PeerShutsDown
      <4> HIDE DEF e
      <4>3. e.inbox <= net.inbox
        BY <1>1, <4>1
      <4>4. QED
        BY <4>1, <4>2, <4>3
    <3>3. CASE ClientTakesEcho
      <4> DEFINE e == [net EXCEPT !.room = TRUE]
      <4>1. e \in Endpoints(MaxInbox) /\ e.inbox = net.inbox /\ e.link = net.link
            /\ e.fin = net.fin
        BY <1>0 DEF Endpoints
      <4>2. Network(e)
        BY <3>3 DEF ClientTakesEcho, PeerReads
      <4> HIDE DEF e
      <4>3. e.inbox <= net.inbox
        BY <1>1, <4>1
      <4>4. QED
        BY <4>1, <4>2, <4>3
    <3>4. CASE ClientAborts
      <4>1. /\ ResetEndpoint(net) \in Endpoints(MaxInbox)
            /\ ResetEndpoint(net).link = "reset"
            /\ ResetEndpoint(net).inbox = 0
        BY <1>0, EndpointFacts DEF ResetEndpoint
      <4>2. QED
        BY <1>1, <3>4, <4>1 DEF ClientAborts, PeerAborts
    <3>5. QED
      BY <1>3, <3>1, <3>2, <3>3, <3>4
  <2>3. Evolves(e)
    BY <2>2 DEF Evolves
  <2>4. Held /\ net' = e /\ UNCHANGED s /\ AtInv' /\ AsksInv' /\ FinInv'
    BY <2>1, <2>2, <2>3, ClientHeld
  <2>5. AmountInv'
    <3>1. bytes_read # 0 => Reading'
      BY <1>0, <2>1 DEF AmountInv, Reading
    <3>2. QED
      BY <1>0, <2>1, <2>2, <2>4, <3>1, AmountHeld
  <2>6. EndInv'
    BY <1>0, <2>1, <2>4, EndHeld
  <2>7. QED
    BY <2>4, <2>5, <2>6 DEF EchoInv
<1>4. QED
  BY <1>2, <1>3 DEF ClientStep

----------------------------------------------------------------------------
(* Results                                                                 *)

LEMMA NextEchoInv ==
  ASSUME Base, [ConnectionNext]_connectionVars
  PROVE  EchoInv'
<1>1. CASE UNCHANGED connectionVars
  <2>1. UNCHANGED <<at, bytes_read, echoed, sent, stack, connection_state, net,
                    events, poll, out, calls, s>>
    BY <1>1 DEF connectionVars, vars, connection, socket, kernel, history
  <2>2. Top' = Top /\ Reading' = Reading
    BY <2>1 DEF Top, Reading
  <2>3. QED
    BY <2>1, <2>2 DEF Base, EchoInv, AtInv, AmountInv, AsksInv, FinInv, EndInv
<1>2. QED
  BY <1>1, AcceptStep, TakePacketStep, HandleOnStep, ServerEndsStep, ReadDataStep,
     WriteDataStep, EndStep, ClientStepEcho
  DEF ConnectionNext, ThreadStep

LEMMA EchoInvHolds == ConnectionSpec => [](Inv /\ TellInv /\ EchoInv)
<1>1. ConnectionInit => EchoInv
  <2>1. ASSUME ConnectionInit PROVE EchoInv
    <3>1. /\ at = "none" /\ bytes_read = 0 /\ sent = 0 /\ echoed = 0
          /\ stack = <<>> /\ connection_state = "created"
          /\ net = [NewEndpoint EXCEPT !.link = "up"]
          /\ poll = {} /\ out = {} /\ s = "open"
      BY <2>1 DEF ConnectionInit, Init, NewEndpoint
    <3>2. net.inbox = 0 /\ ~Reading
      BY <3>1 DEF NewEndpoint, Reading
    <3>3. AmountInv
      BY <3>1, <3>2, ConnectionAssumption DEF AmountInv
    <3>4. QED
      BY <3>1, <3>2, <3>3 DEF EchoInv, AtInv, AsksInv, FinInv, EndInv
  <2>2. QED
    BY <2>1
<1>2. Inv /\ TellInv /\ EchoInv /\ [ConnectionNext]_connectionVars => EchoInv'
  BY NextEchoInv DEF Base, Inv
<1>3. QED
  BY <1>1, <1>2, ConnectionIsApplication, InvHolds, TellInvHolds, PTL DEF ConnectionSpec

\* Every state of a connection of the echo server has the shape the code
\* declares: its buffer is never overrun, and no more is echoed than was sent.
THEOREM ConnectionTypeCorrect == ConnectionSpec => []ConnectionTypeOK
<1> USE DEF connection
<1>1. EchoInv /\ Inv => /\ TypeOK /\ bytes_read \in 0..BufferSize
                        /\ sent \in 0..MaxSent /\ echoed \in 0..MaxSent
  <2>1. ASSUME EchoInv, Inv
        PROVE  /\ TypeOK /\ bytes_read \in 0..BufferSize
               /\ sent \in 0..MaxSent /\ echoed \in 0..MaxSent
    <3>1. /\ TypeOK /\ AmountInv
      BY <2>1 DEF EchoInv, Inv, Shape
    <3>2. /\ bytes_read \in Nat /\ sent \in Nat /\ sent <= MaxSent /\ echoed \in Nat
          /\ net.inbox \in Nat /\ MaxSent \in Nat
      BY <3>1, DirectAssumption, ConnectionAssumption DEF AmountInv, TypeOK, Endpoints
    <3>3. \A a, b, c, d, e \in Nat : a + b + c <= d /\ d <= e => a <= e
      OBVIOUS
    <3>4. echoed \in 0..MaxSent
      BY <3>1, <3>2, <3>3 DEF AmountInv
    <3>5. QED
      BY <3>1, <3>4 DEF AmountInv
  <2>2. QED
    BY <2>1
<1>2. EchoInv /\ Inv => at \in {"none", "read_data", "write_data", "shutdown", "close",
                                 "delete", "throw", "return"}
  <2>1. ASSUME EchoInv, Inv, at # "none"
        PROVE  at \in {"none", "read_data", "write_data", "shutdown", "close",
                       "delete", "throw", "return"}
    <3>1. /\ Top.run \in Callbacks \cup {"none", "on_connection_complete"}
          /\ at \in Statements[Top.run]
      BY <2>1, AtFacts DEF EchoInv, Inv
    <3>2. QED
      BY <3>1, StatementFacts
  <2>2. QED
    BY <2>1
<1> DEFINE Flags == thrown \in BOOLEAN /\ client \in {"reads", "any"}
<1>3. ConnectionInit => Flags
  BY DEF ConnectionInit
<1>4. Flags /\ [ConnectionNext]_connectionVars => Flags'
  BY DEF ConnectionNext, connectionVars, ThreadStep, ClientStep, AcceptConnection,
     TakePacket, HandleOn, ServerEnds, ReadData, ReadFindsNothing, WriteData,
     WriteFallsShort, ShutDown, ShutDownFails, CloseConnection, DeleteThis, Goes,
     ClientSends, ClientSendsUrgent, ClientShutsDown, ClientTakesEcho, ClientAborts
<1>5. EchoInv /\ Inv /\ Flags => ConnectionTypeOK
  BY <1>1, <1>2 DEF ConnectionTypeOK
<1> HIDE DEF Flags
<1>6. QED
  BY <1>3, <1>4, <1>5, EchoInvHolds, PTL DEF ConnectionSpec

\* When the server closes a connection that has not been reset, everything the
\* client has sent has been echoed.
THEOREM EverythingEchoed == ConnectionSpec => []EchoesEverything
<1>1. EchoInv => EchoesEverything
  BY DEF EchoInv, EndInv, EchoesEverything
<1>2. QED
  BY <1>1, EchoInvHolds, PTL

============================================================================
