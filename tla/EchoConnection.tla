--------------------------- MODULE EchoConnection ---------------------------
(***************************************************************************)
(* socket_without_device_afd/listening_socket/echo_server/: one            *)
(* echo_server_connection in place of DirectSocket's most general          *)
(* application, and the client that is connected to it.  write_data and    *)
(* read_data call each other; every call of the socket is one step.  An    *)
(* exception out of a callback ends the whole server.                      *)
(***************************************************************************)
EXTENDS DirectSocket

CONSTANTS
  BufferSize,      \* units of data recv_buffer holds
  MaxSent          \* units of data the client sends (a bound)

ASSUME ConnectionAssumption == BufferSize \in Nat \ {0} /\ MaxSent \in Nat

VARIABLES
  at,              \* what the running callback does next
  bytes_read,
  thrown,          \* an exception has left a callback
  client,          \* "reads": it goes on reading what is echoed and never
                   \* resets the connection; "any": it may do what it likes
  sent,            \* history: units of data the client has sent
  echoed           \* history: units of data taken by write()

connection == <<at, bytes_read, thrown, client, sent, echoed>>
connectionVars == <<vars, connection>>

\* What each callback does first.
Entry ==
  [none |-> "none", on_connected |-> "read_data", on_readable |-> "read_data",
   on_writable |-> "return", on_client_close |-> "shutdown",
   on_connection_reset |-> "close", on_disconnected |-> "return",
   on_connection_failed |-> "throw", on_readable_oob |-> "throw",
   on_connection_complete |-> "delete"]

Goes ==
  /\ at' = Entry[IF stack' = <<>> THEN "none" ELSE stack'[Len(stack')].run]
  /\ UNCHANGED <<bytes_read, thrown, client, sent, echoed>>

----------------------------------------------------------------------------
(* The callbacks                                                           *)

\* mutant: read_data returns without writing when the buffer is not full
AfterReadOnlyIfFull(held) == IF held = BufferSize THEN "write_data" ELSE "return"

\* The end of read_data's loop, with held units in the buffer.
AfterRead(held) == IF held > 0 THEN "write_data" ELSE "return"

\* write_data calls read_data, which skips its loop if the buffer is full.
AfterWrite(held) == IF held = BufferSize THEN AfterRead(held) ELSE "read_data"

\* mutant: the buffer's size is taken for the space that is left
ReadDataPastBuffer ==
  /\ at = "read_data"
  /\ ReadSome
  /\ bytes_read' = bytes_read + net.inbox - net'.inbox
  /\ at' = IF bytes_read' >= BufferSize THEN AfterRead(bytes_read') ELSE at
  /\ UNCHANGED <<thrown, client, sent, echoed>>

\* read() returns data; the loop ends when the buffer is full.
ReadData ==
  /\ at = "read_data"
  /\ ReadSome
  /\ bytes_read' = bytes_read + net.inbox - net'.inbox
  /\ bytes_read' <= BufferSize
  /\ at' = IF bytes_read' = BufferSize THEN AfterRead(bytes_read') ELSE at
  /\ UNCHANGED <<thrown, client, sent, echoed>>

\* read() returns 0.
ReadFindsNothing ==
  /\ at = "read_data"
  /\ ReadNothing
  /\ at' = AfterRead(bytes_read)
  /\ UNCHANGED <<bytes_read, thrown, client, sent, echoed>>

\* write() takes everything.
WriteData ==
  /\ at = "write_data"
  /\ \/ WriteAll
     \/ Connected /\ net.link = "up" /\ net.room /\ UNCHANGED vars
  /\ bytes_read' = 0
  /\ echoed' = echoed + bytes_read
  /\ at' = AfterWrite(0)
  /\ UNCHANGED <<thrown, client, sent>>

\* write() takes the part of it for which there is room: nothing if the send
\* buffer is full or the connection has been reset.
WriteFallsShort ==
  /\ at = "write_data"
  /\ WriteSome
  /\ \E written \in 0..bytes_read - 1 :
       /\ written > 0 <=> (net.room /\ net.link = "up")
       /\ bytes_read' = bytes_read - written
       /\ echoed' = echoed + written
  /\ at' = AfterWrite(bytes_read')
  /\ UNCHANGED <<thrown, client, sent>>

\* on_client_close: shutdown() does nothing to a closed socket, and close()
\* neither.
ShutDown ==
  /\ at = "shutdown"
  /\ IF s = "invalid" \/ bytes_read # 0 THEN at' = "return" /\ UNCHANGED vars
     ELSE Shutdown /\ shut' = {"receive", "send"} /\ at' = "close"
  /\ UNCHANGED <<bytes_read, thrown, client, sent, echoed>>

\* shutdown() fails if the connection has been reset meanwhile.
ShutDownFails ==
  /\ at = "shutdown" /\ s = "open" /\ net.link = "reset"
  /\ at' = "throw"
  /\ UNCHANGED <<vars, bytes_read, thrown, client, sent, echoed>>

CloseConnection ==
  /\ at = "close"
  /\ Close
  /\ at' = "return"
  /\ UNCHANGED <<bytes_read, thrown, client, sent, echoed>>

\* on_connection_complete: delete this
DeleteThis ==
  /\ at = "delete"
  /\ Delete
  /\ at' = "return"
  /\ UNCHANGED <<bytes_read, thrown, client, sent, echoed>>

----------------------------------------------------------------------------
(* The server's thread                                                     *)

\* echo_server::on_incoming_connections has created this connection.
AcceptConnection == stack = <<>> /\ Accepted /\ Goes

TakePacket == ~thrown /\ Dispatch /\ Goes

HandleOn ==
  at \in {"none", "return"} /\ (NextCallback \/ Handled \/ Return) /\ Goes

\* The exception leaves handle_events and main's loop, and nobody deletes
\* the connection.
ServerEnds ==
  /\ at = "throw" /\ Throw
  /\ at' = "none" /\ thrown' = TRUE
  /\ UNCHANGED <<bytes_read, client, sent, echoed>>

ThreadStep ==
  \/ AcceptConnection \/ TakePacket \/ HandleOn \/ ServerEnds
  \/ ReadData \/ ReadFindsNothing \/ WriteData \/ WriteFallsShort
  \/ ShutDown \/ ShutDownFails \/ CloseConnection \/ DeleteThis

----------------------------------------------------------------------------
(* The client (external)                                                   *)

ClientSends ==
  /\ sent < MaxSent
  /\ net.link = "up" /\ ~net.fin /\ net.inbox < MaxInbox
  /\ Network([net EXCEPT !.inbox = @ + 1])
  /\ sent' = sent + 1
  /\ UNCHANGED <<at, bytes_read, thrown, client, echoed>>

ClientSendsUrgent ==
  /\ net.link = "up" /\ ~net.fin /\ ~net.urgent
  /\ Network([net EXCEPT !.urgent = TRUE])
  /\ UNCHANGED connection

ClientShutsDown == PeerShutsDown /\ UNCHANGED connection
ClientTakesEcho == PeerReads /\ UNCHANGED connection
ClientAborts == client = "any" /\ PeerAborts /\ UNCHANGED connection

ClientStep ==
  ClientSends \/ ClientSendsUrgent \/ ClientShutsDown \/ ClientTakesEcho \/ ClientAborts

----------------------------------------------------------------------------

ConnectionInit ==
  /\ Init /\ net.link = "up"
  /\ at = "none" /\ bytes_read = 0 /\ thrown = FALSE
  /\ client \in {"reads", "any"}
  /\ sent = 0 /\ echoed = 0

ConnectionNext == ThreadStep \/ ClientStep

\* The server's thread always runs, and so does a client that reads.
ConnectionSpec ==
  /\ ConnectionInit /\ [][ConnectionNext]_connectionVars
  /\ WF_connectionVars(ThreadStep)
  /\ WF_connectionVars(client = "reads" /\ ClientTakesEcho)

----------------------------------------------------------------------------

\* The state has the shape of the code's variables (echo_server.cpp:221-225).
ConnectionTypeOK ==
  /\ TypeOK
  /\ at \in {"none", "read_data", "write_data", "shutdown", "close", "delete",
             "throw", "return"}
  /\ bytes_read \in 0..BufferSize
  /\ thrown \in BOOLEAN /\ client \in {"reads", "any"}
  /\ sent \in 0..MaxSent /\ echoed \in 0..MaxSent

\* What the client has sent is echoed, in the buffer, or still unread: when
\* the server closes the connection after the client has, all of it has been
\* echoed, although on_client_close closes at once and what is still to be
\* read or written then would be lost (echo_server.cpp:187-195).
EchoesEverything ==
  (s = "invalid" \/ at = "close") /\ calls["on_connection_reset"] = 0 =>
    echoed = sent

\* The connection frees itself once a client that reads has closed its side,
\* unless an exception has ended the server (tcp_socket.cpp:403).
ConnectionEnds ==
  (client = "reads" /\ net.link = "up" /\ net.fin) ~> (~alive \/ thrown)

\* Everything that a client that reads sends is echoed
\* (echo_server.cpp:71-99, 110-135).
AllEchoed ==
  (client = "reads" /\ echoed < sent /\ net.link = "up") ~> (echoed = sent \/ thrown)

============================================================================
