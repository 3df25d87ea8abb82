----------------------------- MODULE EchoServer -----------------------------
(***************************************************************************)
(* The echo_server programs over ListeningSocket: the application that the *)
(* repository puts on top of a listening socket, in place of the most      *)
(* general one.  Design A's server answers a client and closes the         *)
(* connection inside the accept loop; design B's (direct) gives each       *)
(* client a connection object (the subject of EchoConnection), whose       *)
(* callbacks run inside accepted() or from the same main loop and may      *)
(* throw out of either.                                                    *)
(***************************************************************************)
EXTENDS ListeningSocket

CONSTANT Clients   \* how many clients connect (a bound)

ASSUME ClientsAssumption == Clients \in Nat

VARIABLES
  is_done,
  ended,     \* an exception is on its way to main
  arrived,   \* clients that have connected so far
  answered   \* clients that were sent a reply or given a connection object

serverVars == <<is_done, ended, arrived, answered>>
allVars == <<vars, serverVars>>

Looping == ~is_done /\ ~ended

----------------------------------------------------------------------------
(* main up to its loop: bind and listen                                    *)

Start ==
  /\ stack = <<>> /\ Looping
  /\ Bind \/ (connection_state = "bound" /\ Listen)
  /\ UNCHANGED serverVars

\* The address is in use: ::bind or ::listen fails, and bind() or listen()
\* throws to main.
StartFails ==
  /\ stack = <<>> /\ Looping
  /\ connection_state \in {"created", "bound"}
  /\ ended' = TRUE
  /\ UNCHANGED <<vars, is_done, arrived, answered>>

----------------------------------------------------------------------------
(* The callbacks                                                           *)

InCallback(c) == stack # <<>> /\ Top.run = c

\* accept() returns INVALID_SOCKET
AcceptedAll == net.link # "listening" \/ net.inbox = 0

\* design A: send, shutdown, closesocket
AnswerClient ==
  /\ ~direct
  /\ InCallback("on_incoming_connections")
  /\ Accept
  /\ answered' = answered + 1
  /\ UNCHANGED <<is_done, ended, arrived>>

\* design B: a new connection object, whose accepted() may throw; accept()
\* itself throws, and there is none, if the connection cannot be made not to
\* block
NewConnection ==
  /\ direct
  /\ ~ended
  /\ InCallback("on_incoming_connections")
  /\ Accept
  /\ \/ answered' = answered + 1 /\ ended' \in BOOLEAN
     \/ answered' = answered /\ ended' = TRUE
  /\ UNCHANGED <<is_done, arrived>>

\* The exception leaves handle_events.
Unwind ==
  /\ ended /\ InCallback("on_incoming_connections")
  /\ Throw
  /\ UNCHANGED serverVars

\* on_connection_reset and on_disconnected.  The second is reached only from
\* the destructor's close(), when the program never came to listen.
SocketEnds ==
  /\ InCallback("on_connection_reset") \/ InCallback("on_disconnected")
  /\ ~is_done
  /\ IF InCallback("on_connection_reset") /\ s = "open" THEN Close ELSE UNCHANGED vars
  /\ is_done' = TRUE
  /\ UNCHANGED <<ended, arrived, answered>>

\* The callback on top has run to its end.
CallbackDone ==
  CASE InCallback("on_incoming_connections") -> AcceptedAll /\ ~ended
    [] InCallback("on_connection_reset") \/ InCallback("on_disconnected") -> is_done
    [] OTHER -> TRUE

----------------------------------------------------------------------------
(* The main loop                                                           *)

TakePacket == Looping /\ Dispatch /\ UNCHANGED serverVars

Continue ==
  /\ CallbackDone
  /\ \/ NextCallback /\ UNCHANGED ended
     \/ Handled /\ ended' = (ended \/ threw')
  /\ UNCHANGED <<is_done, arrived, answered>>

\* A packet of one of the connections, whose callback throws; one whose
\* callbacks return does not concern the listening socket.
ConnectionThrows ==
  /\ direct /\ Looping /\ stack = <<>> /\ answered > 0
  /\ ended' = TRUE
  /\ UNCHANGED <<vars, is_done, arrived, answered>>

\* The loop is left: ~echo_server closes the socket.
Shutdown == ~Looping /\ stack = <<>> /\ Close /\ UNCHANGED serverVars

----------------------------------------------------------------------------

Client ==
  /\ arrived < Clients
  /\ ClientConnects
  /\ arrived' = arrived + 1
  /\ UNCHANGED <<is_done, ended, answered>>

Abort == NetworkAborts /\ UNCHANGED serverVars

ServerInit ==
  /\ Init
  /\ is_done = FALSE /\ ended = FALSE
  /\ arrived = 0 /\ answered = 0

ServerNext ==
  \/ Start \/ StartFails \/ AnswerClient \/ NewConnection \/ Unwind \/ SocketEnds
  \/ TakePacket \/ Continue \/ ConnectionThrows \/ Shutdown
  \/ Client \/ Abort

\* The thread is never kept from its next statement.
ServerSpec ==
  /\ ServerInit /\ [][ServerNext]_allVars
  /\ WF_allVars(Start \/ StartFails \/ AnswerClient \/ NewConnection \/ Unwind
                \/ SocketEnds \/ TakePacket \/ Continue)

----------------------------------------------------------------------------

\* Every client that connects is answered, unless the server's socket is
\* reset or, in design B, an exception out of accept() or out of one of its
\* connections ends the program (echo_server.cpp:119; design B's 283-291).
ClientsAnswered ==
  net.inbox > 0 ~> (answered = arrived \/ is_done \/ (direct /\ ended /\ ~threw))

\* A reset of the listening socket ends the program; it does not wait for
\* packets that no poll will send it any more.
EndsOnReset == net.link = "reset" ~> (is_done \/ ended)

\* handle_events of the listening socket never throws by itself, since the
\* server closes the socket only where no poll follows.  An exception comes
\* from bind() and listen(), before the socket listens, or in design B from
\* accepting a client or from a connection, so after one has come
\* (echo_server.cpp:64-72, 114-122; design B's 283-291, 300-308).
Throwing == ~ended /\ ended'
ThrowsWithClients ==
  /\ []~threw
  /\ [][Throwing => connection_state \in {"created", "bound"} \/ (direct /\ arrived > 0)]_allVars

============================================================================
