---------------------------- MODULE DirectSocket ----------------------------
(***************************************************************************)
(* socket_without_device_afd/: a tcp_socket that polls through its own     *)
(* base handle, with the completion port, the driver, the peer and the     *)
(* most general application.  It differs from TcpSocket in that it always  *)
(* has a poll for everything it has not been told of yet, that its polls   *)
(* are exclusive, that a poll which completes at once queues no packet and *)
(* is handled inside the call that made it, and that the end of a          *)
(* connection is announced to whoever owns the socket.                     *)
(*                                                                         *)
(* A state is a point between two statements of the program's one thread   *)
(* at which it calls out or waits: stack = <<>> outside handle_events,     *)
(* run = "none" inside handle_events before its first callback, otherwise  *)
(* inside the callback run.  A call that only throws is a stuttering step. *)
(***************************************************************************)
EXTENDS AfdPoll, Sequences

CONSTANTS
  MaxPackets,        \* polls that may be outstanding at a time (a bound)
  MaxInbox           \* units of received data the driver buffers (a bound)

ASSUME DirectAssumption == MaxPackets \in Nat \ {0} /\ MaxInbox \in Nat \ {0}

VARIABLES
  s,                 \* "open", or "invalid" for INVALID_SOCKET
  connection_state,
  events,            \* tcp_socket::events
  handling_events,
  net,               \* the driver's view of the socket
  poll,              \* what the pending poll asks for, {} if none is pending
  packets,           \* packets queued on the completion port
  out,               \* pollInfoOut: its Events, {} while NumberOfHandles is 0
  shut,              \* the directions the application has shut down
  alive,             \* the tcp_socket has not been deleted
  orphaned,          \* history: it was deleted although a packet that points to
                     \* it was queued or pending
  stack,             \* the handle_events calls in progress, innermost last
  calls,             \* history: how often each milestone ran, up to 2
  strayed,           \* history: once connecting, the application has used the
                     \* socket outside its callbacks, or deleted it before it
                     \* was told that the connection is complete
  threw              \* history: a callback has left by an exception

socket == <<s, connection_state, events, handling_events>>
kernel == <<net, poll, packets, out>>
history == <<calls, strayed, threw>>
vars == <<socket, kernel, shut, alive, orphaned, stack, history>>

ConnectionStates == {"created", "pending_connect", "pending_accept",
                     "connected", "client_closed", "disconnected"}
Pending == {"pending_connect", "pending_accept"}

\* mutant: the local close is not asked for
AllEventsExceptClose == Events \ {"LOCAL_CLOSE"}

AllEvents == Events

Callbacks == {"on_connection_failed", "on_connected", "on_writable",
              "on_readable", "on_readable_oob", "on_connection_reset",
              "on_client_close", "on_disconnected"}
Milestones == {"on_connection_failed", "on_connected", "on_connection_reset",
               "on_client_close", "on_disconnected", "on_connection_complete"}

\* The polls of which a packet is queued or may still be.
Outstanding == packets + (IF poll = {} THEN 0 ELSE 1)

----------------------------------------------------------------------------
(* tcp_socket::handle_events: what it will call, in which order, and what  *)
(* it changes before each call                                             *)

\* mutant: SEND is looked at only while connecting
RaisedWithoutWritable(state, eventsToHandle) ==
  {c \in Callbacks \ {"on_writable"} :
     CASE c = "on_connection_failed" ->
            state \in Pending /\ "CONNECT_FAIL" \in eventsToHandle
       [] c = "on_connected" ->
            /\ state \in Pending
            /\ "CONNECT" \in eventsToHandle /\ "CONNECT_FAIL" \notin eventsToHandle
       [] c = "on_readable" -> "RECEIVE" \in eventsToHandle
       [] c = "on_readable_oob" -> "RECEIVE_EXPEDITED" \in eventsToHandle
       [] c = "on_connection_reset" -> "ABORT" \in eventsToHandle
       [] c = "on_client_close" -> "DISCONNECT" \in eventsToHandle
       [] c = "on_disconnected" -> "LOCAL_CLOSE" \in eventsToHandle}

Raised(state, eventsToHandle) ==
  {c \in Callbacks :
     CASE c = "on_connection_failed" ->
            state \in Pending /\ "CONNECT_FAIL" \in eventsToHandle
       [] c = "on_connected" ->
            /\ state \in Pending
            /\ "CONNECT" \in eventsToHandle /\ "CONNECT_FAIL" \notin eventsToHandle
       [] c = "on_writable" -> state \notin Pending /\ "SEND" \in eventsToHandle
       [] c = "on_readable" -> "RECEIVE" \in eventsToHandle
       [] c = "on_readable_oob" -> "RECEIVE_EXPEDITED" \in eventsToHandle
       [] c = "on_connection_reset" -> "ABORT" \in eventsToHandle
       [] c = "on_client_close" -> "DISCONNECT" \in eventsToHandle
       [] c = "on_disconnected" -> "LOCAL_CLOSE" \in eventsToHandle}

\* mutant: the connection is reported last
RankConnectedLast ==
  [on_connection_failed |-> 6, on_connected |-> 6, on_writable |-> 0,
   on_readable |-> 1, on_readable_oob |-> 2, on_connection_reset |-> 3,
   on_client_close |-> 4, on_disconnected |-> 5]

\* mutant: the peer's close is reported before the data that precedes it
RankCloseBeforeData ==
  [on_connection_failed |-> 0, on_connected |-> 0, on_writable |-> 0,
   on_client_close |-> 1, on_readable |-> 2, on_readable_oob |-> 3,
   on_connection_reset |-> 4, on_disconnected |-> 5]

Rank ==
  [on_connection_failed |-> 0, on_connected |-> 0, on_writable |-> 0,
   on_readable |-> 1, on_readable_oob |-> 2, on_connection_reset |-> 3,
   on_client_close |-> 4, on_disconnected |-> 5]

First(todo) == CHOOSE c \in todo : \A d \in todo : Rank[c] <= Rank[d]

\* The bits a callback's branch clears; the others stay polled for.
Cleared ==
  [on_connection_failed |-> {"CONNECT_FAIL"}, on_connected |-> {"CONNECT", "SEND"},
   on_writable |-> {"SEND"}, on_readable |-> {"RECEIVE"},
   on_readable_oob |-> {"RECEIVE_EXPEDITED"}, on_connection_reset |-> {"ABORT"},
   on_client_close |-> {"DISCONNECT"}, on_disconnected |-> {"LOCAL_CLOSE"}]

StateFor(c, state) ==
  CASE c = "on_connected" -> "connected"
    [] c \in {"on_connection_failed", "on_connection_reset", "on_disconnected"} ->
         "disconnected"
    [] OTHER -> state

\* on_client_close is called before the state says so.
StateAfter(c, state) == IF c = "on_client_close" THEN "client_closed" ELSE state

\* A handle_events call: by a poll's completion or by close().
Frame(by, run, todo) == [by |-> by, run |-> run, todo |-> todo]

Count(c) ==
  calls' = [m \in Milestones |-> calls[m] + IF m = c /\ calls[m] < 2 THEN 1 ELSE 0]

----------------------------------------------------------------------------
(* The driver (external)                                                   *)

\* The socket's condition becomes e: if the pending poll asks for something
\* that now holds, it completes and its packet is queued.
Settle(e) ==
  /\ net' = e
  /\ IF poll \cap Ready(e) = {} THEN UNCHANGED <<poll, packets, out>>
     ELSE /\ out' = poll \cap Ready(e)
          /\ poll' = {}
          /\ packets' = packets + 1

----------------------------------------------------------------------------
(* tcp_socket::poll                                                        *)

\* mutant: FILE_SKIP_COMPLETION_PORT_ON_SUCCESS is not set
SubmitQueuesAlways(interest, e, state, callers) ==
  LET ready == interest \cap Ready(e) IN
  /\ net' = e
  /\ packets' = Outstanding + (IF ready = {} THEN 0 ELSE 1)
  /\ out' = ready
  /\ poll' = IF ready = {} THEN interest ELSE {}
  /\ stack' = IF ready = {} THEN callers
              ELSE Append(callers, Frame("poll", "none", Raised(state, ready)))
  /\ handling_events' = (ready # {})

\* Clear the output, then submit a poll for interest on a socket in the
\* condition e.  It ends a pending poll with a report of no handles, whose
\* packet is queued.  If it completes at once there is no packet and
\* handle_events begins in the caller, the state being state.
Submit(interest, e, state, callers) ==
  LET ready == interest \cap Ready(e) IN
  /\ net' = e
  /\ packets' = Outstanding
  /\ out' = ready
  /\ poll' = IF ready = {} THEN interest ELSE {}
  /\ stack' = IF ready = {} THEN callers
              ELSE Append(callers, Frame("poll", "none", Raised(state, ready)))
  /\ handling_events' = (ready # {})

----------------------------------------------------------------------------
(* The application's calls                                                 *)

Top == stack[Len(stack)]
Callers == SubSeq(stack, 1, Len(stack) - 1)
InCallback == stack # <<>> /\ Top.run # "none"

\* Application code makes a call, from a callback or from elsewhere.
Calls ==
  /\ alive /\ (InCallback \/ stack = <<>>)
  /\ strayed' = (strayed \/ (stack = <<>> /\ connection_state # "created"))

Connected == Calls /\ connection_state = "connected" /\ s = "open"

\* connect() and accepted() end alike.
Begin(state, e) ==
  /\ connection_state = "created"
  /\ connection_state' = state
  /\ events' = AllEvents
  /\ Submit(AllEvents, e, state, stack)
  /\ UNCHANGED <<s, shut, alive, orphaned, calls, threw>>

\* ::connect may report that the connection is already established.
Connect ==
  /\ Calls /\ net.link = "idle"
  /\ \E link \in {"connecting", "up"} :
        Begin("pending_connect", [net EXCEPT !.link = link])

Accepted == Calls /\ Begin("pending_accept", net)

\* mutant: it polls inside handle_events too
WantWhileHandling(event, e) ==
  /\ events' = events \cup {event}
  /\ IF event \in events
     THEN Settle(e) /\ UNCHANGED <<stack, handling_events>>
     ELSE /\ Outstanding < MaxPackets
          /\ Submit(events', e, connection_state, stack)
  /\ UNCHANGED <<s, connection_state, shut, alive, orphaned, calls, threw>>

\* mutant: the poll is submitted before events is updated
WantBeforeUpdate(event, e) ==
  /\ events' = events \cup {event}
  /\ IF event \in events \/ handling_events
     THEN Settle(e) /\ UNCHANGED <<stack, handling_events>>
     ELSE /\ Outstanding < MaxPackets
          /\ Submit(events, e, connection_state, stack)
  /\ UNCHANGED <<s, connection_state, shut, alive, orphaned, calls, threw>>

\* events |= AFD_POLL_...; if (!handling_events) poll(events).  The bound
\* on outstanding polls applies to the polls the application causes.
Want(event, e) ==
  /\ events' = events \cup {event}
  /\ IF event \in events \/ handling_events
     THEN Settle(e) /\ UNCHANGED <<stack, handling_events>>
     ELSE /\ Outstanding < MaxPackets
          /\ Submit(events', e, connection_state, stack)
  /\ UNCHANGED <<s, connection_state, shut, alive, orphaned, calls, threw>>

\* mutant: more is read than was received
ReadTooMuch ==
  /\ Connected
  /\ net.link = "up" /\ "receive" \notin shut
  /\ \E n \in 1..net.inbox + 1 : net' = [net EXCEPT !.inbox = @ - n]
  /\ UNCHANGED <<socket, poll, packets, out, shut, alive, orphaned, stack, calls, threw>>

\* recv returns data
ReadSome ==
  /\ Connected
  /\ net.link = "up" /\ "receive" \notin shut
  /\ \E n \in 1..net.inbox : net' = [net EXCEPT !.inbox = @ - n]
  /\ UNCHANGED <<socket, poll, packets, out, shut, alive, orphaned, stack, calls, threw>>

\* recv would block, returns 0 after the peer's FIN, or reports a reset
ReadNothing ==
  /\ Connected
  /\ net.link = "reset" \/ (net.inbox = 0 /\ "receive" \notin shut)
  /\ Want("RECEIVE", net)

\* send takes all of the data and fills the send buffer
WriteAll ==
  /\ Connected
  /\ net.link = "up" /\ net.room /\ "send" \notin shut
  /\ Settle([net EXCEPT !.room = FALSE])
  /\ UNCHANGED <<socket, shut, alive, orphaned, stack, calls, threw>>

\* send takes part of the data or none, or reports a reset
WriteSome ==
  /\ Connected
  /\ \/ net.link = "reset" /\ Want("SEND", net)
     \/ /\ net.link = "up" /\ "send" \notin shut
        /\ Want("SEND", [net EXCEPT !.room = FALSE])

Shutdown ==
  /\ Calls /\ s = "open"
  /\ connection_state \in {"connected", "client_closed"}
  /\ net.link = "up"
  /\ \E how \in {{"receive"}, {"send"}, {"receive", "send"}} : shut' = shut \cup how
  /\ UNCHANGED <<socket, kernel, alive, orphaned, stack, calls, threw>>

Close ==
  /\ Calls
  /\ s = "open"
  /\ s' = "invalid"
  /\ Settle(ClosedEndpoint)
  /\ stack' = IF events # {} THEN stack
              ELSE Append(stack, Frame("close", "none", {"on_disconnected"}))
  /\ UNCHANGED <<connection_state, events, handling_events, shut, alive, orphaned, calls, threw>>

Announcing == stack # <<>> /\ Top.run = "on_connection_complete"

\* ~tcp_socket, from outside handle_events or from on_connection_complete,
\* after which handle_events touches the object no more.  Nothing waits for
\* the packets that point to the object.
Delete ==
  /\ Calls /\ (Announcing \/ stack = <<>>)
  /\ alive' = FALSE
  /\ orphaned' = (Outstanding > 0)
  /\ s' = "invalid"
  /\ Settle(ClosedEndpoint)
  /\ UNCHANGED <<connection_state, events, handling_events, shut, stack, calls, threw>>

----------------------------------------------------------------------------
(* The thread                                                              *)

\* The main loop takes a packet and calls handle_events() of the object that
\* its completion key points to, which looks at the output as it is by now.
\* It does not ask whether the object still exists: if it does not, the call
\* reads freed memory, which may hold what it held or a count of no handles.
Dispatch ==
  /\ stack = <<>>
  /\ packets > 0
  /\ packets' = packets - 1
  /\ \/ /\ out # {}
        /\ stack' = <<Frame("poll", "none", Raised(connection_state, out))>>
        /\ handling_events' = TRUE
     \/ /\ out = {} \/ ~alive
        /\ UNCHANGED <<stack, handling_events>>
  /\ UNCHANGED <<s, connection_state, events, net, poll, out, shut, alive, orphaned, history>>

\* handle_events makes its next callback, the one before having returned.
NextCallback ==
  /\ stack # <<>> /\ Top.todo # {}
  /\ LET c == First(Top.todo) IN
     /\ connection_state' = StateFor(c, StateAfter(Top.run, connection_state))
     /\ events' = events \ Cleared[c]
     /\ stack' = Append(Callers, Frame(Top.by, c, Top.todo \ {c}))
     /\ Count(c)
  /\ UNCHANGED <<s, handling_events, kernel, shut, alive, orphaned, strayed, threw>>

\* mutant: the socket does not poll again
HandledWithoutPolling ==
  /\ stack # <<>> /\ Top.todo = {}
  /\ Top.by = "poll" /\ Top.run # "on_connection_complete"
  /\ LET state == StateAfter(Top.run, connection_state) IN
     /\ connection_state' = state
     /\ handling_events' = FALSE
     /\ IF s = "open" THEN stack' = Callers /\ UNCHANGED calls
        ELSE /\ stack' = Append(Callers, Frame("poll", "on_connection_complete", {}))
             /\ Count("on_connection_complete")
     /\ UNCHANGED kernel
  /\ UNCHANGED <<s, events, shut, alive, orphaned, strayed, threw>>

\* There are no more callbacks: poll for what is wanted by now, or announce
\* that the connection is complete.
Handled ==
  /\ stack # <<>> /\ Top.todo = {}
  /\ Top.by = "poll" /\ Top.run # "on_connection_complete"
  /\ LET state == StateAfter(Top.run, connection_state) IN
     /\ connection_state' = state
     /\ IF s = "open"
        THEN /\ IF events # {} THEN Submit(events, net, state, Callers)
                ELSE /\ stack' = Callers /\ handling_events' = FALSE
                     /\ UNCHANGED kernel
             /\ UNCHANGED calls
        ELSE /\ stack' = Append(Callers, Frame("poll", "on_connection_complete", {}))
             /\ handling_events' = FALSE
             /\ Count("on_connection_complete")
             /\ UNCHANGED kernel
  /\ UNCHANGED <<s, events, shut, alive, orphaned, strayed, threw>>

\* close()'s own report, or the announcement, returns.
Return ==
  /\ stack # <<>> /\ Top.todo = {}
  /\ Top.by = "close" \/ Top.run = "on_connection_complete"
  /\ stack' = Callers
  /\ UNCHANGED <<socket, kernel, shut, alive, orphaned, history>>

\* A callback throws, and handle_events with it.
Throw ==
  /\ InCallback
  /\ stack' = Callers
  /\ threw' = TRUE
  /\ UNCHANGED <<socket, kernel, shut, alive, orphaned, calls, strayed>>

----------------------------------------------------------------------------
(* The peer and the network (external)                                     *)

Network(e) ==
  /\ Settle(e)
  /\ UNCHANGED <<socket, shut, alive, orphaned, stack, history>>

PeerAccepts == net.link = "connecting" /\ Network([net EXCEPT !.link = "up"])
PeerRefuses == net.link = "connecting" /\ Network([net EXCEPT !.link = "refused"])
PeerSends ==
  /\ net.link = "up" /\ ~net.fin
  /\ \/ net.inbox < MaxInbox /\ Network([net EXCEPT !.inbox = @ + 1])
     \/ ~net.urgent /\ Network([net EXCEPT !.urgent = TRUE])
PeerShutsDown == net.link = "up" /\ ~net.fin /\ Network([net EXCEPT !.fin = TRUE])
PeerReads == net.link = "up" /\ ~net.room /\ Network([net EXCEPT !.room = TRUE])
PeerAborts == net.link = "up" /\ Network(ResetEndpoint(net))

----------------------------------------------------------------------------

\* The state either constructor leaves: around a new socket or around one
\* that accept() returned.
Init ==
  /\ s = "open"
  /\ connection_state = "created"
  /\ events = {}
  /\ handling_events = FALSE
  /\ net \in {NewEndpoint, [NewEndpoint EXCEPT !.link = "up"]}
  /\ poll = {}
  /\ packets = 0
  /\ out = {}
  /\ shut = {}
  /\ alive = TRUE
  /\ orphaned = FALSE
  /\ stack = <<>>
  /\ calls = [m \in Milestones |-> 0]
  /\ strayed = FALSE
  /\ threw = FALSE

Application ==
  \/ Connect \/ Accepted \/ ReadSome \/ ReadNothing \/ WriteAll \/ WriteSome
  \/ Shutdown \/ Close \/ Delete

Thread == Dispatch \/ NextCallback \/ Handled \/ Return \/ Throw

Peer ==
  \/ PeerAccepts \/ PeerRefuses \/ PeerSends \/ PeerShutsDown \/ PeerReads
  \/ PeerAborts

Next == Application \/ Thread \/ Peer

Spec == Init /\ [][Next]_vars

\* The main loop keeps taking packets off the port, and callbacks return.
Fairness == WF_vars(Dispatch) /\ WF_vars(NextCallback \/ Handled \/ Return)

FairSpec == Spec /\ Fairness

----------------------------------------------------------------------------
(* Properties of every application                                         *)

Frames == [by : {"poll", "close"}, todo : SUBSET Callbacks,
           run : Callbacks \cup {"none", "on_connection_complete"}]

\* The state has the shape of the code's variables (tcp_socket.h:116-147).
TypeOK ==
  /\ s \in {"open", "invalid"}
  /\ connection_state \in ConnectionStates
  /\ events \in SUBSET Events
  /\ handling_events \in BOOLEAN
  /\ net \in Endpoints(MaxInbox)
  /\ poll \in SUBSET Events
  /\ packets \in 0..MaxPackets
  /\ out \in SUBSET Events
  /\ shut \in SUBSET {"receive", "send"}
  /\ alive \in BOOLEAN /\ orphaned \in BOOLEAN
  /\ stack \in Seq(Frames)
  /\ calls \in [Milestones -> 0..2]
  /\ strayed \in BOOLEAN /\ threw \in BOOLEAN

\* Callbacks never nest, although a poll may complete inside the read() or
\* write() of a callback and close() may call back itself
\* (tcp_socket.cpp:200, 324-326).
NeverNested == Len(stack) \in 0..1

\* Unless a callback has thrown, which leaves handling_events set for good:
\* when the thread is back in its loop, the pending poll asks for everything
\* the open socket wants to be told of, or a packet is queued whose
\* dispatch tells it something (tcp_socket.cpp:274: "if we block, poll for
\* readability and return 0").
NoForgottenWait ==
  ~threw /\ alive /\ s = "open" /\ stack = <<>> /\ events # {} =>
    events \subseteq poll \/ (packets > 0 /\ out # {})

(* What it implements                                                      *)

\* What the application has been told of the connection: on_client_close
\* ends it although the state says so only later.
Phase ==
  CASE connection_state = "created" -> "new"
    [] connection_state \in Pending -> "connecting"
    [] connection_state = "connected" /\ calls["on_client_close"] = 0 -> "open"
    [] OTHER -> "ended"

Promise ==
  INSTANCE ConnectionEvents WITH
    phase <- Phase, closed <- (s = "invalid"), deleted <- ~alive,
    calling <- IF stack = <<>> \/ Top.run = "none" THEN <<>> ELSE <<Top.run>>

\* The events of a connection are told in the same order as by TcpSocket, its
\* completion only after the close, and nothing any more once the socket is
\* deleted (tcp_socket.h:34-68, tcp_socket.cpp:415-496).  This holds for every
\* application up to the moment at which it deletes the socket although a
\* packet that points to it is still to come: the dispatch of that packet
\* uses the freed object (afd.h:433-470, echo_server.cpp:367-372), and what
\* is called then, if anything, nobody promises.  DeletedSafely says which
\* applications never do that.
TellsInOrder == Promise!Init /\ [][orphaned' \/ Promise!Next]_(Promise!vars)

(* Properties of an application that stays in its callbacks                *)

\* No poll is ever ended by another one, so no packet is ever stale.
OneOutstanding == ~strayed => Outstanding <= 1

\* The socket may be deleted when on_connection_complete says so: no packet
\* that points to it is queued or will be, so that no dispatch uses the freed
\* object (echo_server.cpp:214-219).
DeletedSafely == ~strayed /\ (Announcing \/ ~alive) => Outstanding = 0

(* Liveness, unless a callback throws                                      *)

\* Every connection that is closed, however and whenever, is announced as
\* complete: without that its owner never frees it.
CloseCompletes ==
  (s = "invalid" /\ alive /\ events # {}) ~>
    (~alive \/ calls["on_connection_complete"] > 0 \/ threw)

\* Data that a read has asked for is announced, unless the application reads
\* it meanwhile or the connection ends (tcp_socket.cpp:274); room that a write
\* has asked for likewise (tcp_socket.cpp:216).
Running(c) == stack # <<>> /\ Top.run = c
HasData == alive /\ s = "open" /\ net.link = "up" /\ net.inbox > 0
HasRoom == alive /\ s = "open" /\ net.link = "up" /\ net.room
WaitersWoken ==
  /\ (HasData /\ "RECEIVE" \in events) ~> (~HasData \/ Running("on_readable") \/ threw)
  /\ (HasRoom /\ "SEND" \in events /\ connection_state = "connected") ~>
       (~HasRoom \/ Running("on_writable") \/ threw)

============================================================================
