----------------------------- MODULE TcpSocket -----------------------------
(***************************************************************************)
(* socket/: one tcp_socket on slot 0 of a single_connection_afd_system,    *)
(* the I/O completion port its polls complete to, the driver, the peer,    *)
(* and the most general application: one that may call any method of the   *)
(* socket whenever the program's single thread is in application code,     *)
(* that is between two completions or from inside a callback.              *)
(*                                                                         *)
(* A state is a point at which application code runs (stack # <<>>: inside *)
(* the callback on top of the stack) or the thread waits for a completion  *)
(* (stack = <<>>).  The peer and the network may move at any of these      *)
(* points.  A call that only throws (a failed state check, a socket error) *)
(* changes nothing, so it is a stuttering step.                            *)
(***************************************************************************)
EXTENDS AfdPoll, Sequences

CONSTANTS
  PollIds,         \* poll requests that may be outstanding at a time (a bound)
  MaxInbox,        \* units of received data the driver buffers (a bound)
  OneAtATime,      \* TRUE: the application reads and writes only while no
                   \* earlier read or write is still waiting for its callback
  CallbacksThrow,  \* TRUE: a callback may leave by an exception
  LosesPolls       \* TRUE: the driver may drop the polls of a socket that
                   \* stay pending when another one completes

ASSUME PollIdsAssumption == PollIds # {}
ASSUME MaxInboxAssumption == MaxInbox \in Nat \ {0}
ASSUME ModeAssumption ==
  OneAtATime \in BOOLEAN /\ CallbacksThrow \in BOOLEAN /\ LosesPolls \in BOOLEAN

VARIABLES
  s,                 \* the SOCKET: "open", or "invalid" for INVALID_SOCKET
  connection_state,
  events,            \* tcp_socket::events, what the last poll asked for
  net,               \* the driver's view of the connection
  shut,              \* the directions the application has shut down
  polls,             \* poll request -> events asked for, {} if not pending
  iocp,              \* completed polls whose packets are still queued
  out,               \* Handles[0].Events of the one shared pPollInfoOut
  registered,        \* ppEvents[0] refers to the socket
  alive,             \* the tcp_socket has not been destroyed
  stack,             \* the handle_events calls in progress, innermost last
  calls,             \* history: how often each milestone ran, up to 2
  raced              \* history: close() relied on a poll that was not pending

kernel == <<net, polls, iocp, out>>
vars == <<s, connection_state, events, kernel, shut, registered, alive,
          stack, calls, raced>>

ConnectionStates == {"created", "pending_connect", "connected", "disconnected"}

Callbacks == {"on_connection_failed", "on_connected", "on_writable",
              "on_readable", "on_readable_oob", "on_connection_reset",
              "on_client_close", "on_disconnected"}

\* The callbacks that report a change of the connection's life.
Milestones == {"on_connection_failed", "on_connected", "on_connection_reset",
               "on_client_close", "on_disconnected"}

Outstanding == {i \in PollIds : polls[i] # {} \/ i \in iocp}

----------------------------------------------------------------------------
(* The driver and the completion port (external).                          *)

\* The socket's condition becomes e, with the poll requests pend and the
\* output buffer o.  Every poll e satisfies completes: it queues its packet
\* and writes its result to the output buffer that all the polls share.  A
\* poll that stays pending then may be one that never completes
\* (understand.cpp:1081-1112: "looks like the polling is set up per socket").
Settle(e, pend, o) ==
  LET done == Completing(pend, Ready(e)) IN
  /\ net' = e
  /\ iocp' = iocp \cup done
  /\ \E dropped \in IF LosesPolls /\ done # {} THEN SUBSET PollIds ELSE {{}} :
        polls' = [i \in PollIds |-> IF i \in done \cup dropped THEN {} ELSE pend[i]]
  /\ IF done = {} THEN out' = o
     ELSE \E i \in done : out' = pend[i] \cap Ready(e)

----------------------------------------------------------------------------
(* afd_handle::poll and single_connection_afd_system::poll                 *)

\* Clear the output buffer, then submit a poll for interest.  The request
\* identifiers bound how many polls can be outstanding.
Poll(interest, e) ==
  \E i \in PollIds \ Outstanding :
     Settle(e, [polls EXCEPT ![i] = interest], {})

----------------------------------------------------------------------------
(* tcp_socket::handle_events                                               *)

\* The callback a condition raises once the connection is established.
CallbackFor ==
  [RECEIVE |-> "on_readable", RECEIVE_EXPEDITED |-> "on_readable_oob",
   ABORT |-> "on_connection_reset", DISCONNECT |-> "on_client_close",
   LOCAL_CLOSE |-> "on_disconnected"]

\* mutant: SEND is looked at only while connecting
RaisedWithoutWritable(state, eventsToHandle) ==
  {CallbackFor[e] : e \in eventsToHandle \cap DOMAIN CallbackFor}
  \cup IF state # "pending_connect" THEN {}
       ELSE IF "CONNECT_FAIL" \in eventsToHandle THEN {"on_connection_failed"}
       ELSE If("SEND" \in eventsToHandle, "on_connected")

\* The callbacks one handle_events call makes: both its arguments and the
\* state test at its start are fixed before the first of them runs.
Raised(state, eventsToHandle) ==
  {CallbackFor[e] : e \in eventsToHandle \cap DOMAIN CallbackFor}
  \cup IF state # "pending_connect" THEN If("SEND" \in eventsToHandle, "on_writable")
       ELSE IF "CONNECT_FAIL" \in eventsToHandle THEN {"on_connection_failed"}
       ELSE If("SEND" \in eventsToHandle, "on_connected")

\* The order of the tests in handle_events.
Rank ==
  [on_connection_failed |-> 0, on_connected |-> 0, on_writable |-> 0,
   on_readable |-> 1, on_readable_oob |-> 2, on_connection_reset |-> 3,
   on_client_close |-> 4, on_disconnected |-> 5]

First(todo) == CHOOSE c \in todo : \A d \in todo : Rank[c] <= Rank[d]

\* The assignment to connection_state that precedes each callback.
StateFor(c, state) ==
  CASE c = "on_connected" -> "connected"
    [] c \in {"on_connection_failed", "on_connection_reset",
              "on_client_close", "on_disconnected"} -> "disconnected"
    [] OTHER -> state

\* Call the first callback of todo; the rest of todo waits for its return.
Invoke(todo, callers) ==
  LET c == First(todo) IN
  /\ connection_state' = StateFor(c, connection_state)
  /\ stack' = Append(callers, [run |-> c, todo |-> todo \ {c}])
  /\ calls' = [m \in Milestones |->
                 calls[m] + IF m = c /\ calls[m] < 2 THEN 1 ELSE 0]

\* mutant: events is not reset
HandleEventsKeepingEvents(eventsToHandle) ==
  LET todo == Raised(connection_state, eventsToHandle) IN
  /\ events' = events
  /\ IF todo # {} THEN Invoke(todo, stack)
     ELSE UNCHANGED <<connection_state, stack, calls>>

HandleEvents(eventsToHandle) ==
  LET todo == Raised(connection_state, eventsToHandle) IN
  /\ events' = {}
  /\ IF todo # {} THEN Invoke(todo, stack)
     ELSE UNCHANGED <<connection_state, stack, calls>>

----------------------------------------------------------------------------
(* The application's calls                                                 *)

\* Application code is running: the thread is between two completions or
\* inside a callback, and the socket object exists.
CanCall == alive

\* The application's discipline about overlapping waits.
CanWait == OneAtATime => Outstanding = {}

Connected == CanCall /\ connection_state = "connected" /\ s = "open"

ConnectEvents == {"SEND", "DISCONNECT", "ABORT", "LOCAL_CLOSE", "CONNECT_FAIL"}
\* mutant: a waiting read does not ask for the local close
ReadEventsWithoutClose == {"RECEIVE", "DISCONNECT", "ABORT"}
ReadEvents == {"RECEIVE", "DISCONNECT", "ABORT", "LOCAL_CLOSE"}
WriteEvents == {"SEND", "DISCONNECT", "ABORT", "LOCAL_CLOSE"}

\* mutant: the poll is submitted before events is updated
PollForBeforeUpdate(more, e) ==
  /\ events' = events \cup more
  /\ Poll(events, e)
  /\ UNCHANGED <<s, connection_state, shut, registered, alive, stack, calls,
                 raced>>

\* events |= more; afd.poll(events)
PollFor(more, e) ==
  /\ events' = events \cup more
  /\ Poll(events', e)
  /\ UNCHANGED <<s, connection_state, shut, registered, alive, stack, calls,
                 raced>>

\* mutant: the state check is missing
ConnectInAnyState ==
  /\ CanCall
  /\ s = "open"
  /\ connection_state' = "pending_connect"
  /\ events' = ConnectEvents
  /\ \E link \in {"connecting", "up"} :
        Poll(ConnectEvents, [net EXCEPT !.link = link])
  /\ UNCHANGED <<s, shut, registered, alive, stack, calls, raced>>

\* ::connect may report that the connection is already established.
Connect ==
  /\ CanCall
  /\ connection_state = "created"
  /\ s = "open"
  /\ connection_state' = "pending_connect"
  /\ events' = ConnectEvents
  /\ \E link \in {"connecting", "up"} :
        Poll(ConnectEvents, [net EXCEPT !.link = link])
  /\ UNCHANGED <<s, shut, registered, alive, stack, calls, raced>>

\* mutant: more is read than was received
ReadTooMuch ==
  /\ Connected /\ CanWait
  /\ net.link = "up" /\ "receive" \notin shut
  /\ \E n \in 1..net.inbox + 1 : net' = [net EXCEPT !.inbox = @ - n]
  /\ UNCHANGED <<s, connection_state, events, polls, iocp, out, shut,
                 registered, alive, stack, calls, raced>>

\* recv returns data
ReadSome ==
  /\ Connected /\ CanWait
  /\ net.link = "up" /\ "receive" \notin shut
  /\ \E n \in 1..net.inbox : net' = [net EXCEPT !.inbox = @ - n]
  /\ UNCHANGED <<s, connection_state, events, polls, iocp, out, shut,
                 registered, alive, stack, calls, raced>>

\* recv would block, returns 0 after the peer's FIN, or reports a reset:
\* all three end in bytes == 0 and a poll
ReadNothing ==
  /\ Connected /\ CanWait
  /\ net.link = "reset" \/ (net.inbox = 0 /\ "receive" \notin shut)
  /\ PollFor(ReadEvents, net)

\* send takes all of the data and fills the send buffer (a send that takes
\* all and leaves room changes nothing)
WriteAll ==
  /\ Connected /\ CanWait
  /\ net.link = "up" /\ net.room /\ "send" \notin shut
  /\ net' = [net EXCEPT !.room = FALSE]
  /\ UNCHANGED <<s, connection_state, events, polls, iocp, out, shut,
                 registered, alive, stack, calls, raced>>

\* send takes part of the data or none, or reports a reset
WriteSome ==
  /\ Connected /\ CanWait
  /\ \/ net.link = "reset" /\ PollFor(WriteEvents, net)
     \/ /\ net.link = "up" /\ "send" \notin shut
        /\ PollFor(WriteEvents, [net EXCEPT !.room = FALSE])

Shutdown ==
  /\ Connected /\ net.link = "up"
  /\ \E how \in {{"receive"}, {"send"}, {"receive", "send"}} :
        shut' = shut \cup how
  /\ UNCHANGED <<s, connection_state, events, kernel, registered, alive,
                 stack, calls, raced>>

\* mutant: close() does not look at whether the socket is already closed
CloseAgain ==
  /\ CanCall
  /\ s' = "invalid"
  /\ Settle(ClosedEndpoint, polls, out)
  /\ raced' = (events # {} /\ \A i \in PollIds : polls[i] = {})
  /\ IF events = {} THEN HandleEvents({"LOCAL_CLOSE"})
     ELSE UNCHANGED <<events, connection_state, stack, calls>>
  /\ UNCHANGED <<shut, registered, alive>>

\* mutant: close() always makes the callback itself
CloseAlwaysReports ==
  /\ CanCall
  /\ s = "open"
  /\ s' = "invalid"
  /\ Settle(ClosedEndpoint, polls, out)
  /\ raced' = (events # {} /\ \A i \in PollIds : polls[i] = {})
  /\ HandleEvents({"LOCAL_CLOSE"})
  /\ UNCHANGED <<shut, registered, alive>>

\* closesocket completes the pending polls; close() itself reports the
\* close when it believes that no poll will
Close ==
  /\ CanCall
  /\ s = "open"
  /\ s' = "invalid"
  /\ Settle(ClosedEndpoint, polls, out)
  /\ raced' = (events # {} /\ \A i \in PollIds : polls[i] = {})
  /\ IF events = {} THEN HandleEvents({"LOCAL_CLOSE"})
     ELSE UNCHANGED <<events, connection_state, stack, calls>>
  /\ UNCHANGED <<shut, registered, alive>>

\* mutant: the destructor does not disassociate the socket
DestroyStillRegistered ==
  /\ alive /\ stack = <<>>
  /\ alive' = FALSE
  /\ s' = "invalid"
  /\ Settle(ClosedEndpoint, polls, out)
  /\ UNCHANGED <<registered, connection_state, events, shut, stack, calls, raced>>

\* ~tcp_socket, called from outside the socket's callbacks
Destroy ==
  /\ alive /\ stack = <<>>
  /\ alive' = FALSE
  /\ registered' = FALSE
  /\ s' = "invalid"
  /\ Settle(ClosedEndpoint, polls, out)
  /\ UNCHANGED <<connection_state, events, shut, stack, calls, raced>>

----------------------------------------------------------------------------
(* The thread                                                              *)

\* GetQueuedCompletionStatus returns a packet and the main loop calls
\* afd_system_events::handle_events.  The packets are alike: what happened
\* is read from the output buffer as it is by now.
Dispatch ==
  /\ stack = <<>>
  /\ \E i \in iocp : iocp' = iocp \ {i}
  /\ IF registered /\ out # {} THEN HandleEvents(out)
     ELSE UNCHANGED <<events, connection_state, stack, calls>>
  /\ UNCHANGED <<s, net, polls, out, shut, registered, alive, raced>>

Top == stack[Len(stack)]
Callers == SubSeq(stack, 1, Len(stack) - 1)

\* The callback on top of the stack returns: handle_events makes its next
\* callback or returns to its own caller.
Return ==
  /\ stack # <<>>
  /\ IF Top.todo # {} THEN Invoke(Top.todo, Callers)
     ELSE /\ stack' = Callers
          /\ UNCHANGED <<connection_state, calls>>
  /\ UNCHANGED <<s, events, kernel, shut, registered, alive, raced>>

\* The callback throws: the rest of this handle_events call is lost.
Throw ==
  /\ CallbacksThrow
  /\ stack # <<>>
  /\ stack' = Callers
  /\ UNCHANGED <<s, connection_state, events, kernel, shut, registered,
                 alive, calls, raced>>

----------------------------------------------------------------------------
(* The peer and the network (external)                                     *)

Network(e) ==
  /\ Settle(e, polls, out)
  /\ UNCHANGED <<s, connection_state, events, shut, registered, alive, stack,
                 calls, raced>>

PeerAccepts == net.link = "connecting" /\ Network([net EXCEPT !.link = "up"])
PeerRefuses == net.link = "connecting" /\ Network([net EXCEPT !.link = "refused"])
PeerSends ==
  /\ net.link = "up" /\ ~net.fin /\ net.inbox < MaxInbox
  /\ Network([net EXCEPT !.inbox = @ + 1])
PeerShutsDown == net.link = "up" /\ ~net.fin /\ Network([net EXCEPT !.fin = TRUE])
PeerReads == net.link = "up" /\ ~net.room /\ Network([net EXCEPT !.room = TRUE])
PeerAborts == net.link = "up" /\ Network(ResetEndpoint(net))

----------------------------------------------------------------------------

\* The state the constructor leaves.
Init ==
  /\ s = "open"
  /\ connection_state = "created"
  /\ events = {}
  /\ net = NewEndpoint
  /\ polls = [i \in PollIds |-> {}]
  /\ iocp = {}
  /\ out = {}
  /\ shut = {}
  /\ registered = TRUE
  /\ alive = TRUE
  /\ stack = <<>>
  /\ calls = [m \in Milestones |-> 0]
  /\ raced = FALSE

Application ==
  \/ Connect \/ ReadSome \/ ReadNothing \/ WriteAll \/ WriteSome
  \/ Shutdown \/ Close \/ Destroy

Thread == Dispatch \/ Return \/ Throw

Peer ==
  \/ PeerAccepts \/ PeerRefuses \/ PeerSends \/ PeerShutsDown \/ PeerReads
  \/ PeerAborts

Next == Application \/ Thread \/ Peer

Spec == Init /\ [][Next]_vars

\* The main loop keeps taking packets off the port, and callbacks return.
Fairness == WF_vars(Dispatch) /\ WF_vars(Return)

FairSpec == Spec /\ Fairness

----------------------------------------------------------------------------
(* Properties of every application                                         *)

Frames == [run : Callbacks, todo : SUBSET Callbacks]

\* The state has the shape of the code's variables (tcp_socket.h:105-125).
TypeOK ==
  /\ s \in {"open", "invalid"}
  /\ connection_state \in ConnectionStates
  /\ events \in SUBSET Events
  /\ net \in Endpoints(MaxInbox)
  /\ polls \in [PollIds -> SUBSET Events]
  /\ iocp \in SUBSET PollIds
  /\ out \in SUBSET Events
  /\ shut \in SUBSET {"receive", "send"}
  /\ registered \in BOOLEAN
  /\ alive \in BOOLEAN
  /\ stack \in Seq(Frames)
  /\ calls \in [Milestones -> 0..2]
  /\ raced \in BOOLEAN

\* No wait is forgotten: while the open socket believes that it waits for
\* something (tcp_socket::events), a pending poll asks for all of it or a
\* packet is queued whose dispatch will tell the application something.
NoForgottenWait ==
  alive /\ s = "open" /\ events # {} =>
    \/ \E i \in PollIds : events \subseteq polls[i]
    \/ iocp # {} /\ out # {}

\* A callback may call close(), which calls back on the same thread (the
\* complication tcp_socket.cpp:228-230 warns of).  That is as deep as it
\* gets: the inner call makes on_disconnected and nothing else.
BoundedReentrancy ==
  /\ Len(stack) \in 0..2
  /\ Len(stack) = 2 => stack[2] = [run |-> "on_disconnected", todo |-> {}]

\* A packet that arrives after the socket was destroyed reaches nobody.
NoCallIntoDestroyedSocket == ~alive => stack = <<>>

\* A socket that was told of the end of its connection stays ended,
\* whatever completions of earlier polls are still to come.
NeverRevived ==
  [][connection_state = "disconnected" => connection_state' = "disconnected"]_vars

\* Nothing is left that could make another callback of a closed socket: a
\* poll that its closing has not completed never completes.
Quiet == stack = <<>> /\ iocp = {}

\* close() while a poll is pending, or while none is wanted, is reported by
\* on_disconnected: when nothing more can happen, it has been called.
CloseReportedUnlessRaced ==
  alive /\ s = "invalid" /\ ~raced /\ Quiet => calls["on_disconnected"] > 0

(* What it implements                                                      *)

\* What the application has been told of the connection.
Phase ==
  CASE connection_state = "created" -> "new"
    [] connection_state = "pending_connect" -> "connecting"
    [] connection_state = "connected" -> "open"
    [] OTHER -> "ended"

Promise ==
  INSTANCE ConnectionEvents WITH
    phase <- Phase, closed <- (s = "invalid"), deleted <- ~alive,
    calling <- [i \in DOMAIN stack |-> stack[i].run]

\* The events of a connection are told in the order that the callbacks'
\* documentation and the tests rely on: the outcome of connect() first and
\* once, then its news and its end, on_disconnected only for a closed
\* socket, inside another callback only from close(), and nothing once the
\* socket is destroyed (tcp_socket.h:38-67, tcp_socket.cpp:242-347).
TellsInOrder == Promise!Spec

(* Properties of an application that waits for one thing at a time         *)

\* The shared output buffer then is written for one poll at a time.
OnePollOutstanding == \A i, j \in Outstanding : i = j

\* on_disconnected is called at most once: close()'s own report and the
\* poll's report of the local close exclude each other.
DisconnectedOnce == calls["on_disconnected"] <= 1

\* Once on_disconnected has been reported and the callbacks in progress
\* have returned, the socket never calls back again.
SilentAfterDisconnected ==
  [][calls["on_disconnected"] > 0 /\ stack = <<>> => stack' = <<>>]_vars

\* A read that found nothing is answered by on_readable once data arrives,
\* unless the application reads it meanwhile or the connection is closed or
\* reset (tcp_socket.cpp:174).
Running(c) == \E i \in DOMAIN stack : stack[i].run = c
HasData == alive /\ s = "open" /\ net.link = "up" /\ net.inbox > 0
ReaderWoken ==
  (HasData /\ "RECEIVE" \in events) ~> (~HasData \/ Running("on_readable"))

\* A write that fell short is answered by on_writable once there is room,
\* unless the connection ends first; the peer's FIN ends it too, since it
\* makes the socket refuse every write (tcp_socket.cpp:115, 120-121, 316).
HasRoom ==
  alive /\ s = "open" /\ net.link = "up" /\ net.room
  /\ connection_state = "connected"
WriterWoken == (HasRoom /\ "SEND" \in events) ~> (~HasRoom \/ Running("on_writable"))

============================================================================
