-------------------------- MODULE ListeningSocket --------------------------
(***************************************************************************)
(* socket/listening_socket/ and, if direct, its counterpart in             *)
(* socket_without_device_afd/listening_socket/: one tcp_listening_socket,  *)
(* the completion port, the driver, the clients that connect, and the most *)
(* general application.  The two differ in how they poll: through a shared *)
(* \Device\Afd handle, where polls add up, or through the socket's own     *)
(* base handle with exclusive polls.  In both every poll queues a packet,  *)
(* even one that completes at once.                                        *)
(*                                                                         *)
(* States are as in DirectSocket: the thread waits (stack = <<>>), is      *)
(* inside handle_events between two callbacks (run = "none"), or inside a  *)
(* callback.                                                               *)
(***************************************************************************)
EXTENDS AfdPoll, Sequences

CONSTANTS
  MaxPackets,  \* polls that may be outstanding at a time (a bound)
  Backlog      \* connections that may wait to be accepted

ASSUME ListeningAssumption == MaxPackets \in Nat \ {0} /\ Backlog \in Nat \ {0}

VARIABLES
  direct,            \* the design, which never changes: the socket polls its own
                     \* handle
  s,                 \* "open", or "invalid" for INVALID_SOCKET
  connection_state,
  events,            \* tcp_listening_socket::events: {} or AllEvents
  net,               \* the driver's view of the socket
  pending,           \* polls that wait for an event, all for AllEvents
  packets,           \* packets queued on the completion port
  out,               \* the Events of pollInfoOut, {} if it holds no handle
  alive,             \* the socket has not been destroyed
  stack,             \* the handle_events calls in progress, innermost last
  disconnects,       \* history: how often on_disconnected ran, up to 2
  raced,             \* history: close() ran in a callback, or relied on a poll that
                     \* was not pending
  threw,             \* history: handle_events could not poll again
  interrupted        \* history: a callback has ended by an exception

socket == <<s, connection_state, events>>
kernel == <<net, pending, packets, out>>
history == <<disconnects, raced, threw, interrupted>>
vars == <<direct, socket, kernel, alive, stack, history>>

ConnectionStates == {"created", "bound", "listening", "disconnected"}
Callbacks == {"on_incoming_connections", "on_connection_reset", "on_disconnected"}

----------------------------------------------------------------------------
(* The driver (external)                                                   *)

\* The socket's condition becomes e: the pending polls complete if something
\* they ask for now holds.
Settle(e) ==
  /\ net' = e
  /\ IF pending = 0 \/ Ready(e) = {} THEN UNCHANGED <<pending, packets, out>>
     ELSE /\ out' = Ready(e)
          /\ packets' = packets + pending
          /\ pending' = 0

----------------------------------------------------------------------------
(* poll                                                                    *)

\* mutant: the poll is only made if it does not complete at once
PollUnlessReady(e) ==
  /\ net' = e
  /\ out' = {}
  /\ packets' = packets + (IF direct THEN pending ELSE 0)
  /\ pending' = IF Ready(e) # {} THEN 0 ELSE IF direct THEN 1 ELSE pending + 1

\* Clear the output and submit a poll for AllEvents on a socket in the
\* condition e.  An exclusive poll ends the one that is pending with a
\* report of no handles.
Poll(e) ==
  LET left == IF direct THEN 1 ELSE pending + 1 IN
  /\ net' = e
  /\ out' = Ready(e)
  /\ packets' = packets + (IF direct THEN pending ELSE 0)
                        + (IF Ready(e) = {} THEN 0 ELSE left)
  /\ pending' = IF Ready(e) = {} THEN left ELSE 0

----------------------------------------------------------------------------
(* The application's calls                                                 *)

Top == stack[Len(stack)]
Callers == SubSeq(stack, 1, Len(stack) - 1)
Frame(run, todo) == [run |-> run, todo |-> todo]

CanCall == alive /\ (stack # <<>> => Top.run # "none")

Bind ==
  /\ CanCall
  /\ connection_state = "created" /\ s = "open"
  /\ connection_state' = "bound"
  /\ UNCHANGED <<s, events, kernel, direct, alive, stack, history>>

\* ::listen refuses a socket that is not bound; nothing else is checked.
Listen ==
  /\ CanCall
  /\ s = "open" /\ connection_state # "created"
  /\ net.link \in {"idle", "listening"}
  /\ pending + packets + Len(stack) < MaxPackets
  /\ connection_state' = "listening"
  /\ events' = Events
  /\ Poll([net EXCEPT !.link = "listening"])
  /\ UNCHANGED <<s, direct, alive, stack, history>>

\* mutant: accept always returns a connection
AcceptAlways ==
  /\ CanCall
  /\ s = "open" /\ net.link = "listening"
  /\ net' = [net EXCEPT !.inbox = @ - 1]
  /\ UNCHANGED <<socket, pending, packets, out, direct, alive, stack, history>>

\* ::accept returns a connection (when it returns none nothing changes).
Accept ==
  /\ CanCall
  /\ s = "open" /\ net.link = "listening" /\ net.inbox > 0
  /\ net' = [net EXCEPT !.inbox = @ - 1]
  /\ UNCHANGED <<socket, pending, packets, out, direct, alive, stack, history>>

\* mutant: close() leaves every report to a poll
CloseNeverReports ==
  /\ CanCall
  /\ s = "open"
  /\ s' = "invalid"
  /\ Settle(ClosedEndpoint)
  /\ raced' = (events # {} /\ (pending = 0 \/ stack # <<>>))
  /\ UNCHANGED <<stack, connection_state, events, direct, alive, disconnects, threw,
                 interrupted>>

\* closesocket completes the pending polls; close() itself reports the
\* close when it believes that no poll will
Close ==
  /\ CanCall
  /\ s = "open"
  /\ s' = "invalid"
  /\ Settle(ClosedEndpoint)
  /\ raced' = (events # {} /\ (pending = 0 \/ stack # <<>>))
  /\ stack' = IF events # {} THEN stack
              ELSE Append(stack, Frame("none", {"on_disconnected"}))
  /\ UNCHANGED <<connection_state, events, direct, alive, disconnects, threw,
                 interrupted>>

\* ~tcp_listening_socket, from outside its callbacks.  A socket that polls
\* its own handle is the key of its packets: its owner keeps it until the
\* loop has ended.
Destroy ==
  /\ ~direct
  /\ alive /\ stack = <<>>
  /\ alive' = FALSE
  /\ s' = "invalid"
  /\ Settle(ClosedEndpoint)
  /\ UNCHANGED <<direct, connection_state, events, stack, history>>

----------------------------------------------------------------------------
(* handle_events                                                           *)

Rank == [on_incoming_connections |-> 0, on_connection_reset |-> 1, on_disconnected |-> 2]
First(todo) == CHOOSE c \in todo : \A d \in todo : Rank[c] <= Rank[d]

\* The callbacks of one handle_events call.
Raised(state, eventsToHandle) ==
  (IF state = "listening" /\ "ACCEPT" \in eventsToHandle
   THEN {"on_incoming_connections"} ELSE {})
  \cup (IF "ABORT" \in eventsToHandle THEN {"on_connection_reset"} ELSE {})
  \cup (IF "LOCAL_CLOSE" \in eventsToHandle THEN {"on_disconnected"} ELSE {})

\* The main loop takes a packet; what it means is read from the output as it
\* is by now.
Dispatch ==
  /\ stack = <<>>
  /\ packets > 0
  /\ packets' = packets - 1
  /\ stack' = IF alive /\ out # {}
              THEN <<Frame("none", Raised(connection_state, out))>> ELSE <<>>
  /\ UNCHANGED <<socket, net, pending, out, direct, alive, history>>

\* mutant: events is not reset when the callback returns
EventsAfterKept(c) == events

\* What is wanted once callback c has returned: nothing after the end.
EventsAfter(c) ==
  IF c \in {"on_connection_reset", "on_disconnected"} THEN {} ELSE events

\* The next callback, the one before having returned.
NextCallback ==
  /\ stack # <<>> /\ Top.todo # {}
  /\ LET c == First(Top.todo) IN
     /\ connection_state' = IF c = "on_incoming_connections" THEN connection_state
                            ELSE "disconnected"
     /\ stack' = Append(Callers, Frame(c, Top.todo \ {c}))
     /\ disconnects' = disconnects + IF c = "on_disconnected" /\ disconnects < 2 THEN 1 ELSE 0
  /\ events' = EventsAfter(Top.run)
  /\ UNCHANGED <<s, kernel, direct, alive, raced, threw, interrupted>>

\* mutant: the socket does not poll again
HandledWithoutPolling ==
  /\ stack # <<>> /\ Top.todo = {}
  /\ stack' = Callers
  /\ events' = EventsAfter(Top.run)
  /\ UNCHANGED <<kernel, s, connection_state, direct, alive, disconnects, raced, threw,
                 interrupted>>

\* The callbacks are done: poll again if anything is wanted, which throws if
\* the handle is closed by now.
Handled ==
  /\ stack # <<>> /\ Top.todo = {}
  /\ stack' = Callers
  /\ events' = EventsAfter(Top.run)
  /\ IF events' # {} /\ s = "open" THEN Poll(net) ELSE UNCHANGED kernel
  /\ threw' = (threw \/ (events' # {} /\ s = "invalid"))
  /\ UNCHANGED <<s, connection_state, direct, alive, disconnects, raced, interrupted>>

\* A callback throws through all the calls in progress: handle_events neither
\* resets events nor polls again.
Throw ==
  /\ stack # <<>> /\ Top.run # "none"
  /\ stack' = <<>>
  /\ interrupted' = TRUE
  /\ UNCHANGED <<socket, kernel, direct, alive, disconnects, raced, threw>>

----------------------------------------------------------------------------
(* The clients and the network (external)                                  *)

Network(e) == Settle(e) /\ UNCHANGED <<socket, direct, alive, stack, history>>

ClientConnects ==
  /\ net.link = "listening" /\ net.inbox < Backlog
  /\ Network([net EXCEPT !.inbox = @ + 1])

NetworkAborts == net.link = "listening" /\ Network(ResetEndpoint(net))

----------------------------------------------------------------------------

\* The state either design's constructor leaves.
Init ==
  /\ direct \in BOOLEAN
  /\ s = "open"
  /\ connection_state = "created"
  /\ events = {}
  /\ net = NewEndpoint
  /\ pending = 0
  /\ packets = 0
  /\ out = {}
  /\ alive = TRUE
  /\ stack = <<>>
  /\ disconnects = 0
  /\ raced = FALSE
  /\ threw = FALSE
  /\ interrupted = FALSE

Next ==
  \/ Bind \/ Listen \/ Accept \/ Close \/ Destroy
  \/ Dispatch \/ NextCallback \/ Handled \/ Throw
  \/ ClientConnects \/ NetworkAborts

Spec == Init /\ [][Next]_vars

----------------------------------------------------------------------------
(* Properties                                                              *)

Frames == [run : Callbacks \cup {"none"}, todo : SUBSET Callbacks]

\* The state has the shape of the code's variables (tcp_listening_socket.h).
TypeOK ==
  /\ direct \in BOOLEAN
  /\ s \in {"open", "invalid"}
  /\ connection_state \in ConnectionStates
  /\ events \in {{}, Events}
  /\ net \in Endpoints(Backlog)
  /\ pending \in 0..MaxPackets
  /\ packets \in 0..MaxPackets
  /\ out \in SUBSET Events
  /\ alive \in BOOLEAN
  /\ stack \in Seq(Frames)
  /\ disconnects \in 0..2
  /\ raced \in BOOLEAN /\ threw \in BOOLEAN /\ interrupted \in BOOLEAN

\* A listening socket always has a poll pending or a packet queued that will
\* make it look, whatever the application does in its callbacks, short of
\* throwing, and however often it calls listen()
\* (tcp_listening_socket.cpp:186-189).
KeepsListening ==
  ~interrupted /\ alive /\ s = "open" /\ connection_state = "listening" /\ stack = <<>> =>
    pending > 0 \/ (packets > 0 /\ out # {})

\* Outside callbacks a close() that finds its poll pending, or nothing to poll
\* for, is always reported by on_disconnected, and nothing else ever is
\* (tcp_listening_socket.cpp:138-150).
Quiet == stack = <<>> /\ packets = 0
ReportsClose ==
  /\ alive /\ s = "invalid" /\ ~raced /\ Quiet => disconnects > 0
  /\ disconnects > 0 => s = "invalid"

\* handle_events fails to poll again only for a socket that was closed in a
\* callback or after its poll had completed (tcp_listening_socket.cpp:188).
ThrowsOnlyIfRaced == threw => raced

============================================================================
