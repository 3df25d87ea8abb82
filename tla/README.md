# Adventures with \Device\Afd: a verification project

TLA+ models of the socket code in this repository, model-checked with TLC; their
safety properties are proved with TLAPS as well. The code learns to use the Windows network
stack through `IOCTL_AFD_POLL` and an I/O completion port (IOCP): a socket asks
the driver for events, the driver completes the request once one of them holds,
the program's single thread takes the packet off the port and calls back.

## 1. Inventory

| Part | Source | State it keeps | Operations |
|---|---|---|---|
| `tcp_socket`, design A | `socket/tcp_socket.*`, `afd_handle.*` | `s`, `events`, `connection_state` | constructor, `connect`, `read`, `write`, `shutdown`, `close`, `handle_events`, destructor |
| slot table, design A | `socket/single_connection_afd_system.*`, its copy `multi_connection_afd_system.*` | `pPollInfoIn`, `pPollInfoOut`, `ppEvents`, `statusBlock` | `associate_socket`, `disassociate_socket`, `poll`, `handle_events` |
| `tcp_listening_socket`, A | `socket/listening_socket/tcp_listening_socket.*` | as `tcp_socket` | `bind`, `listen`, `accept`, `close`, `handle_events` |
| `echo_client`, A | `socket/echo_client/echo_client.cpp` | bytes read, messages sent, `is_done` | `write_data`, `read_data`, the callbacks, the main loop |
| `echo_server`, A | `socket/listening_socket/echo_server/echo_server.cpp` | `is_done` | `on_incoming_connections`, the main loop |
| `tcp_socket`, design B | `socket_without_device_afd/tcp_socket.*` | as A, own `pollInfoIn/Out`, `handling_events` | as A, and `accepted`, synchronous completions handled in the caller, `on_connection_complete` |
| `tcp_listening_socket`, B | `socket_without_device_afd/listening_socket/` | as B socket | as A |
| echo client and server, B | `socket_without_device_afd/**/echo_*.cpp` | connection objects that delete themselves | as A |
| driver and port access | `shared/afd.h`, `third_party/wepoll_magic.h` | none | `SetupPollForSocketEvents*`, `GetCompletion*`, `CancelPoll` |
| Winsock helpers | `shared/socket.h`, `tcp_socket.h`, `udp_socket.h` | none | wrappers |
| experiments | `understand/`, `explore*/`, `socket_without_device_afd/explore.cpp` | none | tests that observe the driver |

How they interact: the application calls a socket's methods; a method that has
to wait adds to `events` and calls `afd_handle::poll`, which submits one request
for *all* slots of the table; the driver writes the result into the table's one
`pPollInfoOut` and queues a packet; the main loop takes the packet and calls the
table's `handle_events`, which calls the `handle_events` of each socket the
output mentions, which makes the application's callbacks; a callback may call
any method again, and `close()` may make a callback itself. Nothing is locked:
there is one thread. What runs concurrently is the thread, the driver and the
peer.

Design A shares one `\Device\Afd` handle and one table between its sockets;
design B polls each socket through its own base handle, exclusively (a new poll
cancels the pending one), skips the port when a poll completes at once, and uses
the socket as the completion key of its packets.

The hard parts: the driver completes a poll before its packet is dispatched, so
what the socket remembers about its poll is stale in between; several polls
share one output structure; callbacks re-enter the socket; sockets die with
packets outstanding; slots, output positions and the number of handles in a
request need not agree; in design B a completion is handled inside the call that
polled, packets of cancelled polls arrive later, and connection objects delete
themselves. `PROJECT.json` lists the hazards by line.

What makes each part correct:

* socket: no wait is forgotten; the outcome of `connect` comes once and first;
  the end of a connection is final and reported once; reentrancy is bounded;
  a destroyed socket is not called; who waits is woken;
* slot table: a report reaches only live sockets; accesses stay inside the
  arrays; each request asks for what each socket wants;
* listening socket: it keeps polling while it listens, reports its close, and
  throws for no other reason;
* echo programs: every message is answered, nothing is lost at a close, the
  program or the connection object ends.

## 2. Modules

| Module | Models | Builds on |
|---|---|---|
| `AfdPoll` | the driver's contract: event bits, one end of a connection, which conditions hold (external) | |
| `PollObservations` | `shared/afd.h`, the socket helpers, and the experiments as tests of `AfdPoll` | `AfdPoll` |
| `ConnectionEvents` | abstract: what a socket promises its callbacks | |
| `TcpSocket` | design A's socket on slot 0, the most general application, port, driver, peer | `AfdPoll`; implements `ConnectionEvents` |
| `AfdSystem` | the slot table with several sockets | |
| `DirectSocket` | design B's socket, the most general application, port, driver, peer | `AfdPoll`; implements `ConnectionEvents` |
| `ListeningSocket` | the listening sockets of both designs | `AfdPoll` |
| `EchoServer` | the echo servers' class and main loop | `ListeningSocket` |
| `EchoClientProgram` | the echo client's class, without its socket | |
| `EchoClient`, `DirectEchoClient` | the echo client over each design's socket, with an echoing peer | `TcpSocket` or `DirectSocket`, and `EchoClientProgram` |
| `EchoConnection` | one connection of design B's server, with its client | `DirectSocket` |
| `TcpSocketProofs`, `AfdSystemProofs`, `DirectSocketProofs`, `ListeningSocketProofs` | inductive invariants and theorems about the module named | that module |
| `EchoConnectionProofs`, `EchoClientProofs`, `DirectEchoClientProofs` | the same about the programs | the program's module and its socket's proofs |
| `SequenceLemmas` | facts about sequences, and how the calls in progress map to `ConnectionEvents` | |
| `MC*` | symmetry sets for TLC, and a module for each set of runs | |

Common to all: a method of a socket is one action, from its state check to the
poll it ends in, because nothing else happens in between that could be told
apart: the driver's move is either before it or after it. The thread is in
application code at every state, that is, between two packets or in a callback;
there the application may call anything and the peer may do anything. `stack` is the C++
call stack reduced to the `handle_events` calls in progress: per call the callback
that is running (`run`) and those still to come (`todo`), which are fixed by the
arguments and the state test at its start. A call that only throws (a failed
state check, a socket error) changes nothing and is a stuttering step. Variables
marked "history" are read by no guard.

### AfdPoll, PollObservations and the driver's contract

The driver is not in the repository. Its contract is taken from how the code
uses it and from what the experiments observe: a poll is level triggered; it
completes at once if a condition it asks for holds (the status is then 0 but a
packet is queued all the same, unless the handle skips the port on success);
otherwise it completes when one first holds; it then reports all asked-for
conditions that hold. `closesocket` completes it with `LOCAL_CLOSE`, an RST with
`ABORT`. An exclusive poll ends the pending one, which reports no handles.
Of two polls pending on one socket, `understand.cpp:1081-1112` sees the second
never complete after the first has, and calls this "way 'off-piste'"; but
design A's `tcp_socket` goes there whenever a read and a write wait together. With
`LosesPolls` a completion may therefore drop any of the socket's other pending
polls. `any_app` assumes this, `overlapping` does not, so what it shows needs no
dropped poll.

`PollObservations` turns this round. Each test of `understand.cpp` and of design
B's `explore.cpp`, and each of the two explore programs, is a sequence of
statements with the result the test asserts; a statement is an action on the
two sockets (`net`), the pending `requests` and the queued `packets`, computed
from the same `Ready` that all the other modules use. `TestsPass` says that the contract gives
what each test asserts and that no wait of a test goes on for ever. It is what
the trust in `AfdPoll` rests on.

### TcpSocket

`s`, `connection_state`, `events` are the members of the class; `out` is
`Handles[0].Events` of the table's output; `registered` says whether slot 0
refers to the socket; `net`, `polls`, `iocp` are the driver's; `shut` records
`shutdown`. `Dispatch`, `Return` and `Throw` are the thread.
`ReadSome`/`ReadNothing` and `WriteAll`/`WriteSome` are the outcomes of `recv`
and `send`. In `Close`, the callback made by `close()` itself is part of the
action up to its first statement, as for `Dispatch`. `Destroy` is only possible
outside callbacks: `handle_events` returns the member `events` after the
callbacks (`tcp_socket.cpp:328`), so a destructor inside one is undefined.

`OneAtATime` restricts the application to one wait at a time, as all tests and
the echo client do (`WaitsForOneThing` shows that it does); `CallbacksThrow` lets
callbacks end by an exception. `raced` records a `close()` that relied on a poll
that was not pending any more.

Left out: out-of-band data (no poll of this design asks for it, so the driver
never reports it), the number of bytes (a unit of `inbox` is what one `recv` may
return), errors of Winsock calls that only throw.

### AfdSystem

`table` is `ppEvents` with the `Handle` members of `pPollInfoIn`, `interest` the
slots with non-zero `Events` there, `number` its `NumberOfHandles`; `out` is
`pPollInfoOut`, `slot` the slot each socket's `afd_handle` names, `loop` the loop
variable of `handle_events` and `serving` the socket whose `handle_events` it is in. What a socket does with its events is
`TcpSocket`'s subject; here `wants` only says whether its `events` is zero. As
every poll of the code asks for `LOCAL_CLOSE`, a closed handle has something to
report whenever its entry asks for anything. The out-of-bounds slot `NumSlots` is
kept as an element of `table`: the write goes behind the arrays, and reading it
back is one outcome the build can produce. A request is refused if it counts more
handles than its buffer holds (observed by `test.cpp:1190-1211`) or a handle that is zero or
closed; `poll` then throws. `associate_socket` does not ask whether the slot is free: the later socket takes the entry over, the earlier one goes on
setting the slot's events, and its destructor clears the entry whoever is in it.
`stale` records the slots that a destructor, an exception or such a takeover has
left with an interest the socket in the slot has not brought up to date.

### DirectSocket

As `TcpSocket`, with these differences of the code. `Submit` is `poll`: it ends
the pending poll, and if the new one completes at once, no packet is queued
and `handle_events` begins in the caller (a frame with `run = "none"`). `NextCallback`
makes the next callback, after what the code does when the one before returns
(`on_client_close` changes the state only then). `Handled` is the end of
`handle_events`: it polls for what is wanted by now, or calls
`on_connection_complete` if the socket is closed; `Delete` is legal there because
nothing is touched afterwards. `handling_events` suppresses polls from inside
callbacks, and an exception leaves it set, so `Throw` records that in
`threw`. `strayed` records that the application has, once connecting, used the socket
outside its callbacks, or deleted it early; the repository's programs never do.
`Dispatch` does not ask whether the object still exists, since the main loop does not: an
object deleted with a poll or packet outstanding (`orphaned`) may still be called,
by reading freed memory. `TellsInOrder` promises nothing from then on, and
`DeletedSafely` says when deletion is not of this kind.
`packets` is a number: the packets of one socket cannot be told apart.

### ListeningSocket and EchoServer

`direct`, chosen in `Init` and never changed, is the design: in A polls add up on
the shared handle, in B they are exclusive; the rest of the two classes is the
same. `Throw` ends a callback by an exception; the socket then polls no more
until it is told to listen again, so `KeepsListening` excuses it (`interrupted`).
`Destroy` is design A's destructor only. Design B's packets have the object as
their key, as `DirectSocket`'s do, and nothing is said of a listener deleted with
one outstanding; the echo server deletes its listener when its loop has ended.
`EchoServer` restricts the application to the two echo servers, statement
by statement: `Start` is main up to its loop, `StartFails` a `bind()` or `listen()`
that throws, `AnswerClient` and `NewConnection` one turn of the accept loop,
`TakePacket` and `Continue` the main loop. In design B `accept()` throws if the new
handle cannot be made not to block, before there is a connection object
(`NewConnection`), and a connection's callback may throw, from inside `accepted()` or
from the main loop (`ConnectionThrows`); what a connection does otherwise is
`EchoConnection`'s subject.

### The echo clients and the server's connection

`at` is the next statement of the running callback, `Entry` what each callback
does first. `write_data` and `read_data` call each other; each call of the socket is
a step that conjoins the program's part with the socket's action, so whatever
socket and peer can do between two calls is there.
Statements that throw set `thrown` and leave through the socket's `Throw`. A
statement that finds the socket in a state for which it has no outcome would have no step,
and the liveness properties would fail; they hold. (`close()` on a socket that is
closed already does nothing, and is a step of the program all the same.)
`CloseAtEnd` is `~echo_client`, which closes the socket if the program was ended by an
exception; in design A that may call `on_disconnected`. `End` is `~tcp_socket`.
`EchoConnection`'s `client` is frozen like `direct`: a client that "reads" goes on
taking what is echoed and never resets; "any" promises nothing.

### Refinement

`ConnectionEvents` states what an application may rely on without knowing of polls
and packets: the outcome of connecting comes first and once; data and room only after it;
the end of the connection is final; `on_disconnected` only
for a closed socket, inside another callback only from `close()`;
`on_connection_complete` only after the close; nothing once the socket is
deleted. `TcpSocket` and `DirectSocket` implement it (`TellsInOrder`), the second only
until it is deleted with a poll or packet outstanding: the phase
is their `connection_state`, and in `DirectSocket` `on_client_close`, which ends
the connection before the state says so; `calling` is the stack. `DirectSocket`
maps the top frame only; `NeverNested` shows that there is no other.

## 3. Runs

All of them set `CHECK_DEADLOCK FALSE`: the programs end, and a socket that is
closed or destroyed with no packet queued has nothing left to do. Where stopping
would be wrong a liveness property says so.

| Run | Checks | Shows |
|---|---|---|
| `any_app` | `TypeOK`, `NoForgottenWait`, `BoundedReentrancy`, `NoCallIntoDestroyedSocket`, `CloseReportedUnlessRaced`, `NeverRevived`, `TellsInOrder` | what A's socket guarantees to every application, with overlapping waits, dropped polls and exceptions |
| `one_wait` | `OnePollOutstanding`, `DisconnectedOnce`, `SilentAfterDisconnected`, `ReaderWoken`, `WriterWoken` | what more with one wait at a time and no exceptions |
| `overlapping` | `ReaderWoken`, violated | a reader that waits beside a writer sleeps for good |
| `slots` | `TypeOK`, `ServesLiveSockets`, `DispatchInBounds`, `InterestCurrent` | three sockets on two slots, slots reused and taken over, callbacks that throw |
| `right_socket` | `RightSocketServed`, violated | output position taken for slot |
| `direct` | `TypeOK`, `NeverNested`, `NoForgottenWait`, `OneOutstanding`, `DeletedSafely`, `TellsInOrder`, `CloseCompletes`, `WaitersWoken` | what B's socket guarantees to every application, and to one that stays in its callbacks |
| `listening` | `TypeOK`, `KeepsListening`, `ReportsClose`, `ThrowsOnlyIfRaced` | both listening sockets under any application |
| `echo_server` | `ClientsAnswered`, `EndsOnReset` | both servers answer every client, and end on a reset |
| `echo_client_afd` | `WaitsForOneThing`, `EndsAsMeant`, `ProgramEnds` | A's client ends, and how |
| `echo_client_direct` | `EndsAsMeant`, `ProgramEnds` | B's client ends, and how |
| `connection` | `ConnectionTypeOK`, `EchoesEverything`, `ConnectionEnds`, `AllEchoed` | B's server connection echoes all, loses nothing at the close, frees itself |
| `observed` | `TestsPass` | the experiments agree with `AfdPoll` |

The counterexamples in short:

* `overlapping`: a write falls short and polls, a read finds nothing and polls;
  data completes both with RECEIVE or later SEND in the shared output; one
  dispatch sees only SEND and resets `events`.
* `right_socket`: sockets in slots 0 and 1, only the second has polled and is ready:
  the one output entry goes to slot 0. Both are open and in their slots; a report about
  a socket that has gone, which reaches the next one in its slot, is not counted.

### Known deviations

Further places where the code does otherwise than a comment, a test or its own
check says. The models have each of these behaviours, since they are translated
from the code; the properties named carve out just these cases and hold for the rest.

| Where | What happens | What is said | Carved out of |
|---|---|---|---|
| `tcp_socket.cpp:234` (A) | `close()` between a poll's completion and its dispatch finds `events` set and leaves the report to a poll that has already completed: `on_disconnected` never runs | `test.cpp:309` expects it | `CloseReportedUnlessRaced` (`raced`) |
| `tcp_socket.cpp:203` (A) | a callback that reads once more after the FIN polls, the poll completes at once, `on_client_close` runs for this completion and for the next | `test.cpp:637` expects one call | `TellsInOrder` allows ends to repeat |
| `single_connection_afd_system.cpp:74` | slot `num_slots`, behind both arrays, is accepted | the check itself | `DispatchInBounds` says it is never dispatched to |
| `single_connection_afd_system.cpp:83-87` | a slot that is in use may be given to another socket; both then set its events, and the destructor of either clears it | | `InterestCurrent` (`stale`), `RightSocketServed` (`Registered`) |
| `single_connection_afd_system.cpp:89` | `NumberOfHandles` follows the last association | comment at `:65`: "based on max slots used" | |
| `single_connection_afd_system.cpp:134` | handles without events are submitted | comment at `:122` | |
| `socket_without_device_afd/tcp_socket.cpp:403` | `close()` inside a callback: `on_connection_complete` without `on_disconnected` | `test.cpp:328` expects both | `ConnectionEvents` asks for the close only |
| `socket_without_device_afd/tcp_socket.cpp:189` | an application that polls outside its callbacks leaves packets of cancelled polls, and `on_connection_complete` may run twice | `test.cpp:329` expects once | `OneOutstanding`, `DeletedSafely` (`strayed`) |
| `shared/afd.h:433-470`, `echo_server.cpp:367-372` (B) | a packet's completion key is used unasked: a socket deleted before `on_connection_complete` with a poll outstanding is called after its memory was freed | | `TellsInOrder` (`orphaned`) |
| `socket_without_device_afd/tcp_socket.cpp:387` | an exception leaves `handling_events` set; no later read or write polls | | `NoForgottenWait`, `CloseCompletes`, `WaitersWoken` (`threw`) |
| `echo_server.cpp:99` (B) | with a client that never reads `write_data` and `read_data` call each other without end and block every other client | `tcp_socket.cpp:216` | `AllEchoed`, `ConnectionEnds` (`client = "reads"`) |
| `tcp_listening_socket.cpp:138, 188` | `close()` in a callback, or after its poll has completed: not reported, or `handle_events` throws | | `ReportsClose`, `ThrowsOnlyIfRaced` (`raced`) |
| `tcp_listening_socket.cpp:164` | an exception out of `on_incoming_connections` skips the poll: whoever catches it has a socket that listens and is never called again | | `KeepsListening` (`interrupted`) |
| `echo_client.cpp:187` (A) | when the server closes first `shutdown()` throws, for the state is `disconnected` by then | | `EndsAsMeant` names the exception |
| `understand.cpp:591` | a test asserts a pending poll though CONNECT is asked for and holds, and is level triggered by `:566` | | that branch is left out of `PollObservations` |

### Bounds

`PollIds` = 2: with one wait at a time one suffices (`OnePollAtATime`), and the
second shows everything that overlapping can do, one completion overwriting the
other. `MaxPackets` = 3 (design B): one pending poll, one cancelled and one stale
packet, the fewest with which `on_connection_complete` can run twice; 2 for
`EchoConnection`, whose program has at most one, and 3 for the clients. 4 for the
listening sockets, whose applications may call `listen()` again. `MaxInbox` = 2
lets a read leave data behind; the programs use 3, more than a message or a
buffer (2). `number_of_messages` = 3 and `MessageSize` = 2: a first, a middle and
a last message, each in one piece or two. `BufferSize` = 2, `MaxSent` = 4: the
buffer fills, is written in part and fills again. `Backlog` = 3 with 8
`Clients`: the accept loop takes several, more arrive meanwhile and after. `calls` is capped
at 2, enough for "at most once". Two slots and the one behind them are the fewest
in which a position differs from a slot in both directions; three sockets on two
slots let a slot be reused while another is in use.

### Fairness

* `TcpSocket`, `DirectSocket` (`FairSpec`): the main loop keeps taking packets
  (`echo_client.cpp:247-261` loops until done, waiting without a timeout) and
  callbacks return. Nothing is assumed of the application and the peer. With
  exceptions no such promise holds, because the remaining callbacks are lost.
* `EchoClient`, `DirectEchoClient` (`ClientSpec`): the thread goes on; the server
  answers the connection request and echoes while it keeps the connection. It
  may stop doing so by a FIN or a reset at any time, but not fall silent: the
  client has no timeout, and would wait for ever.
* `EchoServer` (`ServerSpec`): the thread goes on. Nothing is assumed of clients.
* `EchoConnection` (`ConnectionSpec`): the thread goes on, and a client that
  "reads" takes what is echoed.
* `PollObservations`: a test's next statement is executed.

`WriterWoken` excuses a connection whose peer has sent FIN: design A's socket is then
`disconnected` and refuses writes.

## 4. Proofs

Everything below is proved for all values of the constants: any number of poll
requests or packets, any buffer bound, any number of slots, sockets and messages
of any size. The only assumptions are those on the constants, named in the
modules that declare them (sets are not empty, bounds are positive, switches are
Boolean), and where the table says so, a value of a constant.

| Theorem | Property | Assumes |
|---|---|---|
| **`TcpSocketProofs`** | | |
| `TypeCorrect` | `TypeOK` | |
| `ReentrancyBounded` | `BoundedReentrancy` | |
| `DestroyedSocketSilent` | `NoCallIntoDestroyedSocket` | |
| `EndIsFinal` | `NeverRevived` | |
| `NoWaitForgotten` | `NoForgottenWait` | |
| `CloseIsReported` | `CloseReportedUnlessRaced` | |
| `TellsInOrderHolds` | `TellsInOrder` | |
| `OnePollAtATime` | `OnePollOutstanding` | `OneAtATime` |
| `DisconnectReportedOnce` | `DisconnectedOnce` | `OneAtATime` |
| `NothingAfterDisconnected` | `SilentAfterDisconnected` | `OneAtATime` |
| **`AfdSystemProofs`** | | |
| `SystemTypeCorrect` | `TypeOK` | |
| `LiveSocketsServed` | `ServesLiveSockets` | |
| `DispatchStaysInBounds` | `DispatchInBounds` | |
| `InterestIsCurrent` | `InterestCurrent` | |
| **`DirectSocketProofs`** | | |
| `DirectTypeCorrect` | `TypeOK` | |
| `CallbacksNeverNest` | `NeverNested` | |
| `OnePollWithinCallbacks` | `OneOutstanding` | |
| `DeletionIsSafe` | `DeletedSafely` | |
| `DirectNoWaitForgotten` | `NoForgottenWait` | |
| `DirectTellsInOrder` | `TellsInOrder` | |
| **`ListeningSocketProofs`** | | |
| `ListenerTypeCorrect` | `TypeOK` | |
| `ListenerKeepsListening` | `KeepsListening` | |
| `ListenerReportsClose` | `ReportsClose` | |
| `ListenerThrowsOnlyIfRaced` | `ThrowsOnlyIfRaced` | |
| `ServerIsApplication` | `ServerSpec => Spec` of `ListeningSocket` | |
| `ServerThrowsWithClients` | `ThrowsWithClients` | |
| **`EchoConnectionProofs`** | | |
| `ConnectionIsApplication` | `ConnectionSpec => Spec` of `DirectSocket` | |
| `ConnectionTypeCorrect` | `ConnectionTypeOK` | |
| `EverythingEchoed` | `EchoesEverything` | |
| **`DirectEchoClientProofs`** | | |
| `ClientIsApplication` | `ClientSpec => Spec` of `DirectSocket` | |
| `DirectClientEndsAsMeant` | `EndsAsMeant` | |
| **`EchoClientProofs`** | | |
| `ClientIsApplication` | `ClientSpec => Spec` of `TcpSocket` | |
| `ClientWaitsForOneThing` | `WaitsForOneThing` | |
| `ClientEndsAsMeant` | `EndsAsMeant` | |

`OneAtATime` means that the application reads and writes only while no earlier
wait is outstanding. `ClientWaitsForOneThing` proves that the echo client is such
an application, without the constant.

### The argument, socket of design A

* `StackInv` adds to the depth that a nested call implies `s = "invalid"`: a
  call begins from an empty stack, or in `close()` on an open socket, which leaves
  it invalid, so a third call has nowhere to begin. It also says that a destroyed
  socket is not registered, without which a late packet could call it.
* `ConnectedFirst` says that `on_connected`, the one callback that could move a
  disconnected socket, is never among the callbacks still to be made: the tests
  of `handle_events` put it first and raise it only while connecting.
* `SocketInv` ties the socket to its polls and the shared output: every pending
  poll asks for `LOCAL_CLOSE`, so `closesocket` completes them all and a closed
  socket has none; and the driver reports `LOCAL_CLOSE` alone. With it
  `NoForgottenWait` is inductive: a completion takes a poll away only by making
  the output non-empty and queueing a packet, an overwritten output is still
  non-empty, and `handle_events` forgets `events` only where it tells something.
* `ReportPending`: between a close that a poll will report and that report a
  packet is queued and the output is `{LOCAL_CLOSE}`; no other poll is left that
  could overwrite it. `close()` itself makes the report in the other case, and the
  only case in neither is `raced`.
* `OneWaitInv` has three parts. `PollInv`: at most one poll is outstanding
  (pending or queued), none before `connect()`, and while one is, `events` is not
  empty. `OutputInv`: a closed socket has no pending poll, `LOCAL_CLOSE` is
  reported alone. `ReportInv`: `on_disconnected` is never among the callbacks
  still to be made, and once it has been made the socket is closed and nothing is
  outstanding. `PollInv` is what makes `close()`'s test of `events` sound: if
  `events` is empty no poll can make the second report; the rest keeps the queued
  packet from making one. The step lemma needs only that *this step* polls with
  nothing outstanding (`WaitsForOne`), not the constant, so it serves the echo client too.
* Refinement: `TellInv` says that until the outcome of `connect()` is told no
  callback runs, the send buffer has room and every poll is `connect()`'s own, so
  what a completion finds is one of the `Outcome`s; and that only news and
  ends may wait for an earlier callback to return. One lemma per action then
  shows a step of `ConnectionEvents` or a stutter, over the projection of the stack to the names of its
  callbacks (`SequenceLemmas`).

### The slot table

`SizeInv`: no request and no report is longer than the arrays, because the driver
refuses a request for the slot behind them; that and nothing in the code is what
keeps the loop in bounds. `LoopInv`: the socket being served is in the slot the
loop is at, or was when the loop came to it, and exists. `TableInv`: every occupied slot
holds an existing socket, which was given that slot, so no socket is in two.
`InterestInv`: a slot that nobody is serving, has left, has taken over or was
interrupted in asks for what its socket wants, and an empty one for nothing; it is
needed at every state, the property only outside `handle_events`.

### The socket of design B

* `NestInv`: no callback clears the accept bit, so once connecting, `events` is never
  empty again, and `close()` makes a call itself only before that, when nothing
  else is in progress; while an open socket handles events,
  `handling_events` is set and nothing polls. So no call begins inside another.
* `LoadInv`: the poll with which `handle_events` will end is counted while it is in
  progress (`Credit`); `Load` then grows only by a poll from outside the
  callbacks, which is bounded by its guard and recorded in `strayed`. `TypeOK`
  (`packets <= MaxPackets`) is not inductive without it.
* `WaitInv`: unless a callback has thrown, `handling_events` is set only while
  `handle_events` will still end with a poll.
* `TellInv`: while the outcome of connecting is not told the socket wants everything, its
  poll asks for that, and the next thing told is one outcome or the close. A
deleted object that is not `orphaned` has no poll and no packet, so nothing can call it.

### The listening sockets

`SizeInv` counts as `LoadInv` does. `EndInv`: an end that was reported, or is about to
be, has happened. `ListenInv`: a socket that listens still wants what it wanted
when it began. `CloseInv`: a closed socket that was not raced wants nothing more,
or all its packets can tell is that it is closed; until `on_disconnected` has run
a packet, or the call just begun, is about to run it. All for both designs at once.

For the servers, `TodoInv` says that behind a callback that tells of an end at most the other
one waits, and `ClosedInv` that once the socket is closed the loop has been left
and only such callbacks are in progress. Those leave nothing wanted, so
`handle_events` polls no closed socket and throws nothing itself. What can throw
besides is `bind()` and `listen()`, before the socket listens, and in design B what
follows an accept, which needs a client to have come (`ServerThrowsWithClients`).

### The programs

Each `*IsApplication` theorem makes every theorem about the socket one about the
program, whose proofs then use the socket's invariants as lemmas.

* `EchoConnection`: every poll asks for data, since `read_data` reads until there
  is none (`AsksInv`); so the client's FIN is reported together with the data that
  precedes it, and as `handle_events` makes `on_readable` first, all of that is
  read before `on_client_close` closes the socket (`FinInv`). With the conservation of
  the amounts (`AmountInv`) nothing is lost.
* The clients: at most one message is on its way (`AmountInv`), since the next is sent only
  in the callback that has read the last unit of the one before; a write that
  falls short ends the program, so nothing polls for room after `on_connected`
  and `on_writable`, which throws, is never called (`QuietInv`). `close` is
reached when everything is back or the server has ended the connection (`EndInv`).
* Design A's client: the callbacks that read and write are always the first of
  their `handle_events` call, and what waits behind them is only the end of the
  connection, whose callbacks do neither (`UseInv`). So when the program polls, the poll
  that called it back is used up and nothing is outstanding. This and
  `OneWaitInv` each need the other and are proved together.
* Design B's client: once connecting it always wants something, so the close in its
  destructor calls nothing (`CloseInv`). It ends normally with messages missing if
  the server closes first: `on_client_close` sets `is_done`.

### What the proofs brought to light

* `CloseSocket` of both clients had no step for `close()` on a closed socket. TLC's
  instances never get there (three messages); with none to send, a reset that is reported
  together with the connection does. The model now does what the code does,
  nothing.
* The servers were no applications of `ListeningSocket`, whose callbacks did not
  throw, while design B's `accepted()` may throw through `handle_events`. The
  application now may (`Throw`).
* `DispatchInBounds` rests on the driver's check of the length of a request,
  not on any check in the code.

### Only model-checked

* `ReaderWoken`, `WriterWoken`, `CloseCompletes`, `WaitersWoken`, `ClientsAnswered`,
  `EndsOnReset`, `ProgramEnds`, `ConnectionEnds`, `AllEchoed`, `TestsPass`: liveness
  under fairness needs `ENABLED`, which TLAPS does not support. Their safety core
  is proved: `NoForgottenWait` (both sockets) and `KeepsListening`.

Proved and in no run of its own: `ThrowsWithClients`, of which
`ClientsAnswered` asks the part that concerns the clients.

## 5. Plan

Done: every component below `socket/` and `socket_without_device_afd/`, both
designs' programs, the refinement of `ConnectionEvents`, the experiments, and a
proof of every invariant and action property the runs check. Left: the
composition of `TcpSocket` with `AfdSystem`, in which a request that the driver
refuses because of another slot's dead handle leaves `events` claiming a poll
(`tcp_socket.cpp:154`), the one hazard that needs both.

## 6. Not modelled

* The UDP helpers (`shared/udp_socket.h`) and `understand-udp.cpp`: no socket
  class uses UDP.
* `GetCompletionKeysAs` (several packets at once), which only design B's `test.cpp` calls;
  `understand.cpp`'s test of an output structure that is too small, an error of the
  driver's argument check; errors that end the process, those of
  `GetQueuedCompletionStatus` and of a poll the system refuses among them.
* `socket/test.cpp` and `socket_without_device_afd/test.cpp`: they test the
  classes that are modelled, with mock callbacks; the models' application
  includes every such caller.
* Numbers of bytes and contents of messages, texts of exceptions, time.
* Vendored code, GoogleTest and project files.
