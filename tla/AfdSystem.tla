----------------------------- MODULE AfdSystem -----------------------------
(***************************************************************************)
(* socket/single_connection_afd_system.cpp (and its copy                   *)
(* multi_connection_afd_system.cpp): the table of slots through which      *)
(* several sockets share one \Device\Afd handle, one input structure, one  *)
(* output structure and one completion key.                                *)
(*                                                                         *)
(* A socket is known by its handle.  What it does with its events is the   *)
(* subject of TcpSocket; here it polls when it likes, its callbacks may    *)
(* poll for any socket, and all that matters of the events is whether      *)
(* there are any, whether the handle is ready for them, and that a socket  *)
(* that polls always asks for the local close too.                         *)
(***************************************************************************)
EXTENDS Naturals, Sequences, FiniteSets

CONSTANTS
  Sockets,       \* sockets the application may create
  NoSocket,      \* a null ppEvents entry, a zero Handle
  NumSlots,      \* num_slots
  PollIds        \* poll requests that may be outstanding at a time (a bound)

ASSUME SystemAssumption ==
  /\ NoSocket \notin Sockets
  /\ NumSlots \in Nat \ {0}          \* validate_slots

VARIABLES
  life,      \* each socket: "new", "open", "closed" (by close()), "destroyed"
  slot,      \* the slot each socket was associated with, in its afd_handle
  table,     \* ppEvents, and with it the Handle members of pPollInfoIn
  interest,  \* the slots whose Events member in pPollInfoIn is not zero
  number,    \* pPollInfoIn->NumberOfHandles
  wants,     \* the sockets whose own events member is not zero
  ready,     \* the sockets whose handle is ready (the driver's view)
  polls,     \* poll request -> entries submitted, <<>> if not pending
  iocp,      \* completed polls whose packets are queued
  out,       \* pPollInfoOut: the handles that have something to report
  loop,      \* the output entry handle_events is at (1 for i = 0), 0 when no
             \* handle_events call is in progress
  serving,   \* the socket whose handle_events is running, or NoSocket
  stale      \* history: the slots that a socket has left or taken over from
             \* another one, or whose socket's callback has thrown, and for
             \* which the socket in the slot has not polled since

driver == <<ready, polls, iocp, out>>
vars == <<life, slot, table, interest, number, wants, driver, loop, serving, stale>>

\* mutant: the slot is not checked at all
AcceptedSlotsUnchecked == 0..NumSlots + 1

\* The slots that associate_socket, disassociate_socket and poll accept.
\* The arrays have NumSlots elements: slot NumSlots is behind their end.
AcceptedSlots == {k \in 0..NumSlots + 1 : ~(k > NumSlots)}

\* The slot of the socket x still has the socket's events and its handle.
Registered(x) == table[slot[x]] = x

\* What becomes of stale when x sets the events of its slot: they are what
\* the socket in the slot wants if that socket is x.
StaleAfter(x) == IF Registered(x) THEN stale \ {slot[x]} ELSE stale \cup {slot[x]}

----------------------------------------------------------------------------
(* The driver (external)                                                   *)

\* The positions in a request of the handles it has something to report of:
\* those for which it asks for events and which are ready or closed.
Answered(request, rdy, lf) ==
  {k \in DOMAIN request :
     request[k].asks /\ (request[k].sock \in rdy \/ lf[request[k].sock] # "open")}

\* What a completing request reports: those entries, in the request's order.
Reports(request, rdy, lf) ==
  LET answered == Answered(request, rdy, lf)
      n == Cardinality(answered)
      increasing == {position \in [1..n -> answered] :
                       \A i, j \in 1..n : i < j => position[i] < position[j]}
  IN  {[k \in 1..n |-> request[position[k]]] : position \in increasing}

\* Every pending request with something to report completes; the last one
\* to do so leaves its report in the output structure they share.
Settle(rdy, lf, pend, o) ==
  LET done == {i \in PollIds : Answered(pend[i], rdy, lf) # {}} IN
  /\ ready' = rdy
  /\ polls' = [i \in PollIds |-> IF i \in done THEN <<>> ELSE pend[i]]
  /\ iocp' = iocp \cup done
  /\ IF done = {} THEN out' = o
     ELSE \E i \in done : out' \in Reports(pend[i], rdy, lf)

\* mutant: the driver does not mind more handles than the structure holds
AcceptsAnySize(n) ==
  \A k \in 0..n - 1 : table[k] # NoSocket /\ life[table[k]] = "open"

\* A request is accepted if the input structure has room for its handles
\* and each of them is the handle of an open socket.
Accepts(n) ==
  /\ n <= NumSlots
  /\ \A k \in 0..n - 1 : table[k] # NoSocket /\ life[table[k]] = "open"

----------------------------------------------------------------------------
(* The sockets                                                             *)

\* The program's single thread is in application code: outside
\* handle_events, or in a callback that a socket's handle_events makes.
CanCall == loop = 0 \/ serving # NoSocket

\* A socket's constructor: associate_socket.  Nothing keeps two sockets from
\* being given the same slot: the later one takes the entry over.
Associate(x, k) ==
  /\ CanCall
  /\ life[x] = "new"
  /\ life' = [life EXCEPT ![x] = "open"]
  /\ slot' = [slot EXCEPT ![x] = k]
  /\ table' = [table EXCEPT ![k] = x]
  /\ number' = k + 1
  /\ stale' = IF table[k] = NoSocket THEN stale ELSE stale \cup {k}
  /\ UNCHANGED <<interest, wants, driver, loop, serving>>

\* mutant: the slot keeps referring to the socket
DisassociateKeepingEntry(x) ==
  /\ loop = 0
  /\ life[x] \in {"open", "closed"}
  /\ life' = [life EXCEPT ![x] = "destroyed"]
  /\ Settle(ready, life', polls, out)
  /\ UNCHANGED <<slot, table, interest, number, wants, loop, serving, stale>>

\* A socket's destructor, called from outside callbacks:
\* disassociate_socket, which clears the slot whatever is in it, and
\* closesocket if the socket is still open.
Disassociate(x) ==
  /\ loop = 0
  /\ life[x] \in {"open", "closed"}
  /\ life' = [life EXCEPT ![x] = "destroyed"]
  /\ table' = [table EXCEPT ![slot[x]] = NoSocket]
  /\ Settle(ready, life', polls, out)
  /\ stale' = stale \cup {slot[x]}
  /\ UNCHANGED <<slot, interest, number, wants, loop, serving>>

\* A socket's close(): the slot keeps the handle.
Close(x) ==
  /\ CanCall
  /\ life[x] = "open"
  /\ life' = [life EXCEPT ![x] = "closed"]
  /\ Settle(ready, life', polls, out)
  /\ UNCHANGED <<slot, table, interest, number, wants, loop, serving, stale>>

\* A socket adds to its events and polls.  The request covers the first
\* number slots with the events each of them last had; if the driver
\* refuses it the call throws.
Poll(x) ==
  /\ CanCall
  /\ life[x] = "open"
  /\ wants' = wants \cup {x}
  /\ interest' = interest \cup {slot[x]}
  /\ IF Accepts(number)
     THEN LET request == [k \in 1..number |->
                            [sock |-> table[k - 1], asks |-> k - 1 \in interest']]
          IN  \E i \in PollIds \ iocp :
                 /\ polls[i] = <<>>
                 /\ Settle(ready, life, [polls EXCEPT ![i] = request], <<>>)
     ELSE out' = <<>> /\ UNCHANGED <<ready, polls, iocp>>
  /\ stale' = StaleAfter(x)
  /\ UNCHANGED <<life, slot, table, number, loop, serving>>

----------------------------------------------------------------------------
(* single_connection_afd_system::handle_events                             *)

\* The main loop takes a packet.
Dispatch ==
  /\ loop = 0
  /\ \E i \in iocp : iocp' = iocp \ {i}
  /\ loop' = 1
  /\ UNCHANGED <<life, slot, table, interest, number, wants, ready, polls, out, serving, stale>>

\* Entry i of the output goes to the socket in slot i, whose handle_events
\* begins by clearing its own events.
Serve ==
  /\ loop > 0 /\ serving = NoSocket
  /\ loop <= Len(out)
  /\ serving' = table[loop - 1]
  /\ loop' = IF serving' = NoSocket THEN loop + 1 ELSE loop
  /\ wants' = wants \ {serving'}
  /\ UNCHANGED <<life, slot, table, interest, number, driver, stale>>

\* mutant: the events a socket's handle_events returns are not stored
ServedWithoutStoring ==
  /\ serving # NoSocket
  /\ serving' = NoSocket
  /\ loop' = loop + 1
  /\ UNCHANGED <<life, slot, table, interest, number, wants, driver, stale>>

\* The socket returns the events it wants by now.
Served ==
  /\ serving # NoSocket
  /\ interest' = IF serving \in wants THEN interest \cup {loop - 1}
                 ELSE interest \ {loop - 1}
  /\ serving' = NoSocket
  /\ loop' = loop + 1
  /\ stale' = StaleAfter(serving)
  /\ UNCHANGED <<life, slot, table, number, wants, driver>>

\* A callback of the socket throws: neither what the socket wants by now nor
\* the rest of the output is looked at.
Thrown ==
  /\ serving # NoSocket
  /\ serving' = NoSocket
  /\ loop' = 0
  /\ stale' = stale \cup {loop - 1}
  /\ UNCHANGED <<life, slot, table, interest, number, wants, driver>>

\* The loop tests pPollInfoOut->NumberOfHandles as it is by now.
LoopEnds ==
  /\ loop > 0 /\ serving = NoSocket
  /\ loop > Len(out)
  /\ loop' = 0
  /\ UNCHANGED <<life, slot, table, interest, number, wants, driver, serving, stale>>

----------------------------------------------------------------------------

Network ==
  \E x \in Sockets :
    /\ life[x] = "open"
    /\ \/ x \notin ready /\ Settle(ready \cup {x}, life, polls, out)
       \/ x \in ready /\ Settle(ready \ {x}, life, polls, out)
    /\ UNCHANGED <<life, slot, table, interest, number, wants, loop, serving, stale>>

Init ==
  /\ life = [x \in Sockets |-> "new"]
  /\ slot = [x \in Sockets |-> 0]
  /\ table = [k \in AcceptedSlots |-> NoSocket]
  /\ interest = {}
  /\ number = 1
  /\ wants = {}
  /\ ready = {}
  /\ polls = [i \in PollIds |-> <<>>]
  /\ iocp = {}
  /\ out = <<>>
  /\ loop = 0
  /\ serving = NoSocket
  /\ stale = {}

Next ==
  \/ \E x \in Sockets : \/ \E k \in AcceptedSlots : Associate(x, k)
                        \/ Disassociate(x)
                        \/ Close(x)
                        \/ Poll(x)
  \/ Dispatch \/ Serve \/ Served \/ Thrown \/ LoopEnds
  \/ Network

Spec == Init /\ [][Next]_vars

----------------------------------------------------------------------------

Entries == [sock : Sockets, asks : BOOLEAN]

TypeOK ==
  /\ life \in [Sockets -> {"new", "open", "closed", "destroyed"}]
  /\ slot \in [Sockets -> AcceptedSlots]
  /\ table \in [AcceptedSlots -> Sockets \cup {NoSocket}]
  /\ interest \in SUBSET AcceptedSlots
  /\ number \in 1..NumSlots + 1
  /\ wants \in SUBSET Sockets
  /\ ready \in SUBSET Sockets
  /\ polls \in [PollIds -> Seq(Entries)]
  /\ iocp \in SUBSET PollIds
  /\ out \in Seq(Entries)
  /\ loop \in 0..NumSlots + 1
  /\ serving \in Sockets \cup {NoSocket}
  /\ stale \in SUBSET AcceptedSlots

\* handle_events calls sockets that exist, however late the packet.
ServesLiveSockets == serving # NoSocket => life[serving] \in {"open", "closed"}

\* The slot behind the end of the arrays may be associated, but no report
\* is ever long enough for handle_events to look it up.
DispatchInBounds == loop > 0 /\ loop <= Len(out) => loop <= NumSlots

\* Outside handle_events the input structure asks on behalf of each socket
\* exactly if the socket itself waits, so that what one socket's poll submits
\* for the others is what they want.  Neither a destructor nor an exception
\* out of a callback updates it, nor does a socket that takes a slot over:
\* until the socket in such a slot polls it is out of date
\* (single_connection_afd_system.cpp:83-87, 92-105, 160-163).
InterestCurrent ==
  loop = 0 => \A k \in AcceptedSlots \ stale :
                table[k] # NoSocket => (k \in interest <=> table[k] \in wants)

(* What a comment says and the code does not do                            *)

\* single_connection_afd_system.cpp:154-156 ("need to map"), test.cpp:1246:
\* what the driver reports about the handle of a socket that is open and still
\* in its slot goes to that socket, whatever position the report has.  (A
\* report about a socket that has gone, or that another one has replaced, may
\* well reach the one that has the slot now: that is another matter.)
RightSocketServed ==
  [][\A x \in Sockets :
       /\ serving = NoSocket /\ serving' # NoSocket
       /\ out[loop].sock = x /\ life[x] = "open" /\ Registered(x)
       => serving' = x]_vars

============================================================================
