-------------------------- MODULE TcpSocketProofs --------------------------
(***************************************************************************)
(* Theorems about TcpSocket, for every number of poll requests, every size *)
(* of the receive buffer and every application.                            *)
(***************************************************************************)
EXTENDS TcpSocket, SequenceLemmas

----------------------------------------------------------------------------
(* The operators the actions are built from                                *)

\* The driver reports known conditions, and the local close alone and only
\* once the socket is closed.
LEMMA ReadyFacts ==
  ASSUME NEW e \in Endpoints(MaxInbox)
  PROVE  /\ Ready(e) \in SUBSET Events
         /\ e.link # "closed" => "LOCAL_CLOSE" \notin Ready(e)
         /\ e.link = "closed" => Ready(e) = {"LOCAL_CLOSE"}
  BY DEF Ready, Endpoints, Links, Events, If

\* handle_events calls on_disconnected exactly when the local close is
\* among its events, and then alone if it is the only one.
LEMMA RaisedFacts ==
  ASSUME NEW state, NEW ev
  PROVE  /\ Raised(state, ev) \in SUBSET Callbacks
         /\ "LOCAL_CLOSE" \notin ev => "on_disconnected" \notin Raised(state, ev)
         /\ Raised(state, {"LOCAL_CLOSE"}) = {"on_disconnected"}
  BY DEF Raised, CallbackFor, Callbacks, If

\* The endpoints the actions name are endpoints, whatever they start from.
LEMMA EndpointFacts ==
  /\ NewEndpoint \in Endpoints(MaxInbox)
  /\ ClosedEndpoint \in Endpoints(MaxInbox) /\ ClosedEndpoint.link = "closed"
  /\ \A e \in Endpoints(MaxInbox) : ResetEndpoint(e) \in Endpoints(MaxInbox)
<1>1. NewEndpoint \in Endpoints(MaxInbox)
  BY MaxInboxAssumption DEF NewEndpoint, Endpoints, Links
<1>2. ASSUME NEW e \in Endpoints(MaxInbox)
      PROVE  ResetEndpoint(e) \in Endpoints(MaxInbox)
  BY MaxInboxAssumption DEF Endpoints, Links, ResetEndpoint
<1>3. ClosedEndpoint \in Endpoints(MaxInbox) /\ ClosedEndpoint.link = "closed"
  BY <1>1 DEF ClosedEndpoint, Endpoints, Links
<1>4. QED
  BY <1>1, <1>2, <1>3

\* Among callbacks still to be made there is a first one.
LEMMA FirstFacts ==
  ASSUME NEW todo \in SUBSET Callbacks, todo # {}
  PROVE  First(todo) \in todo
<1>1. \A c \in Callbacks : Rank[c] \in 0..5
  BY DEF Callbacks, Rank
<1>2. \E c \in todo : \A d \in todo : Rank[c] <= Rank[d]
  <2>0. \A k \in 0..5 : (\E c \in todo : Rank[c] = k /\ \A d \in todo : Rank[d] >= k)
          => \E c \in todo : \A d \in todo : Rank[c] <= Rank[d]
    BY <1>1
  <2>1. CASE \E c \in todo : Rank[c] = 0
    BY <2>0, <2>1, <1>1
  <2>2. CASE (\A c \in todo : Rank[c] >= 1) /\ \E c \in todo : Rank[c] = 1
    BY <2>0, <2>2, <1>1
  <2>3. CASE (\A c \in todo : Rank[c] >= 2) /\ \E c \in todo : Rank[c] = 2
    BY <2>0, <2>3, <1>1
  <2>4. CASE (\A c \in todo : Rank[c] >= 3) /\ \E c \in todo : Rank[c] = 3
    BY <2>0, <2>4, <1>1
  <2>5. CASE (\A c \in todo : Rank[c] >= 4) /\ \E c \in todo : Rank[c] = 4
    BY <2>0, <2>5, <1>1
  <2>6. CASE \A c \in todo : Rank[c] >= 5
    BY <2>0, <2>6, <1>1
  <2>7. QED
    BY <2>1, <2>2, <2>3, <2>4, <2>5, <2>6, <1>1
<1>3. QED
  BY <1>2 DEF First

\* What a completion or a network event does to the driver's variables:
\* polls only complete, each into one packet, and the output buffer keeps
\* its value or receives a condition some completing poll asked for.
LEMMA SettleFacts ==
  ASSUME NEW e \in Endpoints(MaxInbox), NEW pend \in [PollIds -> SUBSET Events],
         NEW o \in SUBSET Events, iocp \in SUBSET PollIds, Settle(e, pend, o)
  PROVE  /\ net' \in Endpoints(MaxInbox) /\ net' = e
         /\ polls' \in [PollIds -> SUBSET Events]
         /\ iocp' \in SUBSET PollIds
         /\ out' \in SUBSET Events
         /\ \A i \in PollIds : polls'[i] # {} => polls'[i] = pend[i]
         /\ \A i \in PollIds : i \in iocp' => i \in iocp \/ pend[i] # {}
         /\ \A i \in PollIds : i \in iocp' /\ i \notin iocp => polls'[i] = {}
         /\ \A i \in PollIds : Ready(e) \subseteq pend[i] /\ Ready(e) # {}
                                 => polls'[i] = {}
         /\ out' = o \/ (out' \subseteq Ready(e) /\ out' # {})
<1> DEFINE done == Completing(pend, Ready(e))
<1>1. /\ Ready(e) \in SUBSET Events
      /\ net' = e
      /\ \E dropped : polls' = [i \in PollIds |->
                                  IF i \in done \cup dropped THEN {} ELSE pend[i]]
      /\ iocp' = iocp \cup done
      /\ IF done = {} THEN out' = o
         ELSE \E i \in done : out' = pend[i] \cap Ready(e)
  BY ReadyFacts DEF Settle
<1>2. done = {i \in PollIds : pend[i] \cap Ready(e) # {}}
  BY DEF Completing
<1> HIDE DEF done
<1>3. out' \in SUBSET Events /\ (out' = o \/ (out' \subseteq Ready(e) /\ out' # {}))
  BY <1>1, <1>2
<1>4. /\ polls' \in [PollIds -> SUBSET Events]
      /\ iocp' \in SUBSET PollIds
  BY <1>1, <1>2
<1>5. \A i \in PollIds : Ready(e) \subseteq pend[i] /\ Ready(e) # {} => polls'[i] = {}
  BY <1>1, <1>2
<1>6. QED
  BY <1>1, <1>2, <1>3, <1>4, <1>5

\* A poll is a Settle with a free request added and the buffer cleared.
LEMMA PollFacts ==
  ASSUME NEW e \in Endpoints(MaxInbox), NEW interest \in SUBSET Events,
         TypeOK, Poll(interest, e)
  PROVE  /\ net' \in Endpoints(MaxInbox) /\ net' = e
         /\ polls' \in [PollIds -> SUBSET Events]
         /\ iocp' \in SUBSET PollIds
         /\ out' \in SUBSET Events
         /\ out' \subseteq Ready(e)
         /\ \E i \in PollIds \ Outstanding :
               \A j \in PollIds \ {i} :
                  /\ polls'[j] # {} => polls[j] # {}
                  /\ j \in iocp' => j \in Outstanding
         /\ \A i \in PollIds : i \in iocp' /\ i \notin iocp => polls'[i] = {}
         /\ \A i \in PollIds : polls'[i] # {} => polls'[i] \in {polls[i], interest}
<1>1. PICK i \in PollIds \ Outstanding :
         Settle(e, [polls EXCEPT ![i] = interest], {})
  BY DEF Poll
<1> DEFINE pend == [polls EXCEPT ![i] = interest]
<1>2. /\ pend \in [PollIds -> SUBSET Events]
      /\ \A j \in PollIds \ {i} : pend[j] = polls[j]
      /\ iocp \in SUBSET PollIds
  BY DEF TypeOK
<1>3. Settle(e, pend, {})
  BY <1>1
<1> HIDE DEF pend
<1>4. /\ net' \in Endpoints(MaxInbox) /\ net' = e
      /\ polls' \in [PollIds -> SUBSET Events]
      /\ iocp' \in SUBSET PollIds
      /\ out' \in SUBSET Events
      /\ \A j \in PollIds : polls'[j] # {} => polls'[j] = pend[j]
      /\ \A j \in PollIds : j \in iocp' => j \in iocp \/ pend[j] # {}
      /\ \A j \in PollIds : j \in iocp' /\ j \notin iocp => polls'[j] = {}
      /\ out' = {} \/ (out' \subseteq Ready(e) /\ out' # {})
  BY <1>2, <1>3, SettleFacts
<1>5. \A j \in PollIds \ {i} : /\ polls'[j] # {} => polls[j] # {}
                               /\ j \in iocp' => j \in Outstanding
  BY <1>2, <1>4 DEF Outstanding
<1>6. \A j \in PollIds : polls'[j] # {} => polls'[j] \in {polls[j], interest}
  <2>1. pend[i] = interest
    BY DEF pend, TypeOK
  <2>2. QED
    BY <1>2, <1>4, <2>1
<1>7. QED
  BY <1>1, <1>4, <1>5, <1>6

\* Making a callback keeps the types, pushes one frame on its callers and
\* counts the callback it made.
LEMMA InvokeFacts ==
  ASSUME NEW todo \in SUBSET Callbacks, todo # {}, NEW callers \in Seq(Frames),
         TypeOK, Invoke(todo, callers)
  PROVE  /\ connection_state' \in ConnectionStates
         /\ connection_state' = "created" => connection_state = "created"
         /\ stack' \in Seq(Frames)
         /\ Len(stack') = Len(callers) + 1
         /\ \A i \in 1..Len(callers) : stack'[i] = callers[i]
         /\ stack'[Len(callers) + 1] = [run |-> First(todo), todo |-> todo \ {First(todo)}]
         /\ First(todo) \in todo
         /\ calls' \in [Milestones -> 0..2]
         /\ \A m \in Milestones :
               /\ m # First(todo) => calls'[m] = calls[m]
               /\ m = First(todo) /\ calls[m] = 0 => calls'[m] = 1
<1> DEFINE c == First(todo)
           frame == [run |-> c, todo |-> todo \ {c}]
<1>1. c \in todo
  BY FirstFacts
<1>2. /\ connection_state' = StateFor(c, connection_state)
      /\ stack' = Append(callers, frame)
      /\ calls' = [m \in Milestones |->
                     calls[m] + IF m = c /\ calls[m] < 2 THEN 1 ELSE 0]
  BY DEF Invoke
<1> HIDE DEF c
<1>3. frame \in Frames
  BY <1>1 DEF Frames
<1>4. /\ connection_state' \in ConnectionStates
      /\ connection_state' = "created" => connection_state = "created"
  BY <1>2 DEF StateFor, ConnectionStates, TypeOK
<1>5. calls \in [Milestones -> 0..2]
  BY DEF TypeOK
<1>6. /\ calls' \in [Milestones -> 0..2]
      /\ \A m \in Milestones : /\ m # c => calls'[m] = calls[m]
                               /\ m = c /\ calls[m] = 0 => calls'[m] = 1
  <2>1. ASSUME NEW m \in Milestones
        PROVE  LET n == calls[m] + IF m = c /\ calls[m] < 2 THEN 1 ELSE 0
               IN  /\ n \in 0..2
                   /\ m # c => n = calls[m]
                   /\ m = c /\ calls[m] = 0 => n = 1
    <3>1. calls[m] \in 0..2
      BY <1>5
    <3>2. QED
      BY <3>1
  <2>2. QED
    BY <1>2, <2>1
<1> HIDE DEF frame
<1>7. /\ stack' \in Seq(Frames)
      /\ Len(stack') = Len(callers) + 1
      /\ \A i \in 1..Len(callers) : stack'[i] = callers[i]
      /\ stack'[Len(callers) + 1] = frame
  BY <1>2, <1>3, AppendProperties
<1>8. QED
  BY <1>1, <1>4, <1>6, <1>7 DEF c, frame

\* handle_events clears tcp_socket::events and makes its first callback, if
\* there is one to make.
LEMMA HandleEventsFacts ==
  ASSUME NEW ev \in SUBSET Events, TypeOK, HandleEvents(ev)
  PROVE  /\ events' = {}
         /\ connection_state' \in ConnectionStates
         /\ connection_state' = "created" => connection_state = "created"
         /\ stack' \in Seq(Frames)
         /\ calls' \in [Milestones -> 0..2]
         /\ LET todo == Raised(connection_state, ev) IN
              \/ todo = {} /\ stack' = stack /\ calls' = calls
              \/ todo # {} /\ Invoke(todo, stack)
<1>1. Raised(connection_state, ev) \in SUBSET Callbacks
  BY RaisedFacts
<1>2. stack \in Seq(Frames)
  BY DEF TypeOK
<1>3. CASE Raised(connection_state, ev) = {}
  BY <1>3 DEF HandleEvents, TypeOK
<1>4. CASE Raised(connection_state, ev) # {}
  <2>1. Invoke(Raised(connection_state, ev), stack) /\ events' = {}
    BY <1>4 DEF HandleEvents
  <2>2. QED
    BY <1>1, <1>2, <1>4, <2>1, InvokeFacts
<1>5. QED
  BY <1>3, <1>4

\* The callback in progress and the frames below it.
LEMMA TopFacts ==
  ASSUME TypeOK, stack # <<>>
  PROVE  /\ Len(stack) \in Nat \ {0}
         /\ Top \in Frames
         /\ Callers \in Seq(Frames)
         /\ Len(Callers) = Len(stack) - 1
         /\ \A i \in 1..Len(Callers) : Callers[i] = stack[i]
<1>1. stack \in Seq(Frames)
  BY DEF TypeOK
<1>2. /\ Len(stack) \in Nat \ {0} /\ Top \in Frames
      /\ \A i \in 1..Len(stack) : stack[i] \in Frames
  BY <1>1, EmptySeq, LenProperties, ElementOfSeq DEF Top
<1> DEFINE n == Len(stack) - 1
<1>3. /\ SubSeq(stack, 1, n) \in Seq(Frames)
      /\ Len(SubSeq(stack, 1, n)) = IF 1 <= n THEN n - 1 + 1 ELSE 0
      /\ \A i \in 1..n - 1 + 1 : SubSeq(stack, 1, n)[i] = stack[1 + i - 1]
  <2>1. 1 \in Int /\ n \in Int /\ \A i \in 1..n : stack[i] \in Frames
    BY <1>2
  <2>2. QED
    BY <2>1, SubSeqProperties
<1>4. /\ Callers \in Seq(Frames)
      /\ Len(Callers) = Len(stack) - 1
      /\ \A i \in 1..Len(Callers) : Callers[i] = stack[i]
  <2>1. n \in Nat /\ n - 1 + 1 = n /\ \A i \in 1..n : 1 + i - 1 = i
    BY <1>2
  <2>2. (IF 1 <= n THEN n - 1 + 1 ELSE 0) = n
    BY <2>1
  <2>3. Len(SubSeq(stack, 1, n)) = n
    BY <1>3, <2>2
  <2>4. \A i \in 1..n : SubSeq(stack, 1, n)[i] = stack[i]
    BY <1>3, <2>1
  <2>5. QED
    BY <1>3, <2>3, <2>4 DEF Callers
<1>5. QED
  BY <1>2, <1>4

----------------------------------------------------------------------------
(* Type correctness                                                        *)

LEMMA InitTypeOK == Init => TypeOK
<1>1. <<>> \in Seq(Frames)
  BY EmptySeq
<1>2. Init => net \in Endpoints(MaxInbox)
  BY EndpointFacts DEF Init
<1>3. Init => /\ calls \in [Milestones -> 0..2]
              /\ polls \in [PollIds -> SUBSET Events]
  BY DEF Init
<1>4. QED
  BY <1>1, <1>2, <1>3 DEF Init, TypeOK, ConnectionStates

\* What the peer does is a network event on some endpoint.
LEMMA PeerFacts ==
  ASSUME TypeOK, Peer
  PROVE  \E e \in Endpoints(MaxInbox) : e.link # "closed" /\ Network(e)
<1>1. net \in Endpoints(MaxInbox)
  BY DEF TypeOK
<1>2. CASE PeerAccepts
  <2>1. [net EXCEPT !.link = "up"] \in Endpoints(MaxInbox)
        /\ [net EXCEPT !.link = "up"].link # "closed"
    BY <1>1, <1>2 DEF PeerAccepts, Endpoints, Links
  <2>2. QED
    BY <1>2, <2>1 DEF PeerAccepts
<1>3. CASE PeerRefuses
  <2>1. [net EXCEPT !.link = "refused"] \in Endpoints(MaxInbox)
        /\ [net EXCEPT !.link = "refused"].link # "closed"
    BY <1>1, <1>3 DEF PeerRefuses, Endpoints, Links
  <2>2. QED
    BY <1>3, <2>1 DEF PeerRefuses
<1>4. CASE PeerSends
  <2>1. net.inbox + 1 \in 0..MaxInbox
    BY <1>1, <1>4, MaxInboxAssumption DEF PeerSends, Endpoints
  <2>2. [net EXCEPT !.inbox = net.inbox + 1] \in Endpoints(MaxInbox)
        /\ [net EXCEPT !.inbox = net.inbox + 1].link # "closed"
    BY <1>1, <1>4, <2>1 DEF PeerSends, Endpoints
  <2>3. QED
    BY <1>4, <2>2 DEF PeerSends
<1>5. CASE PeerShutsDown
  <2>1. [net EXCEPT !.fin = TRUE] \in Endpoints(MaxInbox)
        /\ [net EXCEPT !.fin = TRUE].link # "closed"
    BY <1>1, <1>5 DEF PeerShutsDown, Endpoints
  <2>2. QED
    BY <1>5, <2>1 DEF PeerShutsDown
<1>6. CASE PeerReads
  <2>1. [net EXCEPT !.room = TRUE] \in Endpoints(MaxInbox)
        /\ [net EXCEPT !.room = TRUE].link # "closed"
    BY <1>1, <1>6 DEF PeerReads, Endpoints
  <2>2. QED
    BY <1>6, <2>1 DEF PeerReads
<1>7. CASE PeerAborts
  <2>1. ResetEndpoint(net) \in Endpoints(MaxInbox)
    BY <1>1, EndpointFacts
  <2>2. ResetEndpoint(net).link # "closed"
    BY DEF ResetEndpoint
  <2>3. QED
    BY <1>7, <2>1, <2>2 DEF PeerAborts
<1>8. QED
  BY <1>2, <1>3, <1>4, <1>5, <1>6, <1>7 DEF Peer

LEMMA NextTypeOK ==
  ASSUME TypeOK, [Next]_vars
  PROVE  TypeOK'
<1> USE DEF kernel
<1>0. /\ net \in Endpoints(MaxInbox)
      /\ polls \in [PollIds -> SUBSET Events]
      /\ iocp \in SUBSET PollIds
      /\ out \in SUBSET Events
  BY DEF TypeOK
<1>1. CASE Connect
  <2>1. PICK link \in {"connecting", "up"} :
           Poll(ConnectEvents, [net EXCEPT !.link = link])
    BY <1>1 DEF Connect
  <2>2. [net EXCEPT !.link = link] \in Endpoints(MaxInbox)
    BY <1>0 DEF Endpoints, Links
  <2>3. ConnectEvents \in SUBSET Events
    BY DEF ConnectEvents, Events
  <2>4. QED
    BY <1>1, <2>1, <2>2, <2>3, PollFacts DEF Connect, TypeOK, ConnectionStates
<1>2. CASE ReadSome
  <2>1. net' \in Endpoints(MaxInbox)
    BY <1>0, <1>2, MaxInboxAssumption DEF ReadSome, Endpoints
  <2>2. QED
    BY <1>2, <2>1 DEF ReadSome, TypeOK
<1>3. CASE ReadNothing
  <2>1. ReadEvents \in SUBSET Events
    BY DEF ReadEvents, Events
  <2>2. events' \in SUBSET Events /\ Poll(events', net)
    BY <1>3, <2>1 DEF ReadNothing, PollFor, TypeOK
  <2>3. QED
    BY <1>0, <1>3, <2>2, PollFacts DEF ReadNothing, PollFor, TypeOK
<1>4. CASE WriteAll
  <2>1. net' \in Endpoints(MaxInbox)
    BY <1>0, <1>4 DEF WriteAll, Endpoints
  <2>2. QED
    BY <1>4, <2>1 DEF WriteAll, TypeOK
<1>5. CASE WriteSome
  <2>1. WriteEvents \in SUBSET Events
    BY DEF WriteEvents, Events
  <2>2. [net EXCEPT !.room = FALSE] \in Endpoints(MaxInbox)
    BY <1>0 DEF Endpoints
  <2>3. PICK e \in Endpoints(MaxInbox) : PollFor(WriteEvents, e)
    BY <1>0, <1>5, <2>2 DEF WriteSome
  <2>4. events' \in SUBSET Events /\ Poll(events', e)
    BY <2>1, <2>3 DEF PollFor, TypeOK
  <2>5. QED
    BY <2>3, <2>4, PollFacts DEF PollFor, TypeOK
<1>6. CASE Shutdown
  BY <1>6 DEF Shutdown, TypeOK
<1>7. CASE Close
  <2>1. ClosedEndpoint \in Endpoints(MaxInbox)
    BY EndpointFacts
  <2>2. Settle(ClosedEndpoint, polls, out)
    BY <1>7 DEF Close
  <2>3. /\ net' \in Endpoints(MaxInbox)
        /\ polls' \in [PollIds -> SUBSET Events]
        /\ iocp' \in SUBSET PollIds
        /\ out' \in SUBSET Events
    BY <1>0, <2>1, <2>2, SettleFacts
  <2>4. {"LOCAL_CLOSE"} \in SUBSET Events
    BY DEF Events
  <2>5. /\ events' \in SUBSET Events
        /\ connection_state' \in ConnectionStates
        /\ stack' \in Seq(Frames)
        /\ calls' \in [Milestones -> 0..2]
    BY <1>7, <2>4, HandleEventsFacts DEF Close, TypeOK
  <2>6. /\ s' \in {"open", "invalid"} /\ raced' \in BOOLEAN
        /\ shut' \in SUBSET {"receive", "send"}
        /\ registered' \in BOOLEAN /\ alive' \in BOOLEAN
    BY <1>7 DEF Close, TypeOK
  <2>7. QED
    BY <2>3, <2>5, <2>6 DEF TypeOK
<1>8. CASE Destroy
  <2>1. ClosedEndpoint \in Endpoints(MaxInbox)
    BY EndpointFacts
  <2>2. QED
    BY <1>0, <1>8, <2>1, SettleFacts DEF Destroy, TypeOK
<1>9. CASE Dispatch
  <2>1. /\ events' \in SUBSET Events
        /\ connection_state' \in ConnectionStates
        /\ stack' \in Seq(Frames)
        /\ calls' \in [Milestones -> 0..2]
    BY <1>0, <1>9, HandleEventsFacts DEF Dispatch, TypeOK
  <2>2. iocp' \in SUBSET PollIds
    BY <1>0, <1>9 DEF Dispatch
  <2>3. UNCHANGED <<s, net, polls, out, shut, registered, alive, raced>>
    BY <1>9 DEF Dispatch
  <2>4. QED
    BY <2>1, <2>2, <2>3 DEF TypeOK
<1>10. CASE Return
  <2>1. UNCHANGED <<s, events, kernel, shut, registered, alive, raced>>
    BY <1>10 DEF Return
  <2>2. Top.todo \in SUBSET Callbacks /\ Callers \in Seq(Frames)
    BY <1>10, TopFacts DEF Return, Frames
  <2>3. /\ connection_state' \in ConnectionStates
        /\ stack' \in Seq(Frames)
        /\ calls' \in [Milestones -> 0..2]
    <3>1. CASE Top.todo # {}
      BY <1>10, <2>2, <3>1, InvokeFacts DEF Return
    <3>2. CASE Top.todo = {}
      BY <1>10, <2>2, <3>2 DEF Return, TypeOK
    <3>3. QED
      BY <3>1, <3>2
  <2>4. QED
    BY <2>1, <2>3 DEF TypeOK
<1>11. CASE Throw
  BY <1>11, TopFacts DEF Throw, TypeOK
<1>12. CASE Peer
  <2>1. PICK e \in Endpoints(MaxInbox) : Network(e)
    BY <1>12, PeerFacts
  <2>2. QED
    BY <1>0, <2>1, SettleFacts DEF Network, TypeOK
<1>13. CASE UNCHANGED vars
  BY <1>13 DEF vars, TypeOK
<1>14. QED
  BY <1>1, <1>2, <1>3, <1>4, <1>5, <1>6, <1>7, <1>8, <1>9, <1>10, <1>11,
     <1>12, <1>13 DEF Next, Application, Thread

\* Every state of the socket, of the driver's polls and of the callbacks in
\* progress has the shape the code declares, for every application.
THEOREM TypeCorrect == Spec => []TypeOK
  BY InitTypeOK, NextTypeOK, PTL DEF Spec

----------------------------------------------------------------------------
(* Callbacks in progress, for every application                            *)

\* The inner of two calls in progress is the one close() makes itself, so
\* the socket is already closed and close() does not make a third.
StackInv ==
  /\ ~alive => ~registered /\ stack = <<>>
  /\ Len(stack) \in 0..2
  /\ Len(stack) = 2 =>
       s = "invalid" /\ stack[2] = [run |-> "on_disconnected", todo |-> {}]

\* The actions that make no callback and end none.
LEMMA StackUnchanged ==
  ASSUME Connect \/ ReadSome \/ ReadNothing \/ WriteAll \/ WriteSome
         \/ Shutdown \/ Peer \/ UNCHANGED vars
  PROVE  UNCHANGED <<s, registered, alive, stack, calls>>
  BY DEF Connect, ReadSome, ReadNothing, WriteAll, WriteSome, PollFor,
     Shutdown, Peer, PeerAccepts, PeerRefuses, PeerSends, PeerShutsDown,
     PeerReads, PeerAborts, Network, vars

\* close() reports to a single callback, on_disconnected.
LEMMA CloseReports ==
  ASSUME TypeOK, HandleEvents({"LOCAL_CLOSE"})
  PROVE  /\ Len(stack') = Len(stack) + 1
         /\ \A i \in 1..Len(stack) : stack'[i] = stack[i]
         /\ stack'[Len(stack) + 1] = [run |-> "on_disconnected", todo |-> {}]
         /\ calls["on_disconnected"] = 0 => calls'["on_disconnected"] = 1
<1>1. {"LOCAL_CLOSE"} \in SUBSET Events
  BY DEF Events
<1>2. Raised(connection_state, {"LOCAL_CLOSE"}) = {"on_disconnected"}
  BY RaisedFacts
<1>3. Invoke({"on_disconnected"}, stack)
  BY <1>1, <1>2, HandleEventsFacts
<1>4. {"on_disconnected"} \in SUBSET Callbacks /\ stack \in Seq(Frames)
  BY DEF Callbacks, TypeOK
<1>5. /\ Len(stack') = Len(stack) + 1
      /\ \A i \in 1..Len(stack) : stack'[i] = stack[i]
      /\ stack'[Len(stack) + 1] =
           [run |-> First({"on_disconnected"}),
            todo |-> {"on_disconnected"} \ {First({"on_disconnected"})}]
      /\ First({"on_disconnected"}) \in {"on_disconnected"}
      /\ \A m \in Milestones :
            m = First({"on_disconnected"}) /\ calls[m] = 0 => calls'[m] = 1
  BY <1>3, <1>4, InvokeFacts
<1>6. First({"on_disconnected"}) = "on_disconnected"
      /\ "on_disconnected" \in Milestones
  BY <1>5 DEF Milestones
<1>7. QED
  BY <1>5, <1>6

\* Ending the innermost call leaves at most one.
LEMMA CallersShorter ==
  ASSUME TypeOK, StackInv, stack # <<>>, stack' = Callers,
         UNCHANGED <<s, registered, alive>>
  PROVE  StackInv'
<1>1. Len(stack) \in Nat \ {0} /\ Len(Callers) = Len(stack) - 1
  BY TopFacts
<1>2. PICK n \in 0..2 : n = Len(stack)
  BY DEF StackInv
<1>3. n # 0 /\ Len(Callers) = n - 1
  BY <1>1, <1>2
<1>4. Len(stack') \in 0..2 /\ Len(stack') # 2
  BY <1>3
<1>5. alive /\ alive'
  BY DEF StackInv
<1>6. QED
  BY <1>4, <1>5 DEF StackInv

LEMMA NextStackInv ==
  ASSUME TypeOK, StackInv, [Next]_vars
  PROVE  StackInv'
<1>0. stack \in Seq(Frames) /\ Len(stack) \in Nat
  BY LenProperties DEF TypeOK
<1>1. CASE Connect \/ ReadSome \/ ReadNothing \/ WriteAll \/ WriteSome
           \/ Shutdown \/ Peer \/ UNCHANGED vars
  BY <1>1, StackUnchanged DEF StackInv
<1>2. CASE Close
  <2>1. s = "open" /\ s' = "invalid" /\ alive /\ alive' = alive
    BY <1>2 DEF Close, CanCall
  <2>2. CASE events = {}
    <3>1. HandleEvents({"LOCAL_CLOSE"})
      BY <1>2, <2>2 DEF Close
    <3>2. /\ Len(stack') = Len(stack) + 1
          /\ stack'[Len(stack) + 1] = [run |-> "on_disconnected", todo |-> {}]
      BY <3>1, CloseReports
    <3>3. Len(stack) \in {0, 1}
      <4>1. Len(stack) # 2 /\ Len(stack) \in 0..2
        BY <2>1 DEF StackInv
      <4>2. QED
        BY <1>0, <4>1
    <3>4. PICK n \in {0, 1} : n = Len(stack)
      BY <3>3
    <3>5. Len(stack') = n + 1
          /\ stack'[n + 1] = [run |-> "on_disconnected", todo |-> {}]
      BY <3>2, <3>4
    <3>6. Len(stack') \in 0..2 /\ Len(stack') # 0
      BY <3>5
    <3>7. Len(stack') = 2 => n + 1 = 2
      BY <3>5
    <3>8. Len(stack') = 2 => stack'[2] = [run |-> "on_disconnected", todo |-> {}]
      BY <3>5, <3>7
    <3>9. QED
      BY <2>1, <3>6, <3>8 DEF StackInv
  <2>3. CASE events # {}
    BY <1>2, <2>1, <2>3 DEF Close, StackInv
  <2>4. QED
    BY <2>2, <2>3
<1>3. CASE Destroy
  BY <1>3 DEF Destroy, StackInv
<1>4. CASE Dispatch
  <2>1. stack = <<>> /\ UNCHANGED <<s, registered, alive>>
    BY <1>4 DEF Dispatch
  <2>2. CASE ~(registered /\ out # {})
    BY <1>4, <2>1, <2>2 DEF Dispatch, StackInv
  <2>3. CASE registered /\ out # {}
    <3>1. HandleEvents(out) /\ out \in SUBSET Events
      BY <1>4, <2>3 DEF Dispatch, TypeOK
    <3>2. Len(stack') = Len(stack) + 1 \/ stack' = stack
      <4>1. Raised(connection_state, out) \in SUBSET Callbacks
        BY RaisedFacts
      <4>2. QED
        BY <1>0, <3>1, <4>1, HandleEventsFacts, InvokeFacts
    <3>3. Len(stack) = 0
      BY <2>1
    <3>4. alive
      BY <2>3 DEF StackInv
    <3>5. Len(stack') \in 0..2 /\ Len(stack') # 2 /\ alive'
      BY <2>1, <3>2, <3>3, <3>4
    <3>6. QED
      BY <3>5 DEF StackInv
  <2>4. QED
    BY <2>2, <2>3
<1>5. CASE Return
  <2>1. stack # <<>> /\ UNCHANGED <<s, registered, alive>>
    BY <1>5 DEF Return
  <2>2. /\ Len(stack) \in Nat \ {0} /\ Top \in Frames
        /\ Callers \in Seq(Frames) /\ Len(Callers) = Len(stack) - 1
    BY <2>1, TopFacts
  <2>3. CASE Top.todo = {}
    <3>1. stack' = Callers
      BY <1>5, <2>3 DEF Return
    <3>2. QED
      BY <2>1, <2>2, <3>1, CallersShorter
  <2>4. CASE Top.todo # {}
    <3>1. Len(stack) # 2
      BY <2>4 DEF StackInv, Top
    <3>2. Top.todo \in SUBSET Callbacks
      BY <2>2 DEF Frames
    <3>3. Len(stack') = Len(Callers) + 1
      BY <1>5, <2>2, <2>4, <3>2, InvokeFacts DEF Return
    <3>4. alive
      BY <2>1 DEF StackInv
    <3>5. Len(stack) = 1 /\ Len(stack') = 1
      BY <2>2, <3>1, <3>3 DEF StackInv
    <3>6. QED
      BY <2>1, <3>4, <3>5 DEF StackInv
  <2>5. QED
    BY <2>3, <2>4
<1>6. CASE Throw
  <2>1. stack # <<>> /\ stack' = Callers /\ UNCHANGED <<s, registered, alive>>
    BY <1>6 DEF Throw
  <2>2. QED
    BY <2>1, CallersShorter
<1>7. QED
  BY <1>1, <1>2, <1>3, <1>4, <1>5, <1>6 DEF Next, Application, Thread

LEMMA StackInvHolds == Spec => []StackInv
<1>1. Init => StackInv
  BY EmptySeq DEF Init, StackInv
<1>2. QED
  BY <1>1, NextStackInv, TypeCorrect, PTL DEF Spec

\* close() called from a callback nests one call of on_disconnected and
\* nothing deeper, whatever the application does in its callbacks.
THEOREM ReentrancyBounded == Spec => []BoundedReentrancy
<1>1. StackInv => BoundedReentrancy
  BY DEF StackInv, BoundedReentrancy
<1>2. QED
  BY <1>1, StackInvHolds, PTL

\* No packet, however late, calls into a socket that has been destroyed.
THEOREM DestroyedSocketSilent == Spec => []NoCallIntoDestroyedSocket
<1>1. StackInv => NoCallIntoDestroyedSocket
  BY DEF StackInv, NoCallIntoDestroyedSocket
<1>2. QED
  BY <1>1, StackInvHolds, PTL

----------------------------------------------------------------------------
(* The end of a connection is final                                        *)

\* on_connected is the first callback of its handle_events call, so it is
\* never one that waits for others to return.
ConnectedFirst == \A i \in 1..Len(stack) : "on_connected" \notin stack[i].todo

\* One of at most one outcome of connect() is raised, while connecting.
LEMMA RaisedConnected ==
  ASSUME NEW state, NEW ev, "on_connected" \in Raised(state, ev)
  PROVE  /\ state = "pending_connect"
         /\ \A c \in Raised(state, ev) : c # "on_connected" => Rank[c] > 0
  BY DEF Raised, CallbackFor, If, Rank

\* Whatever handle_events calls first, on_connected is not left for later.
LEMMA ConnectedIsFirst ==
  ASSUME NEW state, NEW ev, Raised(state, ev) # {}
  PROVE  /\ "on_connected" \notin Raised(state, ev) \ {First(Raised(state, ev))}
         /\ First(Raised(state, ev)) = "on_connected" => state = "pending_connect"
<1> DEFINE todo == Raised(state, ev)
<1>1. todo \in SUBSET Callbacks
  BY RaisedFacts
<1>2. First(todo) \in todo
  BY <1>1, FirstFacts
<1>3. CASE "on_connected" \notin todo
  BY <1>2, <1>3
<1>4. CASE "on_connected" \in todo
  <2>1. state = "pending_connect" /\ \A c \in todo : c # "on_connected" => Rank[c] > 0
    BY <1>4, RaisedConnected
  <2>2. Rank["on_connected"] = 0 /\ \A c \in Callbacks : Rank[c] \in 0..5
    BY DEF Rank, Callbacks
  <2>3. \A d \in todo : Rank["on_connected"] <= Rank[d]
    BY <1>1, <2>2
  <2>4. \A d \in todo : Rank[First(todo)] <= Rank[d]
    BY <1>4, <2>3 DEF First
  <2>5. Rank[First(todo)] <= 0
    BY <1>4, <2>2, <2>4
  <2>6. First(todo) = "on_connected"
    BY <1>1, <1>2, <2>1, <2>2, <2>5
  <2>7. QED
    BY <2>1, <2>6
<1>5. QED
  BY <1>3, <1>4

\* Only on_connected moves the socket out of the state it is in, to any
\* other than disconnected.
LEMMA StateOfInvoke ==
  ASSUME NEW todo, NEW callers, Invoke(todo, callers),
         First(todo) # "on_connected", connection_state = "disconnected"
  PROVE  connection_state' = "disconnected"
  BY DEF Invoke, StateFor

\* A handle_events call leaves a disconnected socket disconnected and no
\* on_connected for later.
LEMMA HandleEventsFinal ==
  ASSUME NEW ev \in SUBSET Events, TypeOK, ConnectedFirst, HandleEvents(ev)
  PROVE  /\ ConnectedFirst'
         /\ connection_state = "disconnected" => connection_state' = "disconnected"
<1> DEFINE todo == Raised(connection_state, ev)
<1>1. todo \in SUBSET Callbacks /\ stack \in Seq(Frames) /\ Len(stack) \in Nat
  BY RaisedFacts, LenProperties DEF TypeOK
<1>2. CASE todo = {}
  <2>1. UNCHANGED <<connection_state, stack>>
    BY <1>2 DEF HandleEvents
  <2>2. QED
    BY <2>1 DEF ConnectedFirst
<1>3. CASE todo # {}
  <2>1. Invoke(todo, stack)
    BY <1>3 DEF HandleEvents
  <2>2. /\ "on_connected" \notin todo \ {First(todo)}
        /\ First(todo) = "on_connected" => connection_state = "pending_connect"
    BY <1>3, ConnectedIsFirst
  <2> HIDE DEF todo
  <2>3. /\ Len(stack') = Len(stack) + 1
        /\ \A i \in 1..Len(stack) : stack'[i] = stack[i]
        /\ stack'[Len(stack) + 1] =
             [run |-> First(todo), todo |-> todo \ {First(todo)}]
    BY <1>1, <1>3, <2>1, InvokeFacts
  <2>4. \A i \in 1..Len(stack) + 1 : i \in 1..Len(stack) \/ i = Len(stack) + 1
    BY <1>1
  <2>5. ConnectedFirst'
    BY <2>2, <2>3, <2>4 DEF ConnectedFirst
  <2>6. QED
    BY <2>1, <2>2, <2>5, StateOfInvoke
<1>4. QED
  BY <1>2, <1>3

LEMMA NextConnectedFirst ==
  ASSUME TypeOK, ConnectedFirst, [Next]_vars
  PROVE  /\ ConnectedFirst'
         /\ connection_state = "disconnected" => connection_state' = "disconnected"
<1>1. CASE Connect \/ ReadSome \/ ReadNothing \/ WriteAll \/ WriteSome
           \/ Shutdown \/ Peer \/ UNCHANGED vars
  <2>1. stack' = stack
    BY <1>1, StackUnchanged
  <2>2. connection_state = "disconnected" => connection_state' = "disconnected"
    BY <1>1 DEF Connect, ReadSome, ReadNothing, WriteAll, WriteSome, PollFor,
       Shutdown, Peer, PeerAccepts, PeerRefuses, PeerSends, PeerShutsDown,
       PeerReads, PeerAborts, Network, vars
  <2>3. QED
    BY <2>1, <2>2 DEF ConnectedFirst
<1>2. CASE Close
  <2>1. CASE events = {}
    <3>1. HandleEvents({"LOCAL_CLOSE"}) /\ {"LOCAL_CLOSE"} \in SUBSET Events
      BY <1>2, <2>1 DEF Close, Events
    <3>2. QED
      BY <3>1, HandleEventsFinal
  <2>2. CASE events # {}
    BY <1>2, <2>2 DEF Close, ConnectedFirst
  <2>3. QED
    BY <2>1, <2>2
<1>3. CASE Destroy
  BY <1>3 DEF Destroy, ConnectedFirst
<1>4. CASE Dispatch
  <2>1. CASE registered /\ out # {}
    <3>1. HandleEvents(out) /\ out \in SUBSET Events
      BY <1>4, <2>1 DEF Dispatch, TypeOK
    <3>2. QED
      BY <3>1, HandleEventsFinal
  <2>2. CASE ~(registered /\ out # {})
    BY <1>4, <2>2 DEF Dispatch, ConnectedFirst
  <2>3. QED
    BY <2>1, <2>2
<1>5. ASSUME Return \/ Throw
      PROVE  /\ ConnectedFirst'
             /\ connection_state = "disconnected" => connection_state' = "disconnected"
  <2>1. stack # <<>>
    BY <1>5 DEF Return, Throw
  <2>2. /\ Len(stack) \in Nat \ {0} /\ Top \in Frames
        /\ Callers \in Seq(Frames) /\ Len(Callers) = Len(stack) - 1
        /\ \A i \in 1..Len(Callers) : Callers[i] = stack[i]
    BY <2>1, TopFacts
  <2>3. \A i \in 1..Len(Callers) : "on_connected" \notin Callers[i].todo
    BY <2>2 DEF ConnectedFirst
  <2>4. CASE stack' = Callers /\ connection_state' = connection_state
    BY <2>3, <2>4 DEF ConnectedFirst
  <2>5. CASE Top.todo # {} /\ Invoke(Top.todo, Callers)
    <3> DEFINE todo == Top.todo
    <3>1. todo \in SUBSET Callbacks /\ todo # {}
      BY <2>2, <2>5 DEF Frames
    <3>2. "on_connected" \notin todo
      BY <2>2 DEF ConnectedFirst, Top
    <3> HIDE DEF todo
    <3>3. Invoke(todo, Callers)
      BY <2>5 DEF todo
    <3>4. /\ Len(stack') = Len(Callers) + 1
          /\ \A i \in 1..Len(Callers) : stack'[i] = Callers[i]
          /\ stack'[Len(Callers) + 1] =
               [run |-> First(todo), todo |-> todo \ {First(todo)}]
          /\ First(todo) \in todo
      BY <2>2, <3>1, <3>3, InvokeFacts
    <3>5. \A i \in 1..Len(Callers) + 1 : i \in 1..Len(Callers) \/ i = Len(Callers) + 1
      BY <2>2
    <3>6. ConnectedFirst'
      BY <2>3, <3>2, <3>4, <3>5 DEF ConnectedFirst
    <3>7. QED
      BY <3>2, <3>3, <3>4, <3>6, StateOfInvoke
  <2>6. QED
    BY <1>5, <2>4, <2>5 DEF Return, Throw
<1>6. QED
  BY <1>1, <1>2, <1>3, <1>4, <1>5 DEF Next, Application, Thread

\* A socket that has seen the end of its connection never becomes connected
\* or connecting again, whatever it is told by the polls it still has.
THEOREM EndIsFinal == Spec => NeverRevived
<1>1. Init => ConnectedFirst
  BY EmptySeq DEF Init, ConnectedFirst
<1>2. TypeOK /\ ConnectedFirst /\ [Next]_vars =>
        [connection_state = "disconnected" => connection_state' = "disconnected"]_vars
  BY NextConnectedFirst
<1>3. TypeOK /\ ConnectedFirst /\ [Next]_vars => ConnectedFirst'
  BY NextConnectedFirst
<1>4. QED
  BY <1>1, <1>2, <1>3, TypeCorrect, PTL DEF Spec, NeverRevived

----------------------------------------------------------------------------
(* An application that waits for one thing at a time                       *)

\* At most one poll is outstanding, it asks for the local close, and the
\* socket remembers that it is.
PollInv ==
  /\ \A i \in iocp : polls[i] = {}
  /\ \A i \in PollIds : polls[i] # {} => "LOCAL_CLOSE" \in polls[i]
  /\ OnePollOutstanding
  /\ connection_state = "created" => Outstanding = {}
  /\ Outstanding # {} => events # {}

\* The driver reports the local close of a closed socket, and nothing else.
OutputInv ==
  /\ s = "open" => net.link # "closed" /\ "LOCAL_CLOSE" \notin out
  /\ s = "invalid" => \A i \in PollIds : polls[i] = {}
  /\ "LOCAL_CLOSE" \in out => out = {"LOCAL_CLOSE"}

\* on_disconnected is never a callback still to be made, and once it has
\* been made no packet is left that could make it again.
ReportInv ==
  /\ \A i \in 1..Len(stack) : "on_disconnected" \notin stack[i].todo
  /\ \/ calls["on_disconnected"] = 0
     \/ calls["on_disconnected"] = 1 /\ s = "invalid" /\ Outstanding = {}

OneWaitInv == PollInv /\ OutputInv /\ ReportInv

\* A completion without a new poll makes no poll outstanding that was not.
LEMMA SettleStep ==
  ASSUME TypeOK, PollInv, OutputInv, NEW e \in Endpoints(MaxInbox),
         Settle(e, polls, out)
  PROVE  /\ \A i \in iocp' : polls'[i] = {}
         /\ \A i \in PollIds : polls'[i] # {} => "LOCAL_CLOSE" \in polls'[i]
         /\ Outstanding' \subseteq Outstanding
         /\ OnePollOutstanding'
         /\ e.link = "closed" => \A i \in PollIds : polls'[i] = {}
         /\ e.link # "closed" /\ "LOCAL_CLOSE" \notin out => "LOCAL_CLOSE" \notin out'
         /\ "LOCAL_CLOSE" \in out' => out' = {"LOCAL_CLOSE"}
         /\ (\A i \in PollIds : polls[i] = {}) => \A i \in PollIds : polls'[i] = {}
<1>0. /\ polls \in [PollIds -> SUBSET Events]
      /\ iocp \in SUBSET PollIds
      /\ out \in SUBSET Events
  BY DEF TypeOK
<1>1. /\ polls' \in [PollIds -> SUBSET Events]
      /\ iocp' \in SUBSET PollIds
      /\ \A i \in PollIds : polls'[i] # {} => polls'[i] = polls[i]
      /\ \A i \in PollIds : i \in iocp' => i \in iocp \/ polls[i] # {}
      /\ \A i \in PollIds : i \in iocp' /\ i \notin iocp => polls'[i] = {}
      /\ \A i \in PollIds : Ready(e) \subseteq polls[i] /\ Ready(e) # {}
                              => polls'[i] = {}
      /\ out' = out \/ (out' \subseteq Ready(e) /\ out' # {})
  BY <1>0, SettleFacts
<1>2. /\ e.link # "closed" => "LOCAL_CLOSE" \notin Ready(e)
      /\ e.link = "closed" => Ready(e) = {"LOCAL_CLOSE"}
  BY ReadyFacts
<1>3. \A i \in iocp' : polls'[i] = {}
  BY <1>0, <1>1 DEF PollInv
<1>4. \A i \in PollIds : polls'[i] # {} => "LOCAL_CLOSE" \in polls'[i]
  BY <1>1 DEF PollInv
<1>5. Outstanding' \subseteq Outstanding
  BY <1>1 DEF Outstanding
<1>6. OnePollOutstanding'
  BY <1>5 DEF PollInv, OnePollOutstanding
<1>7. e.link = "closed" => \A i \in PollIds : polls'[i] = {}
  BY <1>1, <1>2 DEF PollInv
<1>8. /\ e.link # "closed" /\ "LOCAL_CLOSE" \notin out => "LOCAL_CLOSE" \notin out'
      /\ "LOCAL_CLOSE" \in out' => out' = {"LOCAL_CLOSE"}
  BY <1>1, <1>2 DEF OutputInv
<1>9. (\A i \in PollIds : polls[i] = {}) => \A i \in PollIds : polls'[i] = {}
  BY <1>1
<1>10. QED
  BY <1>3, <1>4, <1>5, <1>6, <1>7, <1>8, <1>9

\* A poll by a socket that has none outstanding.
LEMMA PollStep ==
  ASSUME TypeOK, OneWaitInv, Outstanding = {}, s = "open",
         NEW e \in Endpoints(MaxInbox), e.link # "closed",
         NEW interest \in SUBSET Events, "LOCAL_CLOSE" \in interest,
         Poll(interest, e), events' # {}, connection_state' # "created",
         UNCHANGED <<s, stack, calls>>
  PROVE  OneWaitInv'
<1>1. PICK i \in PollIds \ Outstanding :
         \A j \in PollIds \ {i} : /\ polls'[j] # {} => polls[j] # {}
                                  /\ j \in iocp' => j \in Outstanding
  BY PollFacts
<1>2. /\ net' = e
      /\ polls' \in [PollIds -> SUBSET Events]
      /\ iocp' \in SUBSET PollIds
      /\ out' \subseteq Ready(e)
      /\ \A j \in PollIds : j \in iocp' /\ j \notin iocp => polls'[j] = {}
      /\ \A j \in PollIds : polls'[j] # {} => polls'[j] \in {polls[j], interest}
  BY PollFacts
<1>3. \A j \in PollIds : polls[j] = {} /\ j \notin iocp
  BY DEF Outstanding
<1>4. Outstanding' \subseteq {i}
  BY <1>1, <1>3 DEF Outstanding
<1>5. PollInv'
  <2>1. \A j \in iocp' : polls'[j] = {}
    BY <1>2, <1>3
  <2>2. \A j \in PollIds : polls'[j] # {} => "LOCAL_CLOSE" \in polls'[j]
    BY <1>2, <1>3
  <2>3. OnePollOutstanding'
    BY <1>4 DEF OnePollOutstanding
  <2>4. QED
    BY <2>1, <2>2, <2>3 DEF PollInv
<1>6. "LOCAL_CLOSE" \notin out'
  BY <1>2, ReadyFacts
<1>7. OutputInv'
  BY <1>2, <1>6 DEF OutputInv
<1>8. ReportInv'
  BY DEF OneWaitInv, ReportInv
<1>9. QED
  BY <1>5, <1>7, <1>8 DEF OneWaitInv

\* A step that leaves the polls, the packets and the callbacks' history
\* alone, and the socket open or closed as it is.
LEMMA QuietStep ==
  ASSUME OneWaitInv, net'.link = net.link, connection_state' = connection_state,
         UNCHANGED <<s, events, polls, iocp, out, stack, calls>>
  PROVE  OneWaitInv'
<1>1. Outstanding' = Outstanding
  BY DEF Outstanding
<1>2. QED
  BY <1>1 DEF OneWaitInv, PollInv, OutputInv, ReportInv, OnePollOutstanding

\* Making a callback other than on_disconnected, with callbacks below it
\* that are already in progress.
LEMMA InvokeStep ==
  ASSUME TypeOK, NEW todo \in SUBSET Callbacks, todo # {},
         "on_disconnected" \notin todo, NEW callers \in Seq(Frames),
         \A i \in 1..Len(callers) : "on_disconnected" \notin callers[i].todo,
         Invoke(todo, callers)
  PROVE  /\ calls'["on_disconnected"] = calls["on_disconnected"]
         /\ \A i \in 1..Len(stack') : "on_disconnected" \notin stack'[i].todo
         /\ connection_state' = "created" => connection_state = "created"
<1>1. /\ connection_state' = "created" => connection_state = "created"
      /\ Len(stack') = Len(callers) + 1
      /\ \A i \in 1..Len(callers) : stack'[i] = callers[i]
      /\ stack'[Len(callers) + 1] = [run |-> First(todo), todo |-> todo \ {First(todo)}]
      /\ First(todo) \in todo
      /\ \A m \in Milestones : m # First(todo) => calls'[m] = calls[m]
  BY InvokeFacts
<1>2. calls'["on_disconnected"] = calls["on_disconnected"]
  BY <1>1 DEF Milestones
<1>3. "on_disconnected" \notin stack'[Len(callers) + 1].todo
  BY <1>1
<1>4. \A i \in 1..Len(stack') : i \in 1..Len(callers) \/ i = Len(callers) + 1
  BY <1>1, LenProperties
<1>5. \A i \in 1..Len(stack') : "on_disconnected" \notin stack'[i].todo
  BY <1>1, <1>3, <1>4
<1>6. QED
  BY <1>1, <1>2, <1>5

\* The steps of an application that polls only while nothing is outstanding.
WaitsForOne ==
  \/ Connect \/ ReadSome \/ WriteAll \/ Shutdown \/ Close \/ Destroy
  \/ Outstanding = {} /\ (ReadNothing \/ WriteSome)
  \/ Thread \/ Peer

LEMMA NextOneWaitInv ==
  ASSUME TypeOK, OneWaitInv, [WaitsForOne]_vars
  PROVE  OneWaitInv'
<1> USE DEF kernel
<1>0. /\ net \in Endpoints(MaxInbox)
      /\ polls \in [PollIds -> SUBSET Events]
      /\ iocp \in SUBSET PollIds
      /\ out \in SUBSET Events
      /\ stack \in Seq(Frames)
      /\ s \in {"open", "invalid"}
  BY DEF TypeOK
<1>a. PollInv /\ OutputInv /\ ReportInv
  BY DEF OneWaitInv
<1>1. CASE Connect
  <2>1. PICK link \in {"connecting", "up"} :
           Poll(ConnectEvents, [net EXCEPT !.link = link])
    BY <1>1 DEF Connect
  <2>2. /\ [net EXCEPT !.link = link] \in Endpoints(MaxInbox)
        /\ [net EXCEPT !.link = link].link # "closed"
    BY <1>0 DEF Endpoints, Links
  <2>3. /\ ConnectEvents \in SUBSET Events
        /\ "LOCAL_CLOSE" \in ConnectEvents
    BY DEF ConnectEvents, Events
  <2>4. Outstanding = {} /\ s = "open"
    BY <1>1, <1>a DEF Connect, PollInv
  <2>5. /\ events' # {} /\ connection_state' # "created"
        /\ UNCHANGED <<s, stack, calls>>
    BY <1>1 DEF Connect, ConnectEvents
  <2>6. QED
    BY <2>1, <2>2, <2>3, <2>4, <2>5, PollStep
<1>2. CASE Outstanding = {} /\ (ReadNothing \/ WriteSome)
  <2>1. PICK more \in {ReadEvents, WriteEvents}, e \in Endpoints(MaxInbox) :
           PollFor(more, e) /\ e.link = net.link
    <3>1. /\ [net EXCEPT !.room = FALSE] \in Endpoints(MaxInbox)
          /\ [net EXCEPT !.room = FALSE].link = net.link
      BY <1>0 DEF Endpoints
    <3>2. QED
      BY <1>0, <1>2, <3>1 DEF ReadNothing, WriteSome
  <2>2. /\ more \in SUBSET Events /\ "LOCAL_CLOSE" \in more
        /\ events' = events \cup more /\ Poll(events', e)
        /\ UNCHANGED <<s, connection_state, stack, calls>>
    BY <2>1 DEF ReadEvents, WriteEvents, Events, PollFor
  <2>3. events' \in SUBSET Events /\ "LOCAL_CLOSE" \in events' /\ events' # {}
    BY <2>2 DEF TypeOK
  <2>4. s = "open" /\ connection_state = "connected" /\ Outstanding = {}
    BY <1>2 DEF ReadNothing, WriteSome, Connected
  <2>5. e.link # "closed"
    BY <1>a, <2>1, <2>4 DEF OutputInv
  <2>6. QED
    BY <2>1, <2>2, <2>3, <2>4, <2>5, PollStep
<1>3. CASE ReadSome \/ WriteAll
  <2>1. net'.link = net.link
    BY <1>0, <1>3 DEF ReadSome, WriteAll, Endpoints
  <2>2. QED
    BY <1>3, <2>1, QuietStep DEF ReadSome, WriteAll
<1>4. CASE Shutdown \/ UNCHANGED vars
  BY <1>4, QuietStep DEF Shutdown, vars
<1>5. CASE Close
  <2>1. ClosedEndpoint \in Endpoints(MaxInbox) /\ ClosedEndpoint.link = "closed"
    BY EndpointFacts
  <2>2. s = "open" /\ s' = "invalid" /\ Settle(ClosedEndpoint, polls, out)
    BY <1>5 DEF Close
  <2>3. /\ \A i \in iocp' : polls'[i] = {}
        /\ \A i \in PollIds : polls'[i] = {}
        /\ Outstanding' \subseteq Outstanding
        /\ OnePollOutstanding'
        /\ "LOCAL_CLOSE" \in out' => out' = {"LOCAL_CLOSE"}
    BY <1>a, <2>1, <2>2, SettleStep
  <2>4. OutputInv'
    BY <2>2, <2>3 DEF OutputInv
  <2>5. calls["on_disconnected"] = 0
    BY <1>a, <2>2 DEF ReportInv
  <2>6. CASE events = {}
    <3>1. HandleEvents({"LOCAL_CLOSE"})
      BY <1>5, <2>6 DEF Close
    <3>2. /\ Len(stack') = Len(stack) + 1
          /\ \A i \in 1..Len(stack) : stack'[i] = stack[i]
          /\ stack'[Len(stack) + 1] = [run |-> "on_disconnected", todo |-> {}]
          /\ calls'["on_disconnected"] = 1
      BY <2>5, <3>1, CloseReports
    <3>3. Outstanding = {} /\ Outstanding' = {}
      BY <1>a, <2>3, <2>6 DEF PollInv
    <3>4. \A i \in 1..Len(stack') : i \in 1..Len(stack) \/ i = Len(stack) + 1
      BY <1>0, <3>2, LenProperties
    <3>5. \A i \in 1..Len(stack') : "on_disconnected" \notin stack'[i].todo
      BY <1>a, <3>2, <3>4 DEF ReportInv
    <3>6. PollInv'
      BY <2>3, <3>3 DEF PollInv
    <3>7. ReportInv'
      BY <2>2, <3>2, <3>3, <3>5 DEF ReportInv
    <3>8. QED
      BY <2>4, <3>6, <3>7 DEF OneWaitInv
  <2>7. CASE events # {}
    <3>1. UNCHANGED <<events, connection_state, stack, calls>>
      BY <1>5, <2>7 DEF Close
    <3>2. PollInv'
      BY <1>a, <2>3, <3>1 DEF PollInv
    <3>3. ReportInv'
      BY <1>a, <2>5, <3>1 DEF ReportInv
    <3>4. QED
      BY <2>4, <3>2, <3>3 DEF OneWaitInv
  <2>8. QED
    BY <2>6, <2>7
<1>6. CASE Destroy
  <2>1. ClosedEndpoint \in Endpoints(MaxInbox) /\ ClosedEndpoint.link = "closed"
    BY EndpointFacts
  <2>2. /\ s' = "invalid" /\ Settle(ClosedEndpoint, polls, out)
        /\ UNCHANGED <<connection_state, events, stack, calls>>
    BY <1>6 DEF Destroy
  <2>3. /\ \A i \in iocp' : polls'[i] = {}
        /\ \A i \in PollIds : polls'[i] = {}
        /\ Outstanding' \subseteq Outstanding
        /\ OnePollOutstanding'
        /\ "LOCAL_CLOSE" \in out' => out' = {"LOCAL_CLOSE"}
    BY <1>a, <2>1, <2>2, SettleStep
  <2>4. PollInv'
    BY <1>a, <2>2, <2>3 DEF PollInv
  <2>5. OutputInv'
    BY <2>2, <2>3 DEF OutputInv
  <2>6. ReportInv'
    BY <1>a, <2>2, <2>3 DEF ReportInv
  <2>7. QED
    BY <2>4, <2>5, <2>6 DEF OneWaitInv
<1>7. CASE Dispatch
  <2>1. PICK i \in iocp : iocp' = iocp \ {i}
    BY <1>7 DEF Dispatch
  <2>2. stack = <<>> /\ UNCHANGED <<s, net, polls, out>>
    BY <1>7 DEF Dispatch
  <2>3. Outstanding = {i} /\ polls[i] = {}
    BY <1>0, <1>a, <2>1 DEF PollInv, OnePollOutstanding, Outstanding
  <2>4. Outstanding' = {}
    BY <2>1, <2>2, <2>3 DEF Outstanding
  <2>5. calls["on_disconnected"] = 0
    BY <1>a, <2>3 DEF ReportInv
  <2>6. \A j \in 1..Len(stack) : "on_disconnected" \notin stack[j].todo
    BY <1>a DEF ReportInv
  <2>7. OutputInv'
    BY <1>a, <2>2 DEF OutputInv
  <2>8. PollInv'
    <3>1. \A j \in PollIds : polls'[j] = {} /\ j \notin iocp'
      BY <2>4 DEF Outstanding
    <3>2. iocp' \subseteq PollIds
      BY <1>0, <2>1
    <3>3. QED
      BY <2>4, <3>1, <3>2 DEF PollInv, OnePollOutstanding
  <2>9. ReportInv'
    <3>1. CASE ~(registered /\ out # {})
      BY <1>7, <1>a, <2>5, <3>1 DEF Dispatch, ReportInv
    <3>2. CASE registered /\ out # {} /\ "LOCAL_CLOSE" \notin out
      <4>1. HandleEvents(out)
        BY <1>7, <3>2 DEF Dispatch
      <4>2. /\ Raised(connection_state, out) \in SUBSET Callbacks
            /\ "on_disconnected" \notin Raised(connection_state, out)
        BY <3>2, RaisedFacts
      <4>3. CASE Raised(connection_state, out) = {}
        BY <1>0, <2>5, <2>6, <4>1, <4>3, HandleEventsFacts DEF ReportInv
      <4>4. CASE Raised(connection_state, out) # {}
        <5>1. Invoke(Raised(connection_state, out), stack)
          BY <1>0, <4>1, <4>4, HandleEventsFacts
        <5>2. /\ calls'["on_disconnected"] = calls["on_disconnected"]
              /\ \A j \in 1..Len(stack') : "on_disconnected" \notin stack'[j].todo
          BY <1>0, <2>6, <4>2, <4>4, <5>1, InvokeStep
        <5>3. QED
          BY <2>5, <5>2 DEF ReportInv
      <4>5. QED
        BY <4>3, <4>4
    <3>3. CASE registered /\ out # {} /\ "LOCAL_CLOSE" \in out
      <4>1. out = {"LOCAL_CLOSE"} /\ s' = "invalid"
        BY <1>0, <1>a, <2>2, <3>3 DEF OutputInv
      <4>2. HandleEvents({"LOCAL_CLOSE"})
        BY <1>7, <3>3, <4>1 DEF Dispatch
      <4>3. /\ Len(stack') = Len(stack) + 1
            /\ \A j \in 1..Len(stack) : stack'[j] = stack[j]
            /\ stack'[Len(stack) + 1] = [run |-> "on_disconnected", todo |-> {}]
            /\ calls'["on_disconnected"] = 1
        BY <2>5, <4>2, CloseReports
      <4>4. \A j \in 1..Len(stack') : j \in 1..Len(stack) \/ j = Len(stack) + 1
        BY <1>0, <4>3, LenProperties
      <4>5. \A j \in 1..Len(stack') : "on_disconnected" \notin stack'[j].todo
        BY <2>6, <4>3, <4>4
      <4>6. QED
        BY <2>4, <4>1, <4>3, <4>5 DEF ReportInv
    <3>4. QED
      BY <3>1, <3>2, <3>3
  <2>10. QED
    BY <2>7, <2>8, <2>9 DEF OneWaitInv
<1>8. CASE Return \/ Throw
  <2>1. /\ stack # <<>>
        /\ UNCHANGED <<s, events, net, polls, iocp, out>>
    BY <1>8 DEF Return, Throw
  <2>2. /\ Top \in Frames /\ Callers \in Seq(Frames)
        /\ \A i \in 1..Len(Callers) : Callers[i] = stack[i]
        /\ Len(Callers) = Len(stack) - 1 /\ Len(stack) \in Nat \ {0}
    BY <2>1, TopFacts
  <2>3. /\ \A i \in 1..Len(Callers) : i \in 1..Len(stack)
        /\ Len(stack) \in 1..Len(stack)
    BY <2>2
  <2>4. /\ \A i \in 1..Len(Callers) : "on_disconnected" \notin Callers[i].todo
        /\ "on_disconnected" \notin Top.todo
    BY <1>a, <2>2, <2>3 DEF ReportInv, Top
  <2>5. /\ calls'["on_disconnected"] = calls["on_disconnected"]
        /\ \A i \in 1..Len(stack') : "on_disconnected" \notin stack'[i].todo
        /\ connection_state' = "created" => connection_state = "created"
    <3>1. CASE Return /\ Top.todo # {}
      <4>1. Top.todo \in SUBSET Callbacks
        BY <2>2 DEF Frames
      <4>2. Invoke(Top.todo, Callers)
        BY <3>1 DEF Return
      <4>3. QED
        BY <2>2, <2>4, <3>1, <4>1, <4>2, InvokeStep
    <3>2. CASE Throw \/ Top.todo = {}
      BY <1>8, <2>4, <3>2 DEF Return, Throw
    <3>3. QED
      BY <1>8, <3>1, <3>2
  <2>6. Outstanding' = Outstanding
    BY <2>1 DEF Outstanding
  <2>7. PollInv'
    BY <1>a, <2>1, <2>5, <2>6 DEF PollInv, OnePollOutstanding
  <2>8. OutputInv'
    BY <1>a, <2>1 DEF OutputInv
  <2>9. ReportInv'
    BY <1>a, <2>1, <2>5, <2>6 DEF ReportInv
  <2>10. QED
    BY <2>7, <2>8, <2>9 DEF OneWaitInv
<1>9. CASE Peer
  <2>1. PICK e \in Endpoints(MaxInbox) : e.link # "closed" /\ Network(e)
    BY <1>9, PeerFacts
  <2>2. /\ Settle(e, polls, out) /\ net' = e
        /\ UNCHANGED <<s, connection_state, events, stack, calls>>
    BY <2>1 DEF Network, Settle
  <2>3. /\ \A i \in iocp' : polls'[i] = {}
        /\ \A i \in PollIds : polls'[i] # {} => "LOCAL_CLOSE" \in polls'[i]
        /\ Outstanding' \subseteq Outstanding
        /\ OnePollOutstanding'
        /\ "LOCAL_CLOSE" \notin out => "LOCAL_CLOSE" \notin out'
        /\ "LOCAL_CLOSE" \in out' => out' = {"LOCAL_CLOSE"}
        /\ (\A i \in PollIds : polls[i] = {}) => \A i \in PollIds : polls'[i] = {}
    BY <1>a, <2>1, <2>2, SettleStep
  <2>4. PollInv'
    BY <1>a, <2>2, <2>3 DEF PollInv
  <2>5. OutputInv'
    BY <1>a, <2>1, <2>2, <2>3 DEF OutputInv
  <2>6. ReportInv'
    BY <1>a, <2>2, <2>3 DEF ReportInv
  <2>7. QED
    BY <2>4, <2>5, <2>6 DEF OneWaitInv
<1>10. QED
  BY <1>1, <1>2, <1>3, <1>4, <1>5, <1>6, <1>7, <1>8, <1>9
     DEF WaitsForOne, Thread

LEMMA InitOneWaitInv == Init => OneWaitInv
<1> SUFFICES ASSUME Init PROVE OneWaitInv
  OBVIOUS
<1>1. Outstanding = {} /\ \A i \in PollIds : polls[i] = {}
  BY DEF Init, Outstanding
<1>2. PollInv
  BY <1>1 DEF Init, PollInv, OnePollOutstanding
<1>3. OutputInv
  BY <1>1 DEF Init, OutputInv, NewEndpoint
<1>4. calls["on_disconnected"] = 0
  BY DEF Init, Milestones
<1>5. ReportInv
  BY <1>4, EmptySeq DEF Init, ReportInv
<1>6. QED
  BY <1>2, <1>3, <1>5 DEF OneWaitInv

LEMMA OneWaitInvHolds ==
  ASSUME OneAtATime
  PROVE  Spec => []OneWaitInv
<1>1. TypeOK /\ OneWaitInv /\ [Next]_vars => OneWaitInv'
  <2>1. [Next]_vars => [WaitsForOne]_vars
    BY DEF Next, Application, WaitsForOne, ReadNothing, WriteSome, CanWait
  <2>2. QED
    BY <2>1, NextOneWaitInv
<1>2. QED
  BY <1>1, InitOneWaitInv, TypeCorrect, PTL DEF Spec

\* An application that waits for one thing at a time never has two polls
\* outstanding, so the output buffer is never shared.
THEOREM OnePollAtATime ==
  ASSUME OneAtATime
  PROVE  Spec => []OnePollOutstanding
<1>1. OneWaitInv => OnePollOutstanding
  BY DEF OneWaitInv, PollInv
<1>2. QED
  BY <1>1, OneWaitInvHolds, PTL

\* It is told of its own close() once at most: close() reports it only when
\* no poll is outstanding that could report it again.
THEOREM DisconnectReportedOnce ==
  ASSUME OneAtATime
  PROVE  Spec => []DisconnectedOnce
<1>1. OneWaitInv => DisconnectedOnce
  BY DEF OneWaitInv, ReportInv, DisconnectedOnce
<1>2. QED
  BY <1>1, OneWaitInvHolds, PTL

\* And after that report no further packet makes a callback.
THEOREM NothingAfterDisconnected ==
  ASSUME OneAtATime
  PROVE  Spec => SilentAfterDisconnected
<1>1. TypeOK /\ OneWaitInv /\ [Next]_vars =>
        [calls["on_disconnected"] > 0 /\ stack = <<>> => stack' = <<>>]_vars
  <2> SUFFICES ASSUME TypeOK, OneWaitInv, Next, stack = <<>>,
                        calls["on_disconnected"] > 0
                 PROVE  stack' = <<>>
    BY DEF vars
  <2>1. s = "invalid" /\ Outstanding = {}
    BY DEF OneWaitInv, ReportInv
  <2>2. ~Close
    BY <2>1 DEF Close
  <2>3. ~Dispatch
    <3>1. iocp = {}
      BY <2>1 DEF Outstanding, TypeOK
    <3>2. QED
      BY <3>1 DEF Dispatch
  <2>4. ~Return /\ ~Throw
    BY DEF Return, Throw
  <2>5. Destroy => stack' = stack
    BY DEF Destroy
  <2>6. QED
    BY <2>2, <2>3, <2>4, <2>5, StackUnchanged
       DEF Next, Application, Thread
<1>2. QED
  BY <1>1, OneWaitInvHolds, TypeCorrect, PTL DEF Spec, SilentAfterDisconnected

----------------------------------------------------------------------------
(* What a completion leaves behind                                         *)

\* Either no poll completes and the driver's variables stay as they are, or
\* some poll does, into a queued packet, and leaves its events in the output.
LEMMA SettleCases ==
  ASSUME NEW e, NEW pend \in [PollIds -> SUBSET Events], NEW o,
         Settle(e, pend, o)
  PROVE  \/ /\ UNCHANGED iocp /\ polls' = pend /\ out' = o
            /\ \A i \in PollIds : pend[i] \cap Ready(e) = {}
         \/ \E i \in PollIds : /\ i \in iocp'
                               /\ pend[i] \cap Ready(e) # {}
                               /\ out' = pend[i] \cap Ready(e)
<1> DEFINE done == Completing(pend, Ready(e))
<1>1. done = {i \in PollIds : pend[i] \cap Ready(e) # {}}
  BY DEF Completing
<1>2. CASE done = {}
  <2>1. /\ iocp' = iocp \cup {}
        /\ out' = o
        /\ \E dropped \in {{}} :
              polls' = [i \in PollIds |-> IF i \in {} \cup dropped THEN {} ELSE pend[i]]
    BY <1>2 DEF Settle
  <2>2. polls' = [i \in PollIds |-> pend[i]]
    BY <2>1
  <2>3. QED
    BY <1>1, <1>2, <2>1, <2>2
<1>3. CASE done # {}
  <2>1. iocp' = iocp \cup done /\ \E i \in done : out' = pend[i] \cap Ready(e)
    BY <1>3 DEF Settle
  <2> HIDE DEF done
  <2>2. QED
    BY <1>1, <2>1
<1>4. QED
  BY <1>2, <1>3

\* A new poll stays pending with all that it asks for, or some poll
\* completes and the application is about to be told of an event.
LEMMA PollCases ==
  ASSUME NEW e, NEW interest \in SUBSET Events, TypeOK, Poll(interest, e)
  PROVE  \/ /\ UNCHANGED iocp /\ out' = {}
            /\ \E i \in PollIds \ Outstanding : polls' = [polls EXCEPT ![i] = interest]
         \/ \E asked \in {polls[j] : j \in PollIds} \cup {interest} :
               /\ iocp' # {} /\ out' # {}
               /\ out' = asked \cap Ready(e)
<1>1. PICK i \in PollIds \ Outstanding :
         Settle(e, [polls EXCEPT ![i] = interest], {})
  BY DEF Poll
<1> DEFINE pend == [polls EXCEPT ![i] = interest]
<1>2. /\ pend \in [PollIds -> SUBSET Events]
      /\ pend[i] = interest
      /\ \A j \in PollIds : pend[j] = polls[j] \/ pend[j] = interest
  BY DEF TypeOK
<1>3. Settle(e, pend, {})
  BY <1>1
<1> HIDE DEF pend
<1>4. \/ UNCHANGED iocp /\ polls' = pend /\ out' = {}
      \/ \E j \in PollIds : /\ j \in iocp' /\ pend[j] \cap Ready(e) # {}
                            /\ out' = pend[j] \cap Ready(e)
  BY <1>2, <1>3, SettleCases
<1>5. CASE UNCHANGED iocp /\ polls' = pend /\ out' = {}
  BY <1>5 DEF pend
<1>6. ASSUME NEW j \in PollIds, j \in iocp', pend[j] \cap Ready(e) # {},
             out' = pend[j] \cap Ready(e)
      PROVE  \E asked \in {polls[k] : k \in PollIds} \cup {interest} :
               /\ iocp' # {} /\ out' # {}
               /\ out' = asked \cap Ready(e)
  <2>1. iocp' # {} /\ out' # {}
    BY <1>6
  <2>2. CASE pend[j] = polls[j]
    BY <1>6, <2>1, <2>2
  <2>3. CASE pend[j] = interest
    BY <1>6, <2>1, <2>3
  <2>4. QED
    BY <1>2, <2>2, <2>3
<1>7. QED
  BY <1>4, <1>5, <1>6

\* The polls the actions submit: connect(), read() and write() all ask for
\* the local close, and record what they ask for.
LEMMA PollingStep ==
  ASSUME TypeOK, Connect \/ ReadNothing \/ WriteSome
  PROVE  \E e \in Endpoints(MaxInbox) :
           /\ events' \in SUBSET Events /\ "LOCAL_CLOSE" \in events'
           /\ Poll(events', e)
           /\ alive /\ s = "open"
           /\ e.link = net.link \/ e.link \in {"connecting", "up"}
           /\ UNCHANGED <<s, registered, alive, stack, calls, raced>>
<1>1. net \in Endpoints(MaxInbox) /\ events \in SUBSET Events
  BY DEF TypeOK
<1>2. CASE Connect
  <2>1. PICK link \in {"connecting", "up"} :
           Poll(ConnectEvents, [net EXCEPT !.link = link])
    BY <1>2 DEF Connect
  <2>2. /\ [net EXCEPT !.link = link] \in Endpoints(MaxInbox)
        /\ [net EXCEPT !.link = link].link = link
    BY <1>1 DEF Endpoints, Links
  <2>3. events' = ConnectEvents
    BY <1>2 DEF Connect
  <2>4. ConnectEvents \in SUBSET Events /\ "LOCAL_CLOSE" \in ConnectEvents
    BY DEF ConnectEvents, Events
  <2>5. /\ alive /\ s = "open"
        /\ UNCHANGED <<s, registered, alive, stack, calls, raced>>
    BY <1>2 DEF Connect, CanCall
  <2>6. QED
    BY <2>1, <2>2, <2>3, <2>4, <2>5
<1>3. CASE ReadNothing \/ WriteSome
  <2>1. PICK more \in {ReadEvents, WriteEvents}, e \in Endpoints(MaxInbox) :
           PollFor(more, e) /\ e.link = net.link
    <3>1. /\ [net EXCEPT !.room = FALSE] \in Endpoints(MaxInbox)
          /\ [net EXCEPT !.room = FALSE].link = net.link
      BY <1>1 DEF Endpoints
    <3>2. QED
      BY <1>1, <1>3, <3>1 DEF ReadNothing, WriteSome
  <2>2. /\ more \in SUBSET Events /\ "LOCAL_CLOSE" \in more
        /\ events' = events \cup more /\ Poll(events', e)
        /\ UNCHANGED <<s, registered, alive, stack, calls, raced>>
    BY <2>1 DEF ReadEvents, WriteEvents, Events, PollFor
  <2>3. alive /\ s = "open"
    BY <1>3 DEF ReadNothing, WriteSome, Connected, CanCall
  <2>4. QED
    BY <1>1, <2>1, <2>2, <2>3
<1>4. QED
  BY <1>2, <1>3

----------------------------------------------------------------------------
(* The socket, its polls and the buffer they share                         *)

\* A live socket is the one its slot refers to.  Every pending poll asks for
\* the local close, so none survives it; and the driver reports the local
\* close alone, and of a closed socket only.
SocketInv ==
  /\ alive <=> registered
  /\ ~alive => s = "invalid"
  /\ s = "open" => net.link # "closed" /\ "LOCAL_CLOSE" \notin out
  /\ s = "invalid" => net.link = "closed" /\ \A i \in PollIds : polls[i] = {}
  /\ \A i \in PollIds : polls[i] # {} => "LOCAL_CLOSE" \in polls[i]
  /\ "LOCAL_CLOSE" \in out => out = {"LOCAL_CLOSE"}

\* It survives the driver's reaction to a change of the connection.
LEMMA SettleSocketInv ==
  ASSUME TypeOK, NEW e \in Endpoints(MaxInbox),
         NEW pend \in [PollIds -> SUBSET Events],
         \A i \in PollIds : pend[i] # {} => "LOCAL_CLOSE" \in pend[i],
         NEW o \in SUBSET Events, "LOCAL_CLOSE" \in o => o = {"LOCAL_CLOSE"},
         Settle(e, pend, o),
         s' \in {"open", "invalid"},
         s' = "open" => e.link # "closed" /\ "LOCAL_CLOSE" \notin o,
         s' = "invalid" => e.link = "closed",
         alive' <=> registered', ~alive' => s' = "invalid"
  PROVE  SocketInv'
<1>1. iocp \in SUBSET PollIds
  BY DEF TypeOK
<1>2. /\ net' = e
      /\ \A i \in PollIds : polls'[i] # {} => polls'[i] = pend[i]
      /\ \A i \in PollIds : Ready(e) \subseteq pend[i] /\ Ready(e) # {} => polls'[i] = {}
      /\ out' = o \/ (out' \subseteq Ready(e) /\ out' # {})
  BY <1>1, SettleFacts
<1>3. /\ e.link # "closed" => "LOCAL_CLOSE" \notin Ready(e)
      /\ e.link = "closed" => Ready(e) = {"LOCAL_CLOSE"}
  BY ReadyFacts
<1>4. \A i \in PollIds : polls'[i] # {} => "LOCAL_CLOSE" \in polls'[i]
  BY <1>2
<1>5. s' = "invalid" => \A i \in PollIds : polls'[i] = {}
  BY <1>2, <1>3
<1>6. /\ s' = "open" => "LOCAL_CLOSE" \notin out'
      /\ "LOCAL_CLOSE" \in out' => out' = {"LOCAL_CLOSE"}
  BY <1>2, <1>3
<1>7. QED
  BY <1>2, <1>4, <1>5, <1>6 DEF SocketInv

LEMMA NextSocketInv ==
  ASSUME TypeOK, SocketInv, [Next]_vars
  PROVE  SocketInv'
<1> USE DEF kernel
<1>0. /\ net \in Endpoints(MaxInbox)
      /\ polls \in [PollIds -> SUBSET Events]
      /\ out \in SUBSET Events
      /\ s \in {"open", "invalid"}
  BY DEF TypeOK
<1>1. CASE Connect \/ ReadNothing \/ WriteSome
  <2>1. PICK e \in Endpoints(MaxInbox) :
           /\ events' \in SUBSET Events /\ "LOCAL_CLOSE" \in events'
           /\ Poll(events', e)
           /\ alive /\ s = "open"
           /\ e.link = net.link \/ e.link \in {"connecting", "up"}
           /\ UNCHANGED <<s, registered, alive>>
    BY <1>1, PollingStep
  <2>2. PICK i \in PollIds \ Outstanding :
           Settle(e, [polls EXCEPT ![i] = events'], {})
    BY <2>1 DEF Poll
  <2> DEFINE pend == [polls EXCEPT ![i] = events']
  <2>3. /\ pend \in [PollIds -> SUBSET Events]
        /\ \A j \in PollIds : pend[j] # {} => "LOCAL_CLOSE" \in pend[j]
    BY <1>0, <2>1 DEF SocketInv
  <2>4. e.link # "closed"
    BY <2>1 DEF SocketInv
  <2> HIDE DEF pend
  <2>5. Settle(e, pend, {})
    BY <2>2 DEF pend
  <2>6. (alive' <=> registered') /\ s' = "open" /\ alive'
    BY <2>1 DEF SocketInv
  <2>7. QED
    BY <2>3, <2>4, <2>5, <2>6, SettleSocketInv
<1>2. CASE ReadSome \/ WriteAll
  <2>1. net'.link = net.link
    BY <1>0, <1>2 DEF ReadSome, WriteAll, Endpoints
  <2>2. UNCHANGED <<s, polls, out, registered, alive>>
    BY <1>2 DEF ReadSome, WriteAll
  <2>3. QED
    BY <2>1, <2>2 DEF SocketInv
<1>3. CASE Close \/ Destroy
  <2>1. ClosedEndpoint \in Endpoints(MaxInbox) /\ ClosedEndpoint.link = "closed"
    BY EndpointFacts
  <2>2. Settle(ClosedEndpoint, polls, out) /\ s' = "invalid"
    BY <1>3 DEF Close, Destroy
  <2>3. alive' <=> registered'
    BY <1>3 DEF Close, Destroy, SocketInv
  <2>4. QED
    BY <1>0, <2>1, <2>2, <2>3, SettleSocketInv DEF SocketInv
<1>4. CASE Peer
  <2>1. PICK e \in Endpoints(MaxInbox) : e.link # "closed" /\ Network(e)
    BY <1>4, PeerFacts
  <2>2. Settle(e, polls, out) /\ UNCHANGED <<s, registered, alive>>
    BY <2>1 DEF Network
  <2>3. net.link # "closed"
    BY <1>4 DEF Peer, PeerAccepts, PeerRefuses, PeerSends, PeerShutsDown,
                PeerReads, PeerAborts
  <2>4. s = "open"
    BY <1>0, <2>3 DEF SocketInv
  <2>5. QED
    BY <1>0, <2>1, <2>2, <2>4, SettleSocketInv DEF SocketInv
<1>5. CASE Shutdown \/ Dispatch \/ Return \/ Throw \/ UNCHANGED vars
  <2>1. UNCHANGED <<s, net, polls, out, registered, alive>>
    BY <1>5 DEF Shutdown, Dispatch, Return, Throw, vars
  <2>2. QED
    BY <2>1 DEF SocketInv
<1>6. QED
  BY <1>1, <1>2, <1>3, <1>4, <1>5 DEF Next, Application, Thread

LEMMA SocketInvHolds == Spec => []SocketInv
<1>1. Init => SocketInv
  BY DEF Init, SocketInv, NewEndpoint
<1>2. QED
  BY <1>1, NextSocketInv, TypeCorrect, PTL DEF Spec

----------------------------------------------------------------------------
(* No wait is forgotten                                                    *)

\* A change of the connection either completes a poll, so that the thread
\* has an event to tell, or leaves every poll pending.
LEMMA SettleKeepsWait ==
  ASSUME TypeOK, NoForgottenWait, NEW e, Settle(e, polls, out),
         UNCHANGED <<alive, events>>, s' = "open" => s = "open"
  PROVE  NoForgottenWait'
<1>1. polls \in [PollIds -> SUBSET Events]
  BY DEF TypeOK
<1>2. \/ UNCHANGED <<polls, iocp, out>>
      \/ iocp' # {} /\ out' # {}
  BY <1>1, SettleCases
<1>3. CASE UNCHANGED <<polls, iocp, out>>
  <2>1. s' \in {"open"} => s = "open"
    OBVIOUS
  <2>2. QED
    BY <1>3 DEF NoForgottenWait
<1>4. CASE iocp' # {} /\ out' # {}
  BY <1>4 DEF NoForgottenWait
<1>5. QED
  BY <1>2, <1>3, <1>4

LEMMA NextNoForgottenWait ==
  ASSUME TypeOK, SocketInv, NoForgottenWait, [Next]_vars
  PROVE  NoForgottenWait'
<1> USE DEF kernel
<1>0. polls \in [PollIds -> SUBSET Events]
  BY DEF TypeOK
<1>1. CASE Connect \/ ReadNothing \/ WriteSome
  <2>1. PICK e \in Endpoints(MaxInbox) :
           events' \in SUBSET Events /\ Poll(events', e)
    BY <1>1, PollingStep
  <2>2. \/ \E i \in PollIds \ Outstanding : polls' = [polls EXCEPT ![i] = events']
        \/ iocp' # {} /\ out' # {}
    BY <2>1, PollCases
  <2>3. ASSUME NEW i \in PollIds \ Outstanding, polls' = [polls EXCEPT ![i] = events']
        PROVE  NoForgottenWait'
    <3>1. events' \subseteq polls'[i]
      BY <1>0, <2>3
    <3>2. QED
      BY <3>1 DEF NoForgottenWait
  <2>4. CASE iocp' # {} /\ out' # {}
    BY <2>4 DEF NoForgottenWait
  <2>5. QED
    BY <2>2, <2>3, <2>4
<1>2. CASE Close \/ Destroy
  BY <1>2 DEF Close, Destroy, NoForgottenWait
<1>3. CASE Dispatch
  <2>1. CASE registered /\ out # {}
    BY <1>3, <2>1 DEF Dispatch, HandleEvents, NoForgottenWait
  <2>2. CASE ~(registered /\ out # {})
    <3>1. UNCHANGED <<s, events, polls, out, alive>>
      BY <1>3, <2>2 DEF Dispatch
    <3>2. alive => out = {}
      BY <2>2 DEF SocketInv
    <3>3. QED
      BY <3>1, <3>2 DEF NoForgottenWait
  <2>3. QED
    BY <2>1, <2>2
<1>4. CASE Peer
  <2>1. PICK e \in Endpoints(MaxInbox) : Network(e)
    BY <1>4, PeerFacts
  <2>2. QED
    BY <2>1, SettleKeepsWait DEF Network
<1>5. CASE ReadSome \/ WriteAll \/ Shutdown \/ Return \/ Throw \/ UNCHANGED vars
  <2>1. UNCHANGED <<s, events, polls, iocp, out, alive>>
    BY <1>5 DEF ReadSome, WriteAll, Shutdown, Return, Throw, vars
  <2>2. QED
    BY <2>1 DEF NoForgottenWait
<1>6. QED
  BY <1>1, <1>2, <1>3, <1>4, <1>5 DEF Next, Application, Thread

\* However its polls overlap, whatever the driver loses and whichever
\* callback throws, an open socket that believes it waits does: a pending
\* poll asks for all of it, or the thread has an event to tell.
THEOREM NoWaitForgotten == Spec => []NoForgottenWait
<1>1. Init => NoForgottenWait
  BY DEF Init, NoForgottenWait
<1>2. QED
  BY <1>1, NextNoForgottenWait, TypeCorrect, SocketInvHolds, PTL DEF Spec

----------------------------------------------------------------------------
(* close() is reported                                                     *)

\* Between a close() that a pending poll reports and that report, the
\* poll's packet is queued and the output buffer holds the local close: no
\* other poll is left that could complete and overwrite it.
ReportPending ==
  alive /\ s = "invalid" /\ ~raced /\ calls["on_disconnected"] = 0 =>
    iocp # {} /\ out = {"LOCAL_CLOSE"}

\* The history of the milestones is never taken back.
LEMMA CallsKept ==
  ASSUME TypeOK, SocketInv, [Next]_vars, NEW m \in Milestones
  PROVE  calls'[m] = 0 => calls[m] = 0
<1>0. stack \in Seq(Frames) /\ out \in SUBSET Events /\ calls \in [Milestones -> 0..2]
  BY DEF TypeOK
<1>1. ASSUME NEW todo, NEW callers, Invoke(todo, callers)
      PROVE  calls'[m] = 0 => calls[m] = 0
  <2>1. calls'[m] = calls[m] + IF m = First(todo) /\ calls[m] < 2 THEN 1 ELSE 0
    BY <1>0, <1>1 DEF Invoke
  <2>2. calls[m] \in 0..2
    BY <1>0
  <2>3. PICK n \in {0, 1} : calls'[m] = calls[m] + n
    BY <2>1
  <2>4. QED
    BY <2>2, <2>3
<1>2. ASSUME NEW ev, HandleEvents(ev)
      PROVE  calls'[m] = 0 => calls[m] = 0
  BY <1>1, <1>2 DEF HandleEvents
<1>3. CASE Close
  BY <1>2, <1>3 DEF Close
<1>4. CASE Dispatch
  BY <1>2, <1>4 DEF Dispatch
<1>5. CASE Return
  BY <1>1, <1>5 DEF Return
<1>6. CASE Destroy \/ Throw
  BY <1>6 DEF Destroy, Throw
<1>7. QED
  BY <1>3, <1>4, <1>5, <1>6, StackUnchanged DEF Next, Application, Thread

LEMMA NextReportPending ==
  ASSUME TypeOK, SocketInv, ReportPending, [Next]_vars
  PROVE  ReportPending'
<1> USE DEF kernel
<1>0. /\ polls \in [PollIds -> SUBSET Events]
      /\ iocp \in SUBSET PollIds
      /\ s \in {"open", "invalid"}
      /\ calls \in [Milestones -> 0..2]
  BY DEF TypeOK
<1>a. calls'["on_disconnected"] = 0 => calls["on_disconnected"] = 0
  BY CallsKept DEF Milestones
<1>1. CASE Connect \/ ReadNothing \/ WriteSome
  <2>1. s' = "open"
    BY <1>1, PollingStep
  <2>2. QED
    BY <2>1 DEF ReportPending
<1>2. CASE Close
  <2>1. /\ Settle(ClosedEndpoint, polls, out)
        /\ raced' = (events # {} /\ \A i \in PollIds : polls[i] = {})
    BY <1>2 DEF Close
  <2>2. CASE events = {}
    <3>1. calls["on_disconnected"] = 0 => calls'["on_disconnected"] = 1
      BY <1>2, <2>2, CloseReports DEF Close
    <3>2. QED
      BY <1>a, <3>1 DEF ReportPending
  <2>3. CASE events # {} /\ \E i \in PollIds : polls[i] # {}
    <3>1. Ready(ClosedEndpoint) = {"LOCAL_CLOSE"}
      BY EndpointFacts, ReadyFacts
    <3>2. \E i \in PollIds : polls[i] \cap Ready(ClosedEndpoint) # {}
      BY <2>3, <3>1 DEF SocketInv
    <3>3. \E i \in PollIds : /\ i \in iocp'
                             /\ polls[i] \cap Ready(ClosedEndpoint) # {}
                             /\ out' = polls[i] \cap Ready(ClosedEndpoint)
      BY <1>0, <2>1, <3>2, SettleCases
    <3>4. iocp' # {} /\ out' = {"LOCAL_CLOSE"}
      BY <3>1, <3>3
    <3>5. QED
      BY <3>4 DEF ReportPending
  <2>4. CASE events # {} /\ \A i \in PollIds : polls[i] = {}
    BY <2>1, <2>4 DEF ReportPending
  <2>5. QED
    BY <2>2, <2>3, <2>4
<1>3. CASE Destroy
  BY <1>3 DEF Destroy, ReportPending
<1>4. CASE Dispatch
  <2>1. UNCHANGED <<s, out, alive, raced, registered>>
    BY <1>4 DEF Dispatch
  <2>2. CASE alive /\ s = "invalid" /\ ~raced /\ calls["on_disconnected"] = 0
    <3>1. out = {"LOCAL_CLOSE"} /\ registered
      BY <2>2 DEF ReportPending, SocketInv
    <3>2. HandleEvents({"LOCAL_CLOSE"})
      BY <1>4, <3>1 DEF Dispatch
    <3>3. calls'["on_disconnected"] = 1
      BY <2>2, <3>2, CloseReports
    <3>4. QED
      BY <3>3 DEF ReportPending
  <2>3. CASE ~(alive /\ s = "invalid" /\ ~raced /\ calls["on_disconnected"] = 0)
    BY <1>a, <2>1, <2>3 DEF ReportPending
  <2>4. QED
    BY <2>2, <2>3
<1>5. CASE Peer
  <2>1. PICK e \in Endpoints(MaxInbox) : Network(e)
    BY <1>5, PeerFacts
  <2>2. /\ Settle(e, polls, out)
        /\ UNCHANGED <<s, alive, calls, raced>>
    BY <2>1 DEF Network
  <2>3. CASE s = "invalid"
    <3>1. \A i \in PollIds : polls[i] \cap Ready(e) = {}
      BY <2>3 DEF SocketInv
    <3>2. UNCHANGED <<iocp, out>>
      BY <1>0, <2>2, <3>1, SettleCases
    <3>3. QED
      BY <2>2, <3>2 DEF ReportPending
  <2>4. CASE s = "open"
    BY <2>2, <2>4 DEF ReportPending
  <2>5. QED
    BY <1>0, <2>3, <2>4
<1>6. CASE ReadSome \/ WriteAll \/ Shutdown \/ Return \/ Throw \/ UNCHANGED vars
  <2>1. UNCHANGED <<s, iocp, out, alive, raced>>
    BY <1>6 DEF ReadSome, WriteAll, Shutdown, Return, Throw, vars
  <2>2. QED
    BY <1>a, <2>1 DEF ReportPending
<1>7. QED
  BY <1>1, <1>2, <1>3, <1>4, <1>5, <1>6 DEF Next, Application, Thread

\* A socket that was closed while a poll was pending, or while it wanted
\* none, has been told so by the time that nothing more can happen to it,
\* whichever packets of earlier polls were dispatched in between.
THEOREM CloseIsReported == Spec => []CloseReportedUnlessRaced
<1>1. Init => ReportPending
  BY DEF Init, ReportPending
<1>2. TypeOK /\ ReportPending => CloseReportedUnlessRaced
  <2>1. TypeOK => calls["on_disconnected"] \in 0..2
    BY DEF TypeOK, Milestones
  <2>2. QED
    BY <2>1 DEF ReportPending, CloseReportedUnlessRaced, Quiet
<1>3. QED
  BY <1>1, <1>2, NextReportPending, TypeCorrect, SocketInvHolds, PTL DEF Spec

----------------------------------------------------------------------------
(* Which callback comes first, and which may wait for it                   *)

\* The callbacks that may have to wait for an earlier one to return: news
\* and ends, never the outcome of connect() and never on_disconnected.
LaterCallbacks ==
  {"on_readable", "on_readable_oob", "on_connection_reset", "on_client_close"}

LEMMA LaterFacts ==
  ASSUME NEW state, NEW ev \in SUBSET Events,
         "LOCAL_CLOSE" \in ev => ev = {"LOCAL_CLOSE"}, Raised(state, ev) # {}
  PROVE  LET todo == Raised(state, ev) IN
         /\ todo \in SUBSET Callbacks
         /\ First(todo) \in todo
         /\ todo \ {First(todo)} \subseteq LaterCallbacks
<1> DEFINE todo == Raised(state, ev)
<1>1. todo \in SUBSET Callbacks
  BY RaisedFacts
<1>2. First(todo) \in todo
  BY <1>1, FirstFacts
<1>3. CASE "LOCAL_CLOSE" \in ev
  <2>1. todo = {"on_disconnected"}
    BY <1>3, RaisedFacts
  <2>2. QED
    BY <1>1, <1>2, <2>1
<1>4. CASE "LOCAL_CLOSE" \notin ev
  <2>1. "on_disconnected" \notin todo
    BY <1>4, RaisedFacts
  <2> DEFINE Outcomes == {"on_connection_failed", "on_connected", "on_writable"}
  <2>2. todo \subseteq LaterCallbacks \cup Outcomes
    BY <1>1, <2>1 DEF Callbacks, LaterCallbacks
  <2>3. \A c, d \in Outcomes : c \in todo /\ d \in todo => c = d
    BY DEF Raised, CallbackFor, If
  <2>4. /\ \A c \in Outcomes : Rank[c] = 0
        /\ \A c \in LaterCallbacks : Rank[c] \in 1..4
    BY DEF LaterCallbacks, Rank
  <2> HIDE DEF todo, Outcomes
  <2>5. CASE \E c \in Outcomes : c \in todo
    <3>1. PICK c \in Outcomes : c \in todo
      BY <2>5
    <3>2. \A d \in todo : Rank[c] <= Rank[d]
      BY <2>2, <2>4, <3>1
    <3>3. Rank[First(todo)] <= 0
      BY <2>4, <3>1, <3>2 DEF First
    <3>4. First(todo) \in Outcomes
      BY <1>2, <2>2, <2>4, <3>3
    <3>5. QED
      BY <1>1, <1>2, <2>2, <2>3, <3>4 DEF todo
  <2>6. CASE \A c \in Outcomes : c \notin todo
    BY <1>1, <1>2, <2>2, <2>6 DEF todo
  <2>7. QED
    BY <2>5, <2>6
<1>5. QED
  BY <1>3, <1>4

\* What a poll of connect() may find: nothing yet, a failure, the local
\* close, or a connection with whatever else goes with it.
Outcome(ev) ==
  \/ ev \in {{}, {"CONNECT_FAIL"}, {"LOCAL_CLOSE"}}
  \/ /\ ev \subseteq ConnectEvents \ {"CONNECT_FAIL", "LOCAL_CLOSE"}
     /\ "SEND" \in ev

LEMMA ConnectOutcome ==
  ASSUME NEW e \in Endpoints(MaxInbox), e.room
  PROVE  Outcome(ConnectEvents \cap Ready(e))
  BY DEF Endpoints, Links, Ready, If, Outcome, ConnectEvents

LEMMA RaisedFailed ==
  ASSUME NEW state, NEW ev, "on_connection_failed" \in Raised(state, ev)
  PROVE  state = "pending_connect"
  BY DEF Raised, CallbackFor, If

\* What the first callback of a handle_events call can be, in each state.
LEMMA FirstRaised ==
  ASSUME NEW state, NEW ev \in SUBSET Events,
         "LOCAL_CLOSE" \in ev => ev = {"LOCAL_CLOSE"}, Raised(state, ev) # {}
  PROVE  LET c == First(Raised(state, ev)) IN
         /\ c = "on_disconnected" => "LOCAL_CLOSE" \in ev
         /\ state # "pending_connect" =>
              c \in LaterCallbacks \cup {"on_writable", "on_disconnected"}
         /\ state = "pending_connect" /\ Outcome(ev) =>
              c \in {"on_connected", "on_connection_failed", "on_disconnected"}
<1> DEFINE todo == Raised(state, ev)
           c == First(todo)
<1>1. /\ todo \in SUBSET Callbacks
      /\ c \in todo
      /\ todo \ {c} \subseteq LaterCallbacks
  BY LaterFacts
<1>2. c = "on_disconnected" => "LOCAL_CLOSE" \in ev
  BY <1>1, RaisedFacts
<1>3. ASSUME state # "pending_connect"
      PROVE  c \in LaterCallbacks \cup {"on_writable", "on_disconnected"}
  <2>1. "on_connected" \notin todo /\ "on_connection_failed" \notin todo
    <3>1. "on_connected" \notin todo
      BY <1>3, RaisedConnected
    <3>2. "on_connection_failed" \notin todo
      BY <1>3, RaisedFailed
    <3>3. QED
      BY <3>1, <3>2
  <2>2. QED
    BY <1>1, <2>1 DEF Callbacks, LaterCallbacks
<1>4. ASSUME state = "pending_connect", Outcome(ev)
      PROVE  c \in {"on_connected", "on_connection_failed", "on_disconnected"}
  <2>1. CASE ev = {}
    <3>1. todo = {}
      BY <2>1, <1>4 DEF Raised, CallbackFor, If
    <3>2. QED
      BY <3>1
  <2>2. CASE ev = {"CONNECT_FAIL"}
    <3>1. todo = {"on_connection_failed"}
      BY <2>2, <1>4 DEF Raised, CallbackFor, If
    <3>2. QED
      BY <1>1, <3>1
  <2>3. CASE ev = {"LOCAL_CLOSE"}
    <3>1. todo = {"on_disconnected"}
      BY <2>3, RaisedFacts
    <3>2. QED
      BY <1>1, <3>1
  <2>4. CASE "SEND" \in ev /\ "CONNECT_FAIL" \notin ev
    <3>1. "on_connected" \in todo
      BY <2>4, <1>4 DEF Raised, CallbackFor, If
    <3>2. QED
      BY <1>1, <3>1 DEF LaterCallbacks
  <2>5. QED
    BY <1>4, <2>1, <2>2, <2>3, <2>4 DEF Outcome
<1>5. QED
  BY <1>2, <1>3, <1>4

----------------------------------------------------------------------------
(* What is told while the socket connects                                  *)

\* Before connect() nothing is outstanding.  Until its outcome is told, the
\* send buffer has room, no callback runs, and the only poll is the one that
\* connect() has made.
TellInv ==
  /\ connection_state = "created" => Outstanding = {}
  /\ connection_state \in {"created", "pending_connect"} => net.room /\ stack = <<>>
  /\ connection_state = "pending_connect" =>
       Outcome(out) /\ \A i \in PollIds : polls[i] \in {{}, ConnectEvents}
  /\ \A i \in 1..Len(stack) : stack[i].todo \subseteq LaterCallbacks

\* A change of the connection that makes no callback.
LEMMA SettleTell ==
  ASSUME TypeOK, TellInv, NEW e \in Endpoints(MaxInbox), Settle(e, polls, out),
         connection_state \in {"created", "pending_connect"} => e.room,
         UNCHANGED <<connection_state, stack>>
  PROVE  TellInv'
<1>1. /\ polls \in [PollIds -> SUBSET Events]
      /\ iocp \in SUBSET PollIds
      /\ out \in SUBSET Events
  BY DEF TypeOK
<1>2. /\ net' = e
      /\ \A i \in PollIds : polls'[i] # {} => polls'[i] = polls[i]
      /\ \A i \in PollIds : i \in iocp' => i \in iocp \/ polls[i] # {}
  BY <1>1, SettleFacts
<1>3. connection_state' = "created" => Outstanding' = {}
  BY <1>2 DEF TellInv, Outstanding
<1>4. ASSUME connection_state = "pending_connect"
      PROVE  Outcome(out') /\ \A i \in PollIds : polls'[i] \in {{}, ConnectEvents}
  <2>1. \A i \in PollIds : polls'[i] \in {{}, ConnectEvents}
    BY <1>2, <1>4 DEF TellInv
  <2>2. CASE out' = out
    BY <1>4, <2>1, <2>2 DEF TellInv
  <2>3. ASSUME NEW i \in PollIds, polls[i] \cap Ready(e) # {},
               out' = polls[i] \cap Ready(e)
        PROVE  Outcome(out')
    <3>1. polls[i] = ConnectEvents
      BY <1>4, <2>3 DEF TellInv
    <3>2. QED
      BY <1>4, <2>3, <3>1, ConnectOutcome
  <2>4. QED
    BY <1>1, <2>1, <2>2, <2>3, SettleCases
<1>5. QED
  BY <1>2, <1>3, <1>4 DEF TellInv

\* handle_events tells an outcome of connect() first and only then; what it
\* leaves for later is news or an end.
LEMMA HandleEventsTell ==
  ASSUME TypeOK, TellInv, NEW ev \in SUBSET Events, ev # {},
         "LOCAL_CLOSE" \in ev => ev = {"LOCAL_CLOSE"},
         connection_state # "created",
         connection_state = "pending_connect" => Outcome(ev),
         HandleEvents(ev)
  PROVE  /\ connection_state' \in {"connected", "disconnected"}
         /\ \A i \in 1..Len(stack') : stack'[i].todo \subseteq LaterCallbacks
<1> DEFINE todo == Raised(connection_state, ev)
<1>0. stack \in Seq(Frames) /\ Len(stack) \in Nat
  BY LenProperties DEF TypeOK
<1>1. CASE todo = {}
  <2>1. UNCHANGED <<connection_state, stack>>
    BY <1>1 DEF HandleEvents
  <2>2. connection_state # "pending_connect"
    <3>1. Outcome(ev) /\ ev # {} => \/ "LOCAL_CLOSE" \in ev \/ "SEND" \in ev
                                    \/ "CONNECT_FAIL" \in ev
      BY DEF Outcome
    <3>2. QED
      BY <1>1, <3>1, RaisedFacts DEF Raised, CallbackFor, If
  <2>3. QED
    BY <2>1, <2>2 DEF TellInv, TypeOK, ConnectionStates
<1>2. CASE todo # {}
  <2>1. Invoke(todo, stack)
    BY <1>2 DEF HandleEvents
  <2> DEFINE c == First(todo)
  <2>2. /\ todo \in SUBSET Callbacks
        /\ todo \ {c} \subseteq LaterCallbacks
    BY <1>2, LaterFacts
  <2>3. /\ connection_state # "pending_connect" =>
             c \in LaterCallbacks \cup {"on_writable", "on_disconnected"}
        /\ connection_state = "pending_connect" =>
             c \in {"on_connected", "on_connection_failed", "on_disconnected"}
    BY <1>2, FirstRaised
  <2> HIDE DEF todo
  <2>4. connection_state' = StateFor(c, connection_state)
    BY <2>1 DEF Invoke
  <2>5. connection_state' \in {"connected", "disconnected"}
    BY <2>3, <2>4 DEF StateFor, LaterCallbacks, TypeOK, ConnectionStates
  <2>6. /\ Len(stack') = Len(stack) + 1
        /\ \A i \in 1..Len(stack) : stack'[i] = stack[i]
        /\ stack'[Len(stack) + 1] = [run |-> c, todo |-> todo \ {c}]
    BY <1>0, <1>2, <2>1, <2>2, InvokeFacts
  <2>7. \A i \in 1..Len(stack) + 1 : i \in 1..Len(stack) \/ i = Len(stack) + 1
    BY <1>0
  <2>8. \A i \in 1..Len(stack') : stack'[i].todo \subseteq LaterCallbacks
    BY <2>2, <2>6, <2>7 DEF TellInv
  <2>9. QED
    BY <2>5, <2>8
<1>3. QED
  BY <1>1, <1>2

\* close() itself reports to on_disconnected alone.
LEMMA CloseEnds ==
  ASSUME TypeOK, HandleEvents({"LOCAL_CLOSE"})
  PROVE  /\ connection_state' = "disconnected"
         /\ stack' = Append(stack, [run |-> "on_disconnected", todo |-> {}])
<1>1. Raised(connection_state, {"LOCAL_CLOSE"}) = {"on_disconnected"}
  BY RaisedFacts
<1>2. Invoke({"on_disconnected"}, stack)
  BY <1>1 DEF HandleEvents
<1>3. First({"on_disconnected"}) = "on_disconnected"
  BY FirstFacts DEF Callbacks
<1>4. QED
  BY <1>2, <1>3 DEF Invoke, StateFor

\* The next callback of a handle_events call in progress.
LEMMA NextCallback ==
  ASSUME TypeOK, TellInv, Return, Top.todo # {}
  PROVE  LET c == First(Top.todo) IN
         /\ c \in LaterCallbacks
         /\ connection_state' = StateFor(c, connection_state)
         /\ stack' = Append(Callers, [run |-> c, todo |-> Top.todo \ {c}])
         /\ Top.todo \subseteq LaterCallbacks
<1>1. stack # <<>>
  BY DEF Return
<1>2. Top \in Frames /\ Len(stack) \in Nat \ {0}
  BY <1>1, TopFacts
<1>3. Top.todo \subseteq LaterCallbacks /\ Top.todo \in SUBSET Callbacks
  BY <1>2 DEF TellInv, Top, Frames
<1>4. First(Top.todo) \in Top.todo
  BY <1>3, FirstFacts
<1>5. Invoke(Top.todo, Callers)
  BY DEF Return
<1>6. QED
  BY <1>3, <1>4, <1>5 DEF Invoke

LEMMA NextTellInv ==
  ASSUME TypeOK, SocketInv, TellInv, [Next]_vars
  PROVE  TellInv'
<1> USE DEF kernel
<1>0. /\ net \in Endpoints(MaxInbox)
      /\ polls \in [PollIds -> SUBSET Events]
      /\ iocp \in SUBSET PollIds
      /\ out \in SUBSET Events
      /\ stack \in Seq(Frames) /\ Len(stack) \in Nat
      /\ connection_state \in ConnectionStates
  BY LenProperties DEF TypeOK
<1>1. CASE Connect
  <2>1. PICK link \in {"connecting", "up"} :
           Poll(ConnectEvents, [net EXCEPT !.link = link])
    BY <1>1 DEF Connect
  <2> DEFINE e == [net EXCEPT !.link = link]
  <2>2. Outstanding = {} /\ net.room /\ stack = <<>>
    BY <1>1 DEF Connect, TellInv
  <2>3. e \in Endpoints(MaxInbox) /\ e.room
    BY <1>0, <2>2 DEF Endpoints, Links
  <2>4. ConnectEvents \in SUBSET Events
    BY DEF ConnectEvents, Events
  <2>5. connection_state' = "pending_connect" /\ stack' = <<>>
    BY <1>1, <2>2 DEF Connect
  <2>6. Poll(ConnectEvents, e)
    BY <2>1
  <2> HIDE DEF e
  <2>7. /\ net' = e
        /\ \A i \in PollIds : polls'[i] # {} => polls'[i] \in {polls[i], ConnectEvents}
    BY <2>3, <2>4, <2>6, PollFacts
  <2>8. \A i \in PollIds : polls[i] = {}
    BY <2>2 DEF Outstanding
  <2>9. \A i \in PollIds : polls'[i] \in {{}, ConnectEvents}
    BY <2>7, <2>8
  <2>10. Outcome(out')
    <3>1. \/ out' = {}
          \/ out' # {} /\ \E asked \in {polls[j] : j \in PollIds} \cup {ConnectEvents} :
                             out' = asked \cap Ready(e)
      BY <2>4, <2>6, PollCases
    <3>2. out' = {} \/ out' = ConnectEvents \cap Ready(e)
      BY <2>8, <3>1
    <3>3. QED
      BY <2>3, <3>2, ConnectOutcome DEF Outcome
  <2>11. \A i \in 1..Len(stack') : stack'[i].todo \subseteq LaterCallbacks
    BY <2>2, <2>5 DEF TellInv
  <2>12. QED
    BY <2>3, <2>5, <2>7, <2>9, <2>10, <2>11 DEF TellInv
<1>2. CASE ReadNothing \/ WriteSome \/ ReadSome \/ WriteAll
  <2>1. connection_state = "connected" /\ UNCHANGED <<connection_state, stack>>
    BY <1>2 DEF ReadNothing, WriteSome, ReadSome, WriteAll, PollFor, Connected
  <2>2. QED
    BY <2>1 DEF TellInv
<1>3. CASE Close /\ events = {}
  <2>1. HandleEvents({"LOCAL_CLOSE"})
    BY <1>3 DEF Close
  <2>2. connection_state' = "disconnected"
    BY <2>1, CloseEnds
  <2>3. /\ Len(stack') = Len(stack) + 1
        /\ \A i \in 1..Len(stack) : stack'[i] = stack[i]
        /\ stack'[Len(stack) + 1] = [run |-> "on_disconnected", todo |-> {}]
    BY <2>1, CloseReports
  <2>4. \A i \in 1..Len(stack) + 1 : i \in 1..Len(stack) \/ i = Len(stack) + 1
    BY <1>0
  <2>5. \A i \in 1..Len(stack') : stack'[i].todo \subseteq LaterCallbacks
    BY <2>3, <2>4 DEF TellInv
  <2>6. QED
    BY <2>2, <2>5 DEF TellInv
<1>4. CASE Destroy \/ (Close /\ events # {})
  <2>1. /\ Settle(ClosedEndpoint, polls, out)
        /\ UNCHANGED <<connection_state, stack>>
    BY <1>4 DEF Close, Destroy
  <2>2. ClosedEndpoint \in Endpoints(MaxInbox) /\ ClosedEndpoint.room
    BY EndpointFacts DEF ClosedEndpoint, NewEndpoint
  <2>3. QED
    BY <2>1, <2>2, SettleTell
<1>5. CASE Dispatch
  <2>1. PICK i \in iocp : iocp' = iocp \ {i}
    BY <1>5 DEF Dispatch
  <2>2. connection_state # "created"
    BY <1>0, <2>1 DEF TellInv, Outstanding
  <2>3. UNCHANGED <<net, polls, out>>
    BY <1>5 DEF Dispatch
  <2>4. CASE registered /\ out # {}
    <3>1. HandleEvents(out)
      BY <1>5, <2>4 DEF Dispatch
    <3>2. /\ "LOCAL_CLOSE" \in out => out = {"LOCAL_CLOSE"}
          /\ connection_state = "pending_connect" => Outcome(out)
      BY DEF SocketInv, TellInv
    <3>3. /\ connection_state' \in {"connected", "disconnected"}
          /\ \A j \in 1..Len(stack') : stack'[j].todo \subseteq LaterCallbacks
      BY <1>0, <2>2, <2>4, <3>1, <3>2, HandleEventsTell
    <3>4. QED
      BY <3>3 DEF TellInv
  <2>5. CASE ~(registered /\ out # {})
    <3>1. UNCHANGED <<connection_state, stack>>
      BY <1>5, <2>5 DEF Dispatch
    <3>2. QED
      BY <2>2, <2>3, <3>1 DEF TellInv
  <2>6. QED
    BY <2>4, <2>5
<1>6. CASE Return \/ Throw
  <2>1. stack # <<>>
    BY <1>6 DEF Return, Throw
  <2>2. connection_state \in {"connected", "disconnected"}
    BY <1>0, <2>1 DEF TellInv, ConnectionStates
  <2>3. /\ Callers \in Seq(Frames)
        /\ Len(Callers) = Len(stack) - 1 /\ Len(stack) \in Nat \ {0}
        /\ \A i \in 1..Len(Callers) : Callers[i] = stack[i]
        /\ Top \in Frames
    BY <2>1, TopFacts
  <2>4. \A i \in 1..Len(Callers) : Callers[i].todo \subseteq LaterCallbacks
    BY <2>3 DEF TellInv
  <2>5. CASE Return /\ Top.todo # {}
    <3> DEFINE c == First(Top.todo)
               frame == [run |-> c, todo |-> Top.todo \ {c}]
    <3>1. /\ c \in LaterCallbacks
          /\ connection_state' = StateFor(c, connection_state)
          /\ stack' = Append(Callers, frame)
          /\ Top.todo \subseteq LaterCallbacks
      BY <2>5, NextCallback
    <3>2. connection_state' \in {"connected", "disconnected"}
      BY <2>2, <3>1 DEF StateFor
    <3>3. frame \in Frames /\ frame.todo \subseteq LaterCallbacks
      BY <2>3, <3>1 DEF Frames, LaterCallbacks, Callbacks
    <3> HIDE DEF frame
    <3>4. /\ Len(stack') = Len(Callers) + 1
          /\ \A i \in 1..Len(Callers) : stack'[i] = Callers[i]
          /\ stack'[Len(Callers) + 1] = frame
      BY <2>3, <3>1, <3>3, AppendProperties
    <3>5. \A i \in 1..Len(Callers) + 1 : i \in 1..Len(Callers) \/ i = Len(Callers) + 1
      BY <2>3
    <3>6. \A i \in 1..Len(stack') : stack'[i].todo \subseteq LaterCallbacks
      BY <2>4, <3>3, <3>4, <3>5
    <3>7. QED
      BY <3>2, <3>6 DEF TellInv
  <2>6. CASE Throw \/ Top.todo = {}
    <3>1. stack' = Callers /\ connection_state' = connection_state
      BY <1>6, <2>6 DEF Return, Throw
    <3>2. QED
      BY <2>2, <2>4, <3>1 DEF TellInv
  <2>7. QED
    BY <1>6, <2>5, <2>6
<1>7. CASE Peer
  <2>1. PICK e \in Endpoints(MaxInbox) : Network(e)
    BY <1>7, PeerFacts
  <2>2. /\ Settle(e, polls, out) /\ net' = e
        /\ UNCHANGED <<connection_state, stack>>
    BY <2>1 DEF Network, Settle
  <2>3. net.room => net'.room
    BY <1>0, <1>7 DEF Peer, PeerAccepts, PeerRefuses, PeerSends,
       PeerShutsDown, PeerReads, PeerAborts, Network, Settle, Endpoints,
       ResetEndpoint
  <2>4. connection_state \in {"created", "pending_connect"} => e.room
    BY <2>2, <2>3 DEF TellInv
  <2>5. QED
    BY <2>2, <2>4, SettleTell
<1>8. CASE Shutdown \/ UNCHANGED vars
  <2>1. UNCHANGED <<connection_state, stack, net, polls, iocp, out>>
    BY <1>8 DEF Shutdown, vars
  <2>2. QED
    BY <2>1 DEF TellInv, Outstanding
<1>9. QED
  BY <1>1, <1>2, <1>3, <1>4, <1>5, <1>6, <1>7, <1>8
     DEF Next, Application, Thread

LEMMA TellInvHolds == Spec => []TellInv
<1>1. Init => TellInv
  BY EmptySeq DEF Init, TellInv, Outstanding, NewEndpoint
<1>2. QED
  BY <1>1, NextTellInv, TypeCorrect, SocketInvHolds, PTL DEF Spec

----------------------------------------------------------------------------
(* Step simulation                                                         *)

\* The state of the abstract specification, for the step in hand.
LEMMA CallingFacts ==
  /\ RunsOf(stack) = [i \in DOMAIN stack |-> stack[i].run]
  /\ RunsOf(stack)' = [i \in DOMAIN stack' |-> stack'[i].run]
  BY DEF RunsOf

\* A step that tells the application nothing and neither closes nor deletes
\* the socket is no step of the abstract specification.
LEMMA SilentStep ==
  ASSUME UNCHANGED <<s, connection_state, alive, stack>>
  PROVE  UNCHANGED Promise!vars
  BY DEF Promise!vars, Phase

\* The callback the main loop's handle_events makes first.
LEMMA DispatchStep ==
  ASSUME TypeOK, SocketInv, TellInv, Dispatch
  PROVE  [Promise!Next]_(Promise!vars)
<1> USE DEF kernel
<1>0. /\ iocp \in SUBSET PollIds
      /\ out \in SUBSET Events
      /\ connection_state \in ConnectionStates
      /\ s \in {"open", "invalid"}
      /\ stack = <<>>
      /\ <<>> \in Seq(Frames)
  BY EmptySeq DEF TypeOK, Dispatch
<1>1. PICK i \in iocp : iocp' = iocp \ {i}
  BY DEF Dispatch
<1>2. connection_state # "created"
  BY <1>0, <1>1 DEF TellInv, Outstanding
<1>3. UNCHANGED <<s, alive>>
  BY DEF Dispatch
<1> DEFINE todo == Raised(connection_state, out)
           c == First(todo)
<1>4. CASE ~(registered /\ out # {}) \/ todo = {}
  <2>1. UNCHANGED <<connection_state, stack>>
    BY <1>4 DEF Dispatch, HandleEvents
  <2>2. QED
    BY <1>3, <2>1, SilentStep
<1>5. CASE registered /\ out # {} /\ todo # {}
  <2>1. /\ "LOCAL_CLOSE" \in out => out = {"LOCAL_CLOSE"} /\ s = "invalid"
        /\ connection_state = "pending_connect" => Outcome(out)
        /\ alive
    BY <1>0, <1>5 DEF SocketInv, TellInv
  <2>2. Invoke(todo, stack)
    BY <1>5 DEF Dispatch, HandleEvents
  <2>3. /\ connection_state' = StateFor(c, connection_state)
        /\ stack' = Append(<<>>, [run |-> c, todo |-> todo \ {c}])
    BY <1>0, <2>2 DEF Invoke
  <2>4. todo \in SUBSET Callbacks /\ c \in todo
    BY <1>0, <1>5, <2>1, LaterFacts
  <2>5. [run |-> c, todo |-> todo \ {c}] \in Frames
    BY <2>4 DEF Frames
  <2>6. RunsOf(stack') = Append(RunsOf(<<>>), c)
    <3>1. RunsOf(Append(<<>>, [run |-> c, todo |-> todo \ {c}]))
            = Append(RunsOf(<<>>), [run |-> c, todo |-> todo \ {c}].run)
      BY <1>0, <2>5, RunsOfAppend
    <3>2. QED
      BY <2>3, <3>1
  <2>7. RunsOf(<<>>) = <<>> /\ RunsOf(stack) = <<>>
    BY <1>0, RunsOfFacts
  <2>8. Append(<<>>, c) = <<c>>
    BY <2>4, AppendToEmpty
  <2>9. RunsOf(stack') = <<c>>
    BY <2>6, <2>7, <2>8
  <2>10. /\ c = "on_disconnected" => s = "invalid"
         /\ connection_state # "pending_connect" =>
              c \in LaterCallbacks \cup {"on_writable", "on_disconnected"}
         /\ connection_state = "pending_connect" =>
              c \in {"on_connected", "on_connection_failed", "on_disconnected"}
    BY <1>0, <1>5, <2>1, FirstRaised
  <2> HIDE DEF todo, c
  <2>11. CASE c = "on_connected"
    <3>1. connection_state = "pending_connect" /\ connection_state' = "connected"
      BY <2>3, <2>10, <2>11 DEF LaterCallbacks, StateFor
    <3>2. Promise!OnConnected
      BY <1>3, <2>1, <2>7, <2>9, <2>11, <3>1, CallingFacts
         DEF Promise!OnConnected, Promise!Calls, Phase
    <3>3. QED
      BY <3>2 DEF Promise!Next
  <2>12. CASE c = "on_connection_failed"
    <3>1. connection_state = "pending_connect" /\ connection_state' = "disconnected"
      BY <2>3, <2>10, <2>12 DEF LaterCallbacks, StateFor
    <3>2. Promise!OnConnectionFailed
      BY <1>3, <2>1, <2>7, <2>9, <2>12, <3>1, CallingFacts
         DEF Promise!OnConnectionFailed, Promise!Calls, Phase
    <3>3. QED
      BY <3>2 DEF Promise!Next
  <2>13. CASE c = "on_disconnected"
    <3>1. connection_state' = "disconnected" /\ s = "invalid"
      BY <2>3, <2>10, <2>13 DEF StateFor
    <3>2. Promise!OnDisconnected
      BY <1>3, <2>1, <2>7, <2>9, <2>13, <3>1, CallingFacts
         DEF Promise!OnDisconnected, Promise!Calls, Phase
    <3>3. QED
      BY <3>2 DEF Promise!Next
  <2>14. CASE c \in {"on_writable", "on_readable", "on_readable_oob"}
    <3>1. /\ connection_state \in {"connected", "disconnected"}
          /\ connection_state' = connection_state
      BY <1>0, <1>2, <2>3, <2>10, <2>14 DEF StateFor, ConnectionStates
    <3>2. Promise!OnNews
      BY <1>3, <2>1, <2>7, <2>9, <2>14, <3>1, CallingFacts
         DEF Promise!OnNews, Promise!Calls, Promise!News, Phase
    <3>3. QED
      BY <3>2 DEF Promise!Next
  <2>15. CASE c \in {"on_connection_reset", "on_client_close"}
    <3>1. /\ connection_state \in {"connected", "disconnected"}
          /\ connection_state' = "disconnected"
      BY <1>0, <1>2, <2>3, <2>10, <2>15 DEF StateFor, ConnectionStates
    <3>2. Promise!OnEnd
      BY <1>3, <2>1, <2>7, <2>9, <2>15, <3>1, CallingFacts
         DEF Promise!OnEnd, Promise!Calls, Promise!Ends, Phase
    <3>3. QED
      BY <3>2 DEF Promise!Next
  <2>16. QED
    BY <2>4, <2>11, <2>12, <2>13, <2>14, <2>15 DEF Callbacks
<1>6. QED
  BY <1>4, <1>5

\* A callback returns to the handle_events call that made it, which makes
\* its next one or returns too.
LEMMA ReturnStep ==
  ASSUME TypeOK, StackInv, TellInv, Return \/ Throw
  PROVE  Promise!Next
<1> USE DEF kernel
<1>0. /\ stack \in Seq(Frames) /\ stack # <<>> /\ alive
      /\ connection_state \in ConnectionStates
      /\ UNCHANGED <<s, alive>>
  BY DEF TypeOK, Return, Throw, StackInv
<1>1. connection_state \in {"connected", "disconnected"}
  BY <1>0 DEF TellInv, ConnectionStates
<1>2. /\ RunsOf(stack) # <<>>
      /\ Callers = SubSeq(stack, 1, Len(stack) - 1)
      /\ Top \in Frames
  BY <1>0, RunsOfFacts, TopFacts DEF Callers
<1>3. CASE Return /\ Top.todo # {}
  <2> DEFINE c == First(Top.todo)
             frame == [run |-> c, todo |-> Top.todo \ {c}]
  <2>1. /\ c \in LaterCallbacks
        /\ connection_state' = StateFor(c, connection_state)
        /\ stack' = Append(Callers, frame)
        /\ Top.todo \subseteq LaterCallbacks
    BY <1>3, NextCallback
  <2>2. frame \in Frames /\ frame.run = c
    BY <2>1 DEF Frames, LaterCallbacks, Callbacks
  <2> HIDE DEF frame, c
  <2>3. RunsOf(stack') = [RunsOf(stack) EXCEPT ![Len(RunsOf(stack))] = c]
    BY <1>0, <1>2, <2>1, <2>2, RunsOfReplace
  <2>4. CASE c \in {"on_readable", "on_readable_oob"}
    <3>1. connection_state' = connection_state
      BY <2>1, <2>4 DEF StateFor
    <3>2. Promise!OnNews
      BY <1>0, <1>1, <1>2, <2>3, <2>4, <3>1, CallingFacts
         DEF Promise!OnNews, Promise!Calls, Promise!News, Phase
    <3>3. QED
      BY <3>2 DEF Promise!Next
  <2>5. CASE c \in {"on_connection_reset", "on_client_close"}
    <3>1. connection_state' = "disconnected"
      BY <2>1, <2>5 DEF StateFor
    <3>2. Promise!OnEnd
      BY <1>0, <1>1, <1>2, <2>3, <2>5, <3>1, CallingFacts
         DEF Promise!OnEnd, Promise!Calls, Promise!Ends, Phase
    <3>3. QED
      BY <3>2 DEF Promise!Next
  <2>6. QED
    BY <2>1, <2>4, <2>5 DEF LaterCallbacks
<1>4. CASE Throw \/ Top.todo = {}
  <2>1. stack' = SubSeq(stack, 1, Len(stack) - 1) /\ UNCHANGED connection_state
    BY <1>2, <1>4 DEF Return, Throw
  <2>2. RunsOf(stack') = SubSeq(RunsOf(stack), 1, Len(RunsOf(stack)) - 1)
    BY <1>0, <2>1, RunsOfPop
  <2>3. Promise!Return
    BY <1>0, <1>2, <2>1, <2>2, CallingFacts DEF Promise!Return, Phase
  <2>4. QED
    BY <2>3 DEF Promise!Next
<1>5. QED
  BY <1>3, <1>4

\* The application closes or deletes its socket.
LEMMA CloseStep ==
  ASSUME TypeOK, Close \/ Destroy
  PROVE  Promise!Next
<1> USE DEF kernel
<1>0. stack \in Seq(Frames)
  BY DEF TypeOK
<1>1. CASE Close /\ events = {}
  <2>1. HandleEvents({"LOCAL_CLOSE"}) /\ s = "open" /\ s' = "invalid" /\ UNCHANGED alive
    BY <1>1 DEF Close
  <2>2. /\ connection_state' = "disconnected"
        /\ stack' = Append(stack, [run |-> "on_disconnected", todo |-> {}])
    BY <2>1, CloseEnds
  <2>3. [run |-> "on_disconnected", todo |-> {}] \in Frames
    BY DEF Frames, Callbacks
  <2>4. RunsOf(stack') = Append(RunsOf(stack), "on_disconnected")
    BY <1>0, <2>2, <2>3, RunsOfAppend
  <2>5. Promise!OnDisconnected
    BY <2>1, <2>2, <2>4, CallingFacts DEF Promise!OnDisconnected, Phase
  <2>6. QED
    BY <2>5 DEF Promise!Next
<1>2. CASE Close /\ events # {}
  <2>1. s' = "invalid" /\ UNCHANGED <<connection_state, alive, stack>>
    BY <1>2 DEF Close
  <2>2. Promise!Close
    BY <2>1 DEF Promise!Close, Phase
  <2>3. QED
    BY <2>2 DEF Promise!Next
<1>3. CASE Destroy
  <2>1. /\ stack = <<>> /\ s' = "invalid" /\ ~alive'
        /\ UNCHANGED <<connection_state, stack>>
    BY <1>3 DEF Destroy
  <2>2. RunsOf(stack) = <<>>
    BY <1>0, <2>1, RunsOfFacts
  <2>3. Promise!Delete
    BY <2>1, <2>2, CallingFacts DEF Promise!Delete, Phase
  <2>4. QED
    BY <2>3 DEF Promise!Next
<1>4. QED
  BY <1>1, <1>2, <1>3

LEMMA NextTells ==
  ASSUME TypeOK, StackInv, SocketInv, TellInv, [Next]_vars
  PROVE  [Promise!Next]_(Promise!vars)
<1> USE DEF kernel
<1>1. CASE Connect
  <2>1. /\ connection_state = "created" /\ connection_state' = "pending_connect"
        /\ UNCHANGED <<s, alive, stack>>
    BY <1>1 DEF Connect
  <2>2. Promise!Begin
    BY <2>1 DEF Promise!Begin, Phase
  <2>3. QED
    BY <2>2 DEF Promise!Next
<1>2. CASE ReadSome \/ ReadNothing \/ WriteAll \/ WriteSome \/ Shutdown \/ Peer
           \/ UNCHANGED vars
  <2>1. UNCHANGED <<s, connection_state, alive, stack>>
    BY <1>2 DEF ReadSome, ReadNothing, WriteAll, WriteSome, PollFor,
       Shutdown, Peer, PeerAccepts, PeerRefuses, PeerSends, PeerShutsDown,
       PeerReads, PeerAborts, Network, vars
  <2>2. QED
    BY <2>1, SilentStep
<1>3. CASE Close \/ Destroy
  BY <1>3, CloseStep
<1>4. CASE Dispatch
  BY <1>4, DispatchStep
<1>5. CASE Return \/ Throw
  BY <1>5, ReturnStep
<1>6. QED
  BY <1>1, <1>2, <1>3, <1>4, <1>5 DEF Next, Application, Thread

\* Design A tells the events of a connection in the order of the abstract
\* specification: the outcome of connect() first and once, then news and the
\* end, on_disconnected only for a closed socket, nested only from close(),
\* and nothing to a deleted one.
THEOREM TellsInOrderHolds == Spec => TellsInOrder
<1>1. Init => Promise!Init
  <2> SUFFICES ASSUME Init PROVE Promise!Init
    OBVIOUS
  <2>1. <<>> \in Seq(Frames) /\ stack = <<>>
    BY EmptySeq DEF Init
  <2>2. RunsOf(stack) = <<>>
    BY <2>1, RunsOfFacts
  <2>3. QED
    BY <2>2, CallingFacts DEF Init, Promise!Init, Phase
<1>2. TypeOK /\ StackInv /\ SocketInv /\ TellInv /\ [Next]_vars
        => [Promise!Next]_(Promise!vars)
  BY NextTells
<1>3. QED
  BY <1>1, <1>2, TypeCorrect, StackInvHolds, SocketInvHolds, TellInvHolds, PTL
     DEF Spec, TellsInOrder, Promise!Spec

==============================================================================
