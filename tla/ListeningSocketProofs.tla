------------------------ MODULE ListeningSocketProofs ------------------------
(***************************************************************************)
(* Theorems about ListeningSocket, for either design, every backlog, every *)
(* bound on the polls and every application, and about the echo servers,   *)
(* which are two of its applications.                                      *)
(***************************************************************************)
EXTENDS EchoServer, SequenceLemmas

----------------------------------------------------------------------------
(* The operators the actions are built from                                *)

\* The endings are reported by an endpoint that has ended, the local close
\* alone.
LEMMA ReadyFacts ==
  ASSUME NEW e \in Endpoints(Backlog)
  PROVE  /\ Ready(e) \in SUBSET Events
         /\ "ABORT" \in Ready(e) => e.link = "reset"
         /\ "LOCAL_CLOSE" \in Ready(e) => e.link = "closed"
         /\ e.link = "closed" => Ready(e) = {"LOCAL_CLOSE"}
  BY DEF Ready, Endpoints, Links, Events, If

\* handle_events reports an ending when it was told of it, and the local
\* close alone if it was told of nothing else.
LEMMA RaisedFacts ==
  ASSUME NEW state, NEW ev
  PROVE  /\ Raised(state, ev) \in SUBSET Callbacks
         /\ "on_connection_reset" \in Raised(state, ev) => "ABORT" \in ev
         /\ "on_disconnected" \in Raised(state, ev) => "LOCAL_CLOSE" \in ev
         /\ Raised(state, {"LOCAL_CLOSE"}) = {"on_disconnected"}
  BY DEF Raised, Callbacks

LEMMA EndpointFacts ==
  /\ NewEndpoint \in Endpoints(Backlog) /\ NewEndpoint.link = "idle"
  /\ ClosedEndpoint \in Endpoints(Backlog) /\ ClosedEndpoint.link = "closed"
  /\ \A e \in Endpoints(Backlog) :
       /\ [e EXCEPT !.link = "listening"] \in Endpoints(Backlog)
       /\ [e EXCEPT !.link = "listening"].link = "listening"
       /\ ResetEndpoint(e) \in Endpoints(Backlog) /\ ResetEndpoint(e).link = "reset"
<1>1. NewEndpoint \in Endpoints(Backlog) /\ NewEndpoint.link = "idle"
  BY ListeningAssumption DEF NewEndpoint, Endpoints, Links
<1>2. ClosedEndpoint \in Endpoints(Backlog) /\ ClosedEndpoint.link = "closed"
  BY <1>1 DEF ClosedEndpoint, Endpoints, Links
<1>3. ASSUME NEW e \in Endpoints(Backlog)
      PROVE  /\ [e EXCEPT !.link = "listening"] \in Endpoints(Backlog)
             /\ [e EXCEPT !.link = "listening"].link = "listening"
             /\ ResetEndpoint(e) \in Endpoints(Backlog) /\ ResetEndpoint(e).link = "reset"
  BY ListeningAssumption DEF ResetEndpoint, Endpoints, Links
<1>4. QED
  BY <1>1, <1>2, <1>3

\* Among callbacks still to be made there is a first one.
LEMMA FirstFacts ==
  ASSUME NEW todo \in SUBSET Callbacks, todo # {}
  PROVE  First(todo) \in todo /\ \A d \in todo : Rank[First(todo)] <= Rank[d]
<1>1. \A c \in Callbacks : Rank[c] \in 0..2
  BY DEF Callbacks, Rank
<1>2. \E c \in todo : \A d \in todo : Rank[c] <= Rank[d]
  <2>1. CASE \E c \in todo : Rank[c] = 0
    BY <1>1, <2>1
  <2>2. CASE (\A c \in todo : Rank[c] # 0) /\ \E c \in todo : Rank[c] = 1
    BY <1>1, <2>2
  <2>3. CASE \A c \in todo : Rank[c] # 0 /\ Rank[c] # 1
    BY <1>1, <2>3
  <2>4. QED
    BY <2>1, <2>2, <2>3
<1>3. QED
  BY <1>2 DEF First

\* A completion neither makes nor loses a poll, and where there was something
\* that will make the program look there still is.  Closing the socket leaves
\* nothing pending.
LEMMA SettleFacts ==
  ASSUME TypeOK, NEW e \in Endpoints(Backlog), Settle(e)
  PROVE  /\ net' = e
         /\ pending' \in Nat /\ packets' \in Nat
         /\ pending' + packets' = pending + packets
         /\ out' \in SUBSET Events /\ out' \in {out, Ready(e)}
         /\ pending > 0 \/ (packets > 0 /\ out # {})
              => pending' > 0 \/ (packets' > 0 /\ out' # {})
         /\ e.link = "closed" =>
              pending' = 0 /\ (pending > 0 => packets' > 0 /\ out' = {"LOCAL_CLOSE"})
<1>1. /\ Ready(e) \in SUBSET Events
      /\ e.link = "closed" => Ready(e) = {"LOCAL_CLOSE"}
  BY ReadyFacts
<1>2. pending \in Nat /\ packets \in Nat /\ out \in SUBSET Events
  BY ListeningAssumption DEF TypeOK
<1>3. CASE pending = 0 \/ Ready(e) = {}
  BY <1>1, <1>2, <1>3 DEF Settle
<1>4. CASE ~(pending = 0 \/ Ready(e) = {})
  BY <1>1, <1>2, <1>4 DEF Settle
<1>5. QED
  BY <1>3, <1>4

\* In either design a poll adds one to the polls and packets there are, and
\* leaves something that will make the program look.
LEMMA PollFacts ==
  ASSUME TypeOK, NEW e \in Endpoints(Backlog), Poll(e)
  PROVE  /\ net' = e
         /\ pending' \in Nat /\ packets' \in Nat
         /\ pending' + packets' = pending + packets + 1
         /\ out' \in SUBSET Events /\ out' = Ready(e)
         /\ pending' > 0 \/ (packets' > 0 /\ out' # {})
<1>1. Ready(e) \in SUBSET Events
  BY ReadyFacts
<1>2. pending \in Nat /\ packets \in Nat /\ direct \in BOOLEAN
  BY ListeningAssumption DEF TypeOK
<1>3. CASE direct
  BY <1>1, <1>2, <1>3 DEF Poll
<1>4. CASE ~direct
  BY <1>1, <1>2, <1>4 DEF Poll
<1>5. QED
  BY <1>3, <1>4

\* The call in progress and the calls below it.
LEMMA TopFacts ==
  ASSUME TypeOK, stack # <<>>
  PROVE  /\ Len(stack) \in Nat \ {0} /\ Top \in Frames /\ Top = stack[Len(stack)]
         /\ Callers \in Seq(Frames) /\ Len(Callers) = Len(stack) - 1
         /\ \A i \in 1..Len(stack) - 1 : Callers[i] = stack[i]
<1>1. stack \in Seq(Frames)
  BY DEF TypeOK
<1>2. Len(stack) \in Nat \ {0} /\ \A i \in 1..Len(stack) : stack[i] \in Frames
  BY <1>1, PopFacts, ElementOfSeq
<1>3. Top \in Frames
  BY <1>2 DEF Top
<1>4. QED
  BY <1>1, <1>2, <1>3, PopFacts DEF Top, Callers

\* The next callback takes the place of the one before it.
LEMMA NextCallbackFacts ==
  ASSUME TypeOK, NextCallback
  PROVE  LET c == First(Top.todo) IN
         /\ c \in Top.todo /\ c \in Callbacks
         /\ stack # <<>> /\ Len(stack) \in Nat \ {0}
         /\ stack' \in Seq(Frames) /\ Len(stack') = Len(stack)
         /\ \A i \in 1..Len(stack) - 1 : stack'[i] = stack[i]
         /\ stack'[Len(stack)] = Frame(c, Top.todo \ {c})
<1> DEFINE c == First(Top.todo)
           frame == Frame(c, Top.todo \ {c})
<1>1. stack # <<>> /\ Top.todo # {} /\ stack' = Append(Callers, frame)
  BY DEF NextCallback
<1>2. /\ Len(stack) \in Nat \ {0} /\ Top \in Frames
      /\ Callers \in Seq(Frames) /\ Len(Callers) = Len(stack) - 1
      /\ \A i \in 1..Len(stack) - 1 : Callers[i] = stack[i]
  BY <1>1, TopFacts
<1>3. c \in Top.todo /\ c \in Callbacks /\ frame \in Frames
  <2>1. Top.todo \in SUBSET Callbacks
    BY <1>2 DEF Frames
  <2>2. c \in Top.todo
    BY <1>1, <2>1, FirstFacts
  <2>3. QED
    BY <2>1, <2>2 DEF Frame, Frames
<1> HIDE DEF frame
<1>4. /\ stack' \in Seq(Frames) /\ Len(stack') = Len(Callers) + 1
      /\ \A i \in 1..Len(Callers) : stack'[i] = Callers[i]
      /\ stack'[Len(Callers) + 1] = frame
  BY <1>1, <1>2, <1>3, AppendProperties
<1>5. Len(Callers) + 1 = Len(stack)
  BY <1>2
<1>6. QED
  BY <1>1, <1>2, <1>3, <1>4, <1>5 DEF frame

\* The call in progress ends.
LEMMA HandledFacts ==
  ASSUME TypeOK, Handled
  PROVE  /\ stack # <<>> /\ Top.todo = {} /\ Top = stack[Len(stack)]
         /\ Len(stack) \in Nat \ {0}
         /\ stack' \in Seq(Frames) /\ Len(stack') = Len(stack) - 1
         /\ \A i \in 1..Len(stack) - 1 : stack'[i] = stack[i]
         /\ events' = EventsAfter(Top.run)
<1>1. stack # <<>> /\ Top.todo = {} /\ stack' = Callers /\ events' = EventsAfter(Top.run)
  BY DEF Handled
<1>2. QED
  BY <1>1, TopFacts

\* A call of close() that has nothing to wait for makes one callback more.
LEMMA CloseFacts ==
  ASSUME TypeOK, Close
  PROVE  /\ s = "open" /\ s' = "invalid" /\ alive /\ alive'
         /\ events # {} => stack' = stack
         /\ events = {} =>
              /\ stack' \in Seq(Frames) /\ Len(stack') = Len(stack) + 1
              /\ \A i \in 1..Len(stack) : stack'[i] = stack[i]
              /\ stack'[Len(stack) + 1] = Frame("none", {"on_disconnected"})
<1>1. stack \in Seq(Frames) /\ Frame("none", {"on_disconnected"}) \in Frames
  BY DEF TypeOK, Frame, Frames, Callbacks
<1>2. QED
  BY <1>1, AppendProperties DEF Close, CanCall

\* A packet makes a call if the socket exists and its output says something.
LEMMA DispatchFacts ==
  ASSUME TypeOK, Dispatch
  PROVE  /\ stack = <<>> /\ packets > 0 /\ packets' = packets - 1
         /\ stack' \in Seq(Frames)
         /\ alive /\ out # {} =>
              Len(stack') = 1 /\ stack'[1] = Frame("none", Raised(connection_state, out))
         /\ ~(alive /\ out # {}) => stack' = <<>>
<1> DEFINE frame == Frame("none", Raised(connection_state, out))
<1>1. frame \in Frames
  BY RaisedFacts DEF Frame, Frames
<1>2. stack' = IF alive /\ out # {} THEN <<frame>> ELSE <<>>
  BY DEF Dispatch
<1> HIDE DEF frame
<1>3. stack' \in Seq(Frames)
  BY <1>1, <1>2, EmptySeq
<1>4. QED
  BY <1>2, <1>3 DEF Dispatch, frame

\* What the clients and the network do.
LEMMA NetworkFacts ==
  ASSUME TypeOK, ClientConnects \/ NetworkAborts
  PROVE  /\ net.link = "listening"
         /\ \E e \in Endpoints(Backlog) :
              e.link \in {"listening", "reset"} /\ Network(e)
<1>1. net \in Endpoints(Backlog)
  BY DEF TypeOK
<1>2. CASE ClientConnects
  <2>1. net.inbox + 1 \in 0..Backlog
    BY <1>1, <1>2, ListeningAssumption DEF ClientConnects, Endpoints
  <2>2. [net EXCEPT !.inbox = net.inbox + 1] \in Endpoints(Backlog)
        /\ [net EXCEPT !.inbox = net.inbox + 1].link = net.link
    BY <1>1, <2>1 DEF Endpoints
  <2>3. QED
    BY <1>2, <2>2 DEF ClientConnects
<1>3. CASE NetworkAborts
  BY <1>1, <1>3, EndpointFacts DEF NetworkAborts
<1>4. QED
  BY <1>2, <1>3

----------------------------------------------------------------------------
(* Type correctness: the bound on the polls is kept by what follows them   *)

\* While the socket is open there is one call at most, and the poll it will
\* end with is counted in advance; a second call is the one close() makes,
\* and a closed socket has no poll pending and makes none.
SizeInv ==
  /\ Len(stack) \in 0..2
  /\ s = "open" => Len(stack) \in 0..1 /\ pending + packets + Len(stack) <= MaxPackets
  /\ s = "invalid" => pending = 0

Shape == TypeOK /\ SizeInv

\* The arithmetic of the bound.
LEMMA SumBounds ==
  \A a, b, c, d, m, n \in Nat :
     /\ a + b = c + d + 1 /\ c + d + n < m => a + b + n <= m
     /\ a + b = c + d + 1 /\ c + d + 1 <= m => a + b + 0 <= m
     /\ a + b = c + d /\ c + d + n <= m => a + b + n <= m
     /\ a + b + n <= m => a \in 0..m /\ b \in 0..m
     /\ a + b = c + d /\ c = 0 /\ d <= m => a \in 0..m /\ b \in 0..m
  OBVIOUS

LEMMA InitShape == Init => Shape
<1> SUFFICES ASSUME Init PROVE Shape
  OBVIOUS
<1>1. <<>> \in Seq(Frames) /\ Len(<<>>) = 0
  BY EmptySeq
<1>2. TypeOK
  <2>1. 0 \in 0..MaxPackets
    BY ListeningAssumption
  <2>2. events \in {{}, Events} /\ out \in SUBSET Events /\ stack \in Seq(Frames)
    BY <1>1 DEF Init
  <2>3. net \in Endpoints(Backlog)
    BY EndpointFacts DEF Init
  <2>4. direct \in BOOLEAN /\ alive \in BOOLEAN /\ raced \in BOOLEAN /\ threw \in BOOLEAN
        /\ interrupted \in BOOLEAN
    BY DEF Init
  <2>5. /\ s \in {"open", "invalid"} /\ connection_state \in ConnectionStates
        /\ pending \in 0..MaxPackets /\ packets \in 0..MaxPackets
        /\ disconnects \in 0..2
    BY <2>1 DEF Init, ConnectionStates
  <2>6. QED
    BY <2>2, <2>3, <2>4, <2>5 DEF TypeOK
<1>3. SizeInv
  <2>1. stack = <<>> /\ pending = 0 /\ packets = 0 /\ s = "open"
    BY DEF Init
  <2>2. Len(stack) = 0 /\ 0 <= MaxPackets
    BY <1>1, <2>1, ListeningAssumption
  <2>3. QED
    BY <2>1, <2>2 DEF SizeInv
<1>4. QED
  BY <1>2, <1>3 DEF Shape

LEMMA NextShape ==
  ASSUME Shape, [Next]_vars
  PROVE  Shape'
<1> USE DEF socket, kernel, history
<1>0. /\ TypeOK /\ SizeInv
      /\ net \in Endpoints(Backlog) /\ out \in SUBSET Events
      /\ pending \in Nat /\ packets \in Nat /\ Len(stack) \in Nat
      /\ stack \in Seq(Frames) /\ MaxPackets \in Nat
      /\ pending <= MaxPackets /\ packets <= MaxPackets
  BY ListeningAssumption, LenProperties DEF Shape, TypeOK
<1> DEFINE n == Len(stack)
<1>a. /\ pending \in Nat /\ packets \in Nat /\ n \in Nat /\ MaxPackets \in Nat
      /\ pending <= MaxPackets /\ packets <= MaxPackets
      /\ n \in 0..2
      /\ s = "open" => n \in 0..1 /\ pending + packets + n <= MaxPackets
      /\ s = "invalid" => pending = 0
      /\ s \in {"open", "invalid"}
  BY <1>0 DEF SizeInv, TypeOK
<1> HIDE DEF n
<1>1. CASE Bind
  BY <1>0, <1>1 DEF Bind, Shape, TypeOK, SizeInv, ConnectionStates
<1>2. CASE Listen
  <2>1. PICK e \in Endpoints(Backlog) : Poll(e)
    BY <1>0, <1>2, EndpointFacts DEF Listen
  <2>2. /\ net' = e /\ out' \in SUBSET Events
        /\ pending' \in Nat /\ packets' \in Nat
        /\ pending' + packets' = pending + packets + 1
    BY <1>0, <2>1, PollFacts
  <2>3. /\ s = "open" /\ UNCHANGED <<s, direct, alive, stack, history>>
        /\ connection_state' = "listening" /\ events' = Events
        /\ pending + packets + Len(stack) < MaxPackets
    BY <1>2 DEF Listen
  <2>4. pending' + packets' + n <= MaxPackets
    <3>1. pending + packets + n < MaxPackets
      BY <2>3 DEF n
    <3>2. QED
      BY <1>a, <2>2, <3>1, SumBounds
  <2>5. pending' \in 0..MaxPackets /\ packets' \in 0..MaxPackets
    BY <1>a, <2>2, <2>4, SumBounds
  <2>6. TypeOK'
    BY <1>0, <2>2, <2>3, <2>5 DEF TypeOK, ConnectionStates
  <2>7. SizeInv'
    BY <1>0, <2>3, <2>4 DEF SizeInv, n
  <2>8. QED
    BY <2>6, <2>7 DEF Shape
<1>3. CASE Accept
  <2>1. net.inbox - 1 \in 0..Backlog
    BY <1>0, <1>3, ListeningAssumption DEF Accept, Endpoints
  <2>2. net' \in Endpoints(Backlog)
    BY <1>0, <1>3, <2>1 DEF Accept, Endpoints
  <2>3. QED
    BY <1>0, <1>3, <2>2 DEF Accept, Shape, TypeOK, SizeInv
<1>4. CASE Close
  <2>1. Settle(ClosedEndpoint) /\ UNCHANGED <<connection_state, events, direct, alive, disconnects, threw, interrupted>>
        /\ raced' \in BOOLEAN
    BY <1>4 DEF Close
  <2>2. /\ net' \in Endpoints(Backlog) /\ out' \in SUBSET Events
        /\ pending' = 0 /\ packets' \in Nat
        /\ pending' + packets' = pending + packets
    BY <1>0, <2>1, SettleFacts, EndpointFacts
  <2>3. /\ s = "open" /\ s' = "invalid" /\ stack' \in Seq(Frames)
        /\ Len(stack') \in {n, n + 1}
    BY <1>0, <1>4, CloseFacts DEF n
  <2>4. n \in 0..1 /\ pending + packets + n <= MaxPackets
    BY <1>a, <2>3
  <2>5. /\ Len(stack') \in 0..2
        /\ packets' \in 0..MaxPackets /\ pending' \in 0..MaxPackets
    <3>1. Len(stack') \in 0..2
      <4>1. {n, n + 1} \subseteq 0..2
        BY <2>4
      <4>2. QED
        BY <2>3, <4>1
    <3>2. pending' + packets' + n <= MaxPackets
      BY <1>a, <2>2, <2>4, SumBounds
    <3>3. QED
      BY <1>a, <2>2, <3>1, <3>2, SumBounds
  <2>6. TypeOK'
    BY <1>0, <2>1, <2>2, <2>3, <2>5 DEF TypeOK
  <2>7. QED
    BY <2>2, <2>3, <2>5, <2>6 DEF Shape, SizeInv
<1>5. CASE Destroy
  <2>1. Settle(ClosedEndpoint)
        /\ UNCHANGED <<direct, connection_state, events, stack, history>>
        /\ s' = "invalid" /\ alive' = FALSE
    BY <1>5 DEF Destroy
  <2>2. /\ net' \in Endpoints(Backlog) /\ out' \in SUBSET Events
        /\ pending' = 0 /\ packets' \in Nat
        /\ pending' + packets' = pending + packets
    BY <1>0, <2>1, SettleFacts, EndpointFacts
  <2>3. packets' \in 0..MaxPackets
    <3>1. CASE s = "open"
      <4>1. pending' + packets' + n <= MaxPackets
        BY <1>a, <2>2, <3>1, SumBounds
      <4>2. QED
        BY <1>a, <2>2, <4>1, SumBounds
    <3>2. CASE s = "invalid"
      BY <1>a, <2>2, <3>2, SumBounds
    <3>3. QED
      BY <1>a, <3>1, <3>2
  <2>4. TypeOK'
    <3>1. UNCHANGED <<disconnects, raced, threw, interrupted>> /\ pending' \in 0..MaxPackets
      BY <1>a, <2>1, <2>2
    <3>2. QED
      BY <1>0, <2>1, <2>2, <2>3, <3>1 DEF TypeOK
  <2>5. QED
    BY <1>0, <2>1, <2>2, <2>4 DEF Shape, SizeInv
<1>6. CASE Dispatch
  <2>1. /\ stack = <<>> /\ packets > 0 /\ packets' = packets - 1
        /\ stack' \in Seq(Frames) /\ (Len(stack') = 1 \/ stack' = <<>>)
    BY <1>0, <1>6, DispatchFacts
  <2>2. Len(stack) = 0 /\ Len(stack') \in 0..1
    BY <2>1
  <2>3. UNCHANGED <<socket, net, pending, out, direct, alive, history>>
    BY <1>6 DEF Dispatch
  <2>4. packets' \in 0..MaxPackets
    BY <1>0, <2>1
  <2>5. TypeOK'
    BY <1>0, <2>1, <2>3, <2>4 DEF TypeOK
  <2>6. SizeInv'
    <3>1. Len(stack') \in 0..1 /\ n = 0
      BY <2>2 DEF n
    <3>2. s = "open" => pending + packets' + Len(stack') <= MaxPackets
      <4>1. packets' \in Nat
        BY <1>a, <2>1
      <4>2. QED
        BY <1>a, <2>1, <3>1, <4>1
    <3>3. QED
      BY <1>0, <2>2, <2>3, <3>2 DEF SizeInv
  <2>7. QED
    BY <2>5, <2>6 DEF Shape
<1>7. CASE NextCallback
  <2>1. stack' \in Seq(Frames) /\ Len(stack') = Len(stack)
    BY <1>0, <1>7, NextCallbackFacts
  <2>2. /\ UNCHANGED <<s, kernel, direct, alive, raced, threw, interrupted>>
        /\ connection_state' \in {connection_state, "disconnected"}
        /\ events' = EventsAfter(Top.run)
        /\ disconnects' = disconnects
             + IF First(Top.todo) = "on_disconnected" /\ disconnects < 2 THEN 1 ELSE 0
    BY <1>7 DEF NextCallback
  <2>3. events' \in {{}, events} /\ disconnects' \in 0..2
    BY <1>0, <2>2 DEF EventsAfter, TypeOK
  <2>4. TypeOK'
    BY <1>0, <2>1, <2>2, <2>3 DEF TypeOK, ConnectionStates
  <2>5. QED
    BY <1>0, <2>1, <2>2, <2>4 DEF Shape, SizeInv
<1>8. CASE Handled
  <2>1. /\ stack # <<>> /\ stack' \in Seq(Frames) /\ Len(stack') = Len(stack) - 1
        /\ Len(stack) \in Nat \ {0}
        /\ events' = EventsAfter(Top.run)
    BY <1>0, <1>8, HandledFacts
  <2>2. /\ UNCHANGED <<s, connection_state, direct, alive, disconnects, raced, interrupted>>
        /\ threw' \in BOOLEAN
        /\ \/ s = "open" /\ Poll(net)
           \/ UNCHANGED kernel
    BY <1>0, <1>8 DEF Handled, TypeOK
  <2>3. events' \in {{}, events}
    BY <2>1 DEF EventsAfter
  <2>4. Len(stack') \in 0..2
    BY <1>0, <2>1 DEF SizeInv
  <2>5. CASE s = "open" /\ Poll(net)
    <3>1. /\ net' = net /\ out' \in SUBSET Events
          /\ pending' \in Nat /\ packets' \in Nat
          /\ pending' + packets' = pending + packets + 1
      BY <1>0, <2>5, PollFacts
    <3>2. pending + packets + n <= MaxPackets /\ n \in 0..1
      BY <1>a, <2>5
    <3>3. /\ pending' + packets' + Len(stack') <= MaxPackets
          /\ Len(stack') \in 0..1
      <4>0. n = 1
        BY <2>1, <3>2 DEF n
      <4>1. Len(stack') = 0
        <5>1. Len(stack') = n - 1
          BY <2>1 DEF n
        <5>2. QED
          BY <4>0, <5>1
      <4>2. pending + packets + 1 <= MaxPackets
        BY <3>2, <4>0
      <4>3. pending' + packets' + 0 <= MaxPackets
        BY <1>a, <3>1, <4>2, SumBounds
      <4>4. QED
        BY <4>1, <4>3
    <3>4. pending' \in 0..MaxPackets /\ packets' \in 0..MaxPackets
      <4>0. n = 1
        BY <2>1, <3>2 DEF n
      <4>1. Len(stack') = 0
        <5>1. Len(stack') = n - 1
          BY <2>1 DEF n
        <5>2. QED
          BY <4>0, <5>1
      <4>2. pending' + packets' + 0 <= MaxPackets
        BY <3>3, <4>1
      <4>3. QED
        BY <1>a, <3>1, <4>2, SumBounds
    <3>5. TypeOK'
      BY <1>0, <2>1, <2>2, <2>3, <3>1, <3>4 DEF TypeOK
    <3>6. QED
      BY <2>2, <2>4, <2>5, <3>3, <3>5 DEF Shape, SizeInv
  <2>6. CASE UNCHANGED kernel
    <3>1. TypeOK'
      BY <1>0, <2>1, <2>2, <2>3, <2>6 DEF TypeOK
    <3>2. SizeInv'
      <4>0. Len(stack') = n - 1 /\ n # 0
        BY <2>1 DEF n
      <4>1. s = "open" => Len(stack') \in 0..1 /\ pending + packets + Len(stack') <= MaxPackets
        BY <1>a, <4>0
      <4>2. QED
        BY <1>0, <2>2, <2>4, <2>6, <4>1 DEF SizeInv
    <3>3. QED
      BY <3>1, <3>2 DEF Shape
  <2>7. QED
    BY <2>2, <2>5, <2>6
<1>9. CASE ClientConnects \/ NetworkAborts
  <2>1. PICK e \in Endpoints(Backlog) : Network(e)
    BY <1>0, <1>9, NetworkFacts
  <2>2. Settle(e) /\ UNCHANGED <<socket, direct, alive, stack, history>>
    BY <2>1 DEF Network
  <2>3. /\ net' \in Endpoints(Backlog) /\ out' \in SUBSET Events
        /\ pending' \in Nat /\ packets' \in Nat
        /\ pending' + packets' = pending + packets
    BY <1>0, <2>2, SettleFacts
  <2>4. s = "invalid" => pending' = 0
    BY <1>0, <2>2 DEF SizeInv, Settle
  <2>5. s = "open" => pending' + packets' + n <= MaxPackets
    BY <1>a, <2>3, SumBounds
  <2>6. pending' \in 0..MaxPackets /\ packets' \in 0..MaxPackets
    <3>1. CASE s = "open"
      BY <1>a, <2>3, <2>5, <3>1, SumBounds
    <3>2. CASE s = "invalid"
      BY <1>a, <2>3, <2>4, <3>2, SumBounds
    <3>3. QED
      BY <1>a, <3>1, <3>2
  <2>7. TypeOK'
    BY <1>0, <2>2, <2>3, <2>6 DEF TypeOK
  <2>8. QED
    BY <1>0, <2>2, <2>4, <2>5, <2>7 DEF Shape, SizeInv, n
<1>10. CASE UNCHANGED vars
  BY <1>0, <1>10 DEF vars, Shape, TypeOK, SizeInv
<1>11. CASE Throw
  <2>1. /\ stack' = <<>> /\ interrupted' = TRUE
        /\ UNCHANGED <<socket, kernel, direct, alive, disconnects, raced, threw>>
    BY <1>11 DEF Throw
  <2>2. stack' \in Seq(Frames) /\ Len(stack') = 0
    BY <2>1, EmptySeq
  <2>3. TypeOK'
    BY <1>0, <2>1, <2>2 DEF TypeOK
  <2>4. s = "open" => pending + packets + 0 <= MaxPackets
    BY <1>a
  <2>5. QED
    BY <1>0, <2>1, <2>2, <2>3, <2>4 DEF Shape, SizeInv
<1>12. QED
  BY <1>1, <1>2, <1>3, <1>4, <1>5, <1>6, <1>7, <1>8, <1>9, <1>10, <1>11 DEF Next

LEMMA ShapeHolds == Spec => []Shape
  BY InitShape, NextShape, PTL DEF Spec

\* Every state of the listening socket has the shape of its variables, and
\* the polls stay within their bound although only listen() checks it.
THEOREM ListenerTypeCorrect == Spec => []TypeOK
<1>1. Shape => TypeOK
  BY DEF Shape
<1>2. QED
  BY <1>1, ShapeHolds, PTL

----------------------------------------------------------------------------
(* How a socket ends                                                       *)

Ended == net.link \in {"reset", "closed"}

\* An ending that was reported, or is about to be, has happened, and a
\* socket that has ended never listens again.
EndInv ==
  /\ net.link = "closed" <=> s = "invalid"
  /\ "ABORT" \in out => Ended
  /\ "LOCAL_CLOSE" \in out => s = "invalid"
  /\ connection_state = "disconnected" => Ended
  /\ disconnects > 0 => s = "invalid"
  /\ \A i \in 1..Len(stack) :
       /\ "on_connection_reset" \in stack[i].todo => Ended
       /\ "on_disconnected" \in stack[i].todo => s = "invalid"
       /\ stack[i].run \in {"on_connection_reset", "on_disconnected"}
            => connection_state = "disconnected"

\* The actions that leave the calls in progress as they are.
LEMMA StackUnchanged ==
  ASSUME Bind \/ Listen \/ Accept \/ Destroy \/ ClientConnects \/ NetworkAborts
         \/ UNCHANGED vars
  PROVE  UNCHANGED <<stack, history>>
  BY DEF Bind, Listen, Accept, Destroy, ClientConnects, NetworkAborts, Network, vars

LEMMA NextEndInv ==
  ASSUME Shape, EndInv, [Next]_vars
  PROVE  EndInv'
<1> USE DEF socket, kernel, history
<1>0. /\ TypeOK
      /\ net \in Endpoints(Backlog) /\ out \in SUBSET Events
      /\ s \in {"open", "invalid"}
      /\ stack \in Seq(Frames) /\ Len(stack) \in Nat
  BY LenProperties DEF Shape, TypeOK
<1>1. CASE Bind
  BY <1>0, <1>1 DEF Bind, EndInv, Ended
<1>2. CASE Listen
  <2>1. /\ UNCHANGED <<s, stack, history>> /\ s = "open"
        /\ connection_state' = "listening"
        /\ net.link \in {"idle", "listening"}
        /\ Poll([net EXCEPT !.link = "listening"])
    BY <1>2 DEF Listen
  <2>2. PICK e \in Endpoints(Backlog) : e.link = "listening" /\ Poll(e)
    BY <1>0, <2>1, EndpointFacts
  <2>3. net' = e /\ out' = Ready(e)
    BY <1>0, <2>2, PollFacts
  <2>4. "ABORT" \notin out' /\ "LOCAL_CLOSE" \notin out' /\ net'.link = "listening"
    BY <2>2, <2>3, ReadyFacts
  <2>5. \A i \in 1..Len(stack) :
          /\ "on_connection_reset" \notin stack[i].todo
          /\ "on_disconnected" \notin stack[i].todo
          /\ stack[i].run \notin {"on_connection_reset", "on_disconnected"}
    BY <2>1 DEF EndInv, Ended
  <2>6. disconnects > 0 => s = "invalid"
    BY DEF EndInv
  <2>7. QED
    BY <2>1, <2>4, <2>5, <2>6 DEF EndInv, Ended
<1>3. CASE Accept
  <2>1. net'.link = net.link
    BY <1>0, <1>3 DEF Accept, Endpoints
  <2>2. QED
    BY <1>0, <1>3, <2>1 DEF Accept, EndInv, Ended
<1>4. CASE Close
  <2>1. Settle(ClosedEndpoint) /\ UNCHANGED <<connection_state, disconnects>>
    BY <1>4 DEF Close
  <2>2. net'.link = "closed" /\ s' = "invalid"
    BY <1>0, <1>4, <2>1, SettleFacts, EndpointFacts, CloseFacts
  <2>3. \A i \in 1..Len(stack') :
          stack'[i].run \in {"on_connection_reset", "on_disconnected"}
            => connection_state = "disconnected"
    <3>1. CASE events # {}
      BY <1>0, <1>4, <3>1, CloseFacts DEF EndInv
    <3>2. CASE events = {}
      <4>1. /\ Len(stack') = Len(stack) + 1
            /\ \A i \in 1..Len(stack) : stack'[i] = stack[i]
            /\ stack'[Len(stack) + 1].run = "none"
        BY <1>0, <1>4, <3>2, CloseFacts DEF Frame
      <4>2. \A i \in 1..Len(stack') : i \in 1..Len(stack) \/ i = Len(stack) + 1
        BY <1>0, <4>1
      <4>3. QED
        BY <4>1, <4>2 DEF EndInv
    <3>3. QED
      BY <3>1, <3>2
  <2>4. QED
    BY <2>1, <2>2, <2>3 DEF EndInv, Ended
<1>5. CASE Destroy
  <2>1. /\ Settle(ClosedEndpoint) /\ s' = "invalid" /\ stack = <<>>
        /\ UNCHANGED <<connection_state, stack, history>>
    BY <1>5 DEF Destroy
  <2>2. net'.link = "closed"
    BY <1>0, <2>1, SettleFacts, EndpointFacts
  <2>3. QED
    BY <2>1, <2>2 DEF EndInv, Ended
<1>6. CASE Dispatch
  <2>1. UNCHANGED <<socket, net, out, history>>
    BY <1>6 DEF Dispatch
  <2>2. CASE alive /\ out # {}
    <3>1. /\ Len(stack') = 1
          /\ stack'[1].run = "none" /\ stack'[1].todo = Raised(connection_state, out)
      BY <1>0, <1>6, <2>2, DispatchFacts DEF Frame
    <3>2. /\ "on_connection_reset" \in stack'[1].todo => Ended
          /\ "on_disconnected" \in stack'[1].todo => s = "invalid"
      BY <3>1, RaisedFacts DEF EndInv
    <3>3. \A i \in 1..Len(stack') : i = 1
      BY <3>1
    <3>4. QED
      BY <2>1, <3>1, <3>2, <3>3 DEF EndInv, Ended
  <2>3. CASE ~(alive /\ out # {})
    <3>1. stack' = <<>> /\ Len(stack') = 0
      BY <1>0, <1>6, <2>3, DispatchFacts
    <3>2. QED
      BY <2>1, <3>1 DEF EndInv, Ended
  <2>4. QED
    BY <2>2, <2>3
<1>7. CASE NextCallback
  <2> DEFINE c == First(Top.todo)
  <2>1. /\ c \in Top.todo /\ c \in Callbacks
        /\ Len(stack) \in Nat \ {0} /\ Len(stack') = Len(stack)
        /\ \A i \in 1..Len(stack) - 1 : stack'[i] = stack[i]
        /\ stack'[Len(stack)].run = c /\ stack'[Len(stack)].todo = Top.todo \ {c}
    BY <1>0, <1>7, NextCallbackFacts DEF Frame
  <2>2. /\ UNCHANGED <<s, kernel>>
        /\ connection_state' = IF c = "on_incoming_connections" THEN connection_state
                               ELSE "disconnected"
        /\ disconnects' = disconnects
             + IF c = "on_disconnected" /\ disconnects < 2 THEN 1 ELSE 0
    BY <1>7 DEF NextCallback
  <2> HIDE DEF c
  <2>3. /\ "on_connection_reset" \in Top.todo => Ended
        /\ "on_disconnected" \in Top.todo => s = "invalid" /\ Ended
    BY <2>1 DEF EndInv, Top, Ended
  <2>4. connection_state' = "disconnected" => Ended
    BY <2>1, <2>2, <2>3 DEF EndInv, Callbacks
  <2>5. disconnects' > 0 => s = "invalid"
    <3>1. CASE c = "on_disconnected"
      BY <2>1, <2>3, <3>1
    <3>2. CASE c # "on_disconnected"
      BY <1>0, <2>2, <3>2 DEF EndInv, TypeOK
    <3>3. QED
      BY <3>1, <3>2
  <2>6. connection_state = "disconnected" => connection_state' = "disconnected"
    BY <2>2
  <2>7. ASSUME NEW i \in 1..Len(stack')
        PROVE  /\ "on_connection_reset" \in stack'[i].todo => Ended
               /\ "on_disconnected" \in stack'[i].todo => s = "invalid"
               /\ stack'[i].run \in {"on_connection_reset", "on_disconnected"}
                    => connection_state' = "disconnected"
    <3>1. CASE i = Len(stack)
      BY <2>1, <2>2, <2>3, <3>1
    <3>2. CASE i # Len(stack)
      <4>1. i \in 1..Len(stack) - 1 /\ i \in 1..Len(stack)
        BY <2>1, <3>2
      <4>2. stack'[i] = stack[i]
        BY <2>1, <4>1
      <4>3. QED
        BY <2>6, <4>1, <4>2 DEF EndInv
    <3>3. QED
      BY <3>1, <3>2
  <2>8. QED
    BY <2>2, <2>4, <2>5, <2>7 DEF EndInv, Ended
<1>8. CASE Handled
  <2>1. /\ Len(stack) \in Nat \ {0} /\ Len(stack') = Len(stack) - 1
        /\ \A i \in 1..Len(stack) - 1 : stack'[i] = stack[i]
    BY <1>0, <1>8, HandledFacts
  <2>2. /\ UNCHANGED <<s, connection_state, disconnects>>
        /\ Poll(net) \/ UNCHANGED kernel
    BY <1>8 DEF Handled
  <2>3. net' = net /\ out' \in {out, Ready(net)}
    BY <1>0, <2>2, PollFacts
  <2>4. /\ "ABORT" \in out' => Ended
        /\ "LOCAL_CLOSE" \in out' => s = "invalid"
    BY <1>0, <2>3, ReadyFacts DEF EndInv, Ended
  <2>5. \A i \in 1..Len(stack') : i \in 1..Len(stack) /\ stack'[i] = stack[i]
    BY <2>1
  <2>6. QED
    BY <2>2, <2>3, <2>4, <2>5 DEF EndInv, Ended
<1>9. CASE ClientConnects \/ NetworkAborts
  <2>1. PICK e \in Endpoints(Backlog) :
          e.link \in {"listening", "reset"} /\ net.link = "listening" /\ Network(e)
    BY <1>0, <1>9, NetworkFacts
  <2>2. Settle(e) /\ UNCHANGED <<socket, direct, alive, stack, history>>
    BY <2>1 DEF Network
  <2>3. net' = e /\ out' \in {out, Ready(e)}
    BY <1>0, <2>2, SettleFacts
  <2>4. s = "open" /\ ~Ended
    BY <1>0, <2>1 DEF EndInv, Ended
  <2>5. "ABORT" \notin out /\ "LOCAL_CLOSE" \notin out
    BY <2>4 DEF EndInv
  <2>6. /\ "ABORT" \in out' => net'.link = "reset"
        /\ "LOCAL_CLOSE" \notin out'
    BY <2>1, <2>3, <2>5, ReadyFacts
  <2>7. net'.link # "closed"
    BY <2>1, <2>3
  <2>8. connection_state # "disconnected" /\ ~(disconnects > 0)
    BY <2>4 DEF EndInv
  <2>9. \A i \in 1..Len(stack) :
          /\ "on_connection_reset" \notin stack[i].todo
          /\ "on_disconnected" \notin stack[i].todo
          /\ stack[i].run \notin {"on_connection_reset", "on_disconnected"}
    BY <2>4, <2>8 DEF EndInv
  <2>10. QED
    BY <2>2, <2>4, <2>6, <2>7, <2>8, <2>9 DEF EndInv, Ended
<1>10. CASE UNCHANGED vars
  BY <1>10 DEF vars, EndInv, Ended
<1>11. CASE Throw
  <2>1. stack' = <<>> /\ Len(<<>>) = 0
    BY <1>11 DEF Throw
  <2>2. UNCHANGED <<socket, kernel, disconnects>>
    BY <1>11 DEF Throw
  <2>3. QED
    BY <2>1, <2>2 DEF EndInv, Ended
<1>12. QED
  BY <1>1, <1>2, <1>3, <1>4, <1>5, <1>6, <1>7, <1>8, <1>9, <1>10, <1>11 DEF Next

LEMMA EndInvHolds == Spec => []EndInv
<1>1. Init => EndInv
  <2> SUFFICES ASSUME Init PROVE EndInv
    OBVIOUS
  <2>1. /\ stack = <<>> /\ Len(<<>>) = 0 /\ net.link = "idle" /\ s = "open"
        /\ out = {} /\ connection_state = "created" /\ disconnects = 0
    BY EmptySeq, EndpointFacts DEF Init
  <2>2. QED
    BY <2>1 DEF EndInv
<1>2. QED
  BY <1>1, NextEndInv, ShapeHolds, PTL DEF Spec

----------------------------------------------------------------------------
(* A listening socket keeps looking                                        *)

\* A socket that listens still wants what it asked for when it began, so
\* the poll at the end of each call is made.
ListenInv ==
  /\ connection_state = "listening" /\ s = "open" => events = Events
  /\ KeepsListening

LEMMA NextListenInv ==
  ASSUME Shape, EndInv, ListenInv, [Next]_vars
  PROVE  ListenInv'
<1> USE DEF socket, kernel, history
<1> DEFINE Armed == pending > 0 \/ (packets > 0 /\ out # {})
<1>0. /\ TypeOK
      /\ net \in Endpoints(Backlog) /\ out \in SUBSET Events
      /\ pending \in Nat /\ packets \in Nat
      /\ stack \in Seq(Frames) /\ Len(stack) \in Nat
  BY ListeningAssumption, LenProperties DEF Shape, TypeOK
<1>a. /\ connection_state = "listening" /\ s = "open" => events = Events
      /\ ~interrupted /\ alive /\ s = "open" /\ connection_state = "listening" /\ stack = <<>>
           => Armed
  BY DEF ListenInv, KeepsListening
<1>b. ASSUME connection_state' = "listening" /\ s' = "open" => events' = Events,
             ~interrupted' /\ alive' /\ s' = "open" /\ connection_state' = "listening"
               /\ stack' = <<>> => Armed'
      PROVE  ListenInv'
  BY <1>b DEF ListenInv, KeepsListening
<1>1. CASE Bind
  BY <1>1, <1>b DEF Bind
<1>2. CASE Listen
  <2>1. PICK e \in Endpoints(Backlog) : Poll(e)
    BY <1>0, <1>2, EndpointFacts DEF Listen
  <2>2. Armed'
    BY <1>0, <2>1, PollFacts
  <2>3. events' = Events
    BY <1>2 DEF Listen
  <2>4. QED
    BY <1>b, <2>2, <2>3
<1>3. CASE Accept
  BY <1>3, <1>a, <1>b DEF Accept
<1>4. CASE Close \/ Destroy
  BY <1>4, <1>b DEF Close, Destroy
<1>5. CASE Dispatch
  <2>1. /\ stack = <<>>
        /\ alive /\ out # {} => Len(stack') = 1
        /\ UNCHANGED <<socket, pending, out, alive, interrupted>>
    BY <1>0, <1>5, DispatchFacts DEF Dispatch
  <2>2. alive' /\ stack' = <<>> => out = {}
    <3>1. Len(<<>>) # 1
      OBVIOUS
    <3>2. QED
      BY <2>1, <3>1
  <2>3. QED
    BY <1>a, <1>b, <2>1, <2>2
<1>6. CASE NextCallback
  <2>1. /\ Len(stack) \in Nat \ {0} /\ Len(stack') = Len(stack)
        /\ First(Top.todo) \in Callbacks
    BY <1>0, <1>6, NextCallbackFacts
  <2>2. stack' # <<>>
    <3>1. Len(<<>>) = 0
      OBVIOUS
    <3>2. QED
      BY <2>1, <3>1
  <2>3. /\ UNCHANGED <<s, alive>> /\ events' = EventsAfter(Top.run)
        /\ connection_state' = "listening" => connection_state = "listening"
    BY <1>6 DEF NextCallback
  <2>4. connection_state = "listening"
          => Top.run \notin {"on_connection_reset", "on_disconnected"}
    <3>1. Len(stack) \in 1..Len(stack) /\ Top = stack[Len(stack)]
      BY <2>1 DEF Top
    <3>2. QED
      BY <3>1 DEF EndInv
  <2>5. connection_state' = "listening" /\ s' = "open" => events' = Events
    BY <1>a, <2>3, <2>4 DEF EventsAfter
  <2>6. QED
    BY <1>b, <2>2, <2>5
<1>7. CASE Handled
  <2>1. /\ Len(stack) \in Nat \ {0} /\ Top = stack[Len(stack)]
        /\ events' = EventsAfter(Top.run)
    BY <1>0, <1>7, HandledFacts
  <2>2. /\ UNCHANGED <<s, connection_state, alive>>
        /\ events' # {} /\ s = "open" => Poll(net)
    BY <1>7 DEF Handled
  <2>3. connection_state = "listening"
          => Top.run \notin {"on_connection_reset", "on_disconnected"}
    <3>1. Len(stack) \in 1..Len(stack)
      BY <2>1
    <3>2. QED
      BY <2>1, <3>1 DEF EndInv
  <2>4. connection_state = "listening" /\ s = "open" => events' = Events
    BY <1>a, <2>1, <2>3 DEF EventsAfter
  <2>5. connection_state = "listening" /\ s = "open" => Armed'
    <3>1. Events # {}
      BY DEF Events
    <3>2. connection_state = "listening" /\ s = "open" => Poll(net)
      BY <2>2, <2>4, <3>1
    <3>3. QED
      BY <1>0, <3>2, PollFacts
  <2>6. QED
    BY <1>b, <2>2, <2>4, <2>5
<1>8. CASE ClientConnects \/ NetworkAborts
  <2>1. PICK e \in Endpoints(Backlog) : Network(e)
    BY <1>0, <1>8, NetworkFacts
  <2>2. Settle(e) /\ UNCHANGED <<socket, direct, alive, stack, history>>
    BY <2>1 DEF Network
  <2>3. Armed => Armed'
    BY <1>0, <2>2, SettleFacts
  <2>4. QED
    BY <1>a, <1>b, <2>2, <2>3
<1>9. CASE UNCHANGED vars
  BY <1>9, <1>a, <1>b DEF vars
<1>10. CASE Throw
  BY <1>10, <1>a, <1>b DEF Throw
<1>11. QED
  BY <1>1, <1>2, <1>3, <1>4, <1>5, <1>6, <1>7, <1>8, <1>9, <1>10 DEF Next

\* Outside its callbacks a listening socket has a poll pending, or a packet
\* queued whose output will make it look, in either design and whatever the
\* application does in its callbacks but throw
\* (tcp_listening_socket.cpp:186-189).
THEOREM ListenerKeepsListening == Spec => []KeepsListening
<1>1. Init => ListenInv
  BY DEF Init, ListenInv, KeepsListening
<1>2. ListenInv => KeepsListening
  BY DEF ListenInv
<1>3. QED
  BY <1>1, <1>2, NextListenInv, ShapeHolds, EndInvHolds, PTL DEF Spec

----------------------------------------------------------------------------
(* close() is reported, unless it was raced                                *)

\* A call that does nothing but report the close.
Reporting ==
  {Frame("none", {"on_disconnected"}), Frame("on_disconnected", {})}

\* A closed socket that was not raced wants nothing more, or all there is to
\* learn from its packets is that it is closed; and until on_disconnected has
\* run, the call that makes it is about to be, or has just begun.
CloseInv ==
  /\ s = "open" => ~raced /\ ~threw
  /\ ~alive => stack = <<>> /\ s = "invalid"
  /\ alive /\ s = "invalid" /\ ~raced =>
       \/ events = {}
       \/ out = {"LOCAL_CLOSE"} /\ \A i \in 1..Len(stack) : stack[i] \in Reporting
  /\ alive /\ s = "invalid" /\ ~raced /\ disconnects = 0 =>
       \/ packets > 0 /\ out = {"LOCAL_CLOSE"} /\ stack = <<>>
       \/ stack # <<>> /\ Top = Frame("none", {"on_disconnected"})
  /\ threw => raced

LEMMA NextCloseInv ==
  ASSUME Shape, EndInv, CloseInv, [Next]_vars
  PROVE  CloseInv'
<1> USE DEF socket, kernel, history
<1>0. /\ TypeOK
      /\ s \in {"open", "invalid"}
      /\ pending \in Nat /\ packets \in Nat
      /\ stack \in Seq(Frames) /\ Len(stack) \in Nat
      /\ raced \in BOOLEAN /\ threw \in BOOLEAN /\ alive \in BOOLEAN
      /\ disconnects \in 0..2
  BY ListeningAssumption, LenProperties DEF Shape, TypeOK
<1>1. CASE Bind \/ Listen \/ Accept
  BY <1>1 DEF Bind, Listen, Accept, CloseInv, CanCall
<1>2. CASE Close
  <2>1. /\ s = "open" /\ s' = "invalid" /\ alive /\ alive'
        /\ ~raced /\ ~threw /\ threw' = threw
        /\ UNCHANGED <<events, disconnects>>
        /\ raced' = (events # {} /\ (pending = 0 \/ stack # <<>>))
        /\ Settle(ClosedEndpoint)
    BY <1>0, <1>2, CloseFacts DEF Close, CloseInv
  <2>2. CASE events = {}
    <3>1. /\ Len(stack') = Len(stack) + 1
          /\ stack'[Len(stack')] = Frame("none", {"on_disconnected"})
      BY <1>0, <1>2, <2>2, CloseFacts
    <3>2. Len(stack') # 0 /\ Len(<<>>) = 0
      BY <1>0, <3>1
    <3>3. stack' # <<>> /\ Top' = Frame("none", {"on_disconnected"})
      BY <3>1, <3>2 DEF Top
    <3>4. QED
      BY <2>1, <2>2, <3>3 DEF CloseInv
  <2>3. CASE events # {}
    <3>1. stack' = stack
      BY <1>0, <1>2, <2>3, CloseFacts
    <3>2. CASE pending = 0 \/ stack # <<>>
      BY <2>1, <2>3, <3>2 DEF CloseInv
    <3>3. CASE ~(pending = 0 \/ stack # <<>>)
      <4>1. pending > 0 /\ stack = <<>> /\ Len(stack) = 0
        BY <1>0, <3>3
      <4>2. packets' > 0 /\ out' = {"LOCAL_CLOSE"}
        BY <1>0, <2>1, <4>1, SettleFacts, EndpointFacts
      <4>3. \A i \in 1..Len(stack') : stack'[i] \in Reporting
        BY <3>1, <4>1
      <4>4. QED
        BY <2>1, <3>1, <4>1, <4>2, <4>3 DEF CloseInv
    <3>4. QED
      BY <3>2, <3>3
  <2>4. QED
    BY <2>2, <2>3
<1>3. CASE Destroy
  BY <1>3 DEF Destroy, CloseInv
<1>4. CASE Dispatch
  <2>1. /\ stack = <<>> /\ Len(stack) = 0
        /\ UNCHANGED <<socket, pending, out, alive, history>>
    BY <1>4 DEF Dispatch
  <2>2. CASE alive /\ out # {}
    <3>1. Len(stack') = 1 /\ stack'[1] = Frame("none", Raised(connection_state, out))
      BY <1>0, <1>4, <2>2, DispatchFacts
    <3>2. out = {"LOCAL_CLOSE"} => stack'[1] = Frame("none", {"on_disconnected"})
      BY <3>1, RaisedFacts
    <3>3. 1 \in 1..Len(stack') /\ \A i \in 1..Len(stack') : i = 1
      BY <3>1
    <3>4. out = {"LOCAL_CLOSE"} =>
            /\ \A i \in 1..Len(stack') : stack'[i] \in Reporting
            /\ stack' # <<>> /\ Top' = Frame("none", {"on_disconnected"})
      <4>1. Len(<<>>) = 0
        OBVIOUS
      <4>2. QED
        BY <3>1, <3>2, <3>3, <4>1 DEF Reporting, Top
    <3>5. alive /\ s = "invalid" /\ ~raced /\ disconnects = 0 => out = {"LOCAL_CLOSE"}
      BY <2>1 DEF CloseInv
    <3>6. alive /\ s = "invalid" /\ ~raced => events = {} \/ out = {"LOCAL_CLOSE"}
      BY DEF CloseInv
    <3>7. QED
      BY <2>1, <2>2, <3>4, <3>5, <3>6 DEF CloseInv
  <2>3. CASE ~(alive /\ out # {})
    <3>1. stack' = <<>>
      BY <1>0, <1>4, <2>3, DispatchFacts
    <3>2. ~(alive /\ s = "invalid" /\ ~raced /\ disconnects = 0)
      BY <2>1, <2>3 DEF CloseInv
    <3>3. QED
      BY <2>1, <3>1, <3>2 DEF CloseInv
  <2>4. QED
    BY <2>2, <2>3
<1>5. CASE NextCallback
  <2> DEFINE c == First(Top.todo)
  <2>1. /\ c \in Top.todo /\ stack # <<>>
        /\ Len(stack) \in Nat \ {0} /\ Len(stack') = Len(stack)
        /\ \A i \in 1..Len(stack) - 1 : stack'[i] = stack[i]
        /\ stack'[Len(stack)] = Frame(c, Top.todo \ {c})
    BY <1>0, <1>5, NextCallbackFacts
  <2>2. /\ UNCHANGED <<s, kernel, alive, raced, threw>>
        /\ events' = EventsAfter(Top.run)
        /\ disconnects' = disconnects
             + IF c = "on_disconnected" /\ disconnects < 2 THEN 1 ELSE 0
    BY <1>5 DEF NextCallback
  <2> HIDE DEF c
  <2>3. Len(stack) \in 1..Len(stack) /\ Top = stack[Len(stack)]
    BY <2>1 DEF Top
  <2>4. \A i \in 1..Len(stack') : i \in 1..Len(stack) - 1 \/ i = Len(stack)
    BY <2>1
  <2>5. alive /\ s = "invalid" /\ ~raced /\ events' # {} =>
          out = {"LOCAL_CLOSE"} /\ \A i \in 1..Len(stack') : stack'[i] \in Reporting
    <3> SUFFICES ASSUME alive /\ s = "invalid" /\ ~raced /\ events' # {}
                 PROVE  out = {"LOCAL_CLOSE"}
                        /\ \A i \in 1..Len(stack') : stack'[i] \in Reporting
      OBVIOUS
    <3>1. events # {}
      BY <2>2 DEF EventsAfter
    <3>2. out = {"LOCAL_CLOSE"} /\ \A i \in 1..Len(stack) : stack[i] \in Reporting
      BY <3>1 DEF CloseInv
    <3>3. Top \in Reporting /\ Top.todo # {}
      BY <2>1, <2>3, <3>2
    <3>4. Top.todo = {"on_disconnected"} /\ c = "on_disconnected"
      BY <2>1, <3>3 DEF Reporting, Frame
    <3>5. Frame(c, Top.todo \ {c}) \in Reporting
      BY <3>4 DEF Reporting
    <3>6. \A i \in 1..Len(stack) - 1 : i \in 1..Len(stack)
      BY <2>1
    <3>7. QED
      BY <2>1, <2>4, <3>2, <3>5, <3>6
  <2>6. ~(alive /\ s = "invalid" /\ ~raced /\ disconnects' = 0)
    <3> SUFFICES ASSUME alive /\ s = "invalid" /\ ~raced /\ disconnects' = 0
                 PROVE  FALSE
      OBVIOUS
    <3>1. disconnects = 0 /\ c # "on_disconnected"
      BY <1>0, <2>2
    <3>2. Top = Frame("none", {"on_disconnected"})
      BY <2>1, <3>1 DEF CloseInv
    <3>3. QED
      BY <2>1, <3>1, <3>2 DEF Frame
  <2>7. stack' # <<>> /\ alive
    <3>1. Len(<<>>) = 0
      OBVIOUS
    <3>2. QED
      BY <2>1, <3>1 DEF CloseInv
  <2>8. QED
    BY <2>2, <2>5, <2>6, <2>7 DEF CloseInv
<1>6. CASE Handled
  <2>1. /\ stack # <<>> /\ Top.todo = {} /\ Top = stack[Len(stack)]
        /\ Len(stack) \in Nat \ {0} /\ Len(stack') = Len(stack) - 1
        /\ \A i \in 1..Len(stack) - 1 : stack'[i] = stack[i]
        /\ events' = EventsAfter(Top.run)
    BY <1>0, <1>6, HandledFacts
  <2>2. /\ UNCHANGED <<s, alive, disconnects, raced>>
        /\ s = "invalid" => UNCHANGED kernel
        /\ threw' = (threw \/ (events' # {} /\ s = "invalid"))
    BY <1>6 DEF Handled
  <2>3. alive
    BY <2>1 DEF CloseInv
  <2>4. Len(stack) \in 1..Len(stack) /\ \A i \in 1..Len(stack') : i \in 1..Len(stack) - 1
    BY <2>1
  <2>5. s = "invalid" /\ ~raced => events' = {}
    <3> SUFFICES ASSUME s = "invalid", ~raced, events' # {}
                 PROVE  FALSE
      OBVIOUS
    <3>1. events # {} /\ Top.run # "on_disconnected"
      BY <2>1 DEF EventsAfter
    <3>2. stack[Len(stack)] \in Reporting
      BY <2>3, <2>4, <3>1 DEF CloseInv
    <3>3. Frame("none", {"on_disconnected"}).todo # {}
          /\ Frame("on_disconnected", {}).run = "on_disconnected"
      BY DEF Frame
    <3>4. QED
      BY <2>1, <3>1, <3>2, <3>3 DEF Reporting
  <2>6. ~(s = "invalid" /\ ~raced /\ disconnects = 0)
    <3>1. Frame("none", {"on_disconnected"}).todo # {}
      BY DEF Frame
    <3>2. QED
      BY <2>1, <2>3, <3>1 DEF CloseInv
  <2>7. threw' => raced
    BY <1>0, <2>2, <2>5 DEF CloseInv
  <2>8. s = "open" => ~raced /\ ~threw'
    BY <2>2 DEF CloseInv
  <2>9. QED
    BY <2>2, <2>3, <2>5, <2>6, <2>7, <2>8 DEF CloseInv
<1>7. CASE ClientConnects \/ NetworkAborts
  <2>1. PICK e \in Endpoints(Backlog) : net.link = "listening" /\ Network(e)
    BY <1>0, <1>7, NetworkFacts
  <2>2. s = "open" /\ UNCHANGED <<socket, alive, stack, history>>
    BY <1>0, <2>1 DEF EndInv, Network
  <2>3. QED
    BY <2>2 DEF CloseInv
<1>8. CASE UNCHANGED vars
  BY <1>8 DEF vars, CloseInv, Top
<1>9. CASE Throw
  <2>1. /\ stack # <<>> /\ Top.run # "none" /\ stack' = <<>> /\ Len(<<>>) = 0
        /\ UNCHANGED <<socket, kernel, alive, disconnects, raced, threw>>
    BY <1>9 DEF Throw
  <2>2. Frame("none", {"on_disconnected"}).run = "none"
    BY DEF Frame
  <2>3. alive
    BY <2>1 DEF CloseInv
  <2>4. ~(alive /\ s = "invalid" /\ ~raced /\ disconnects = 0)
    BY <2>1, <2>2 DEF CloseInv
  <2>5. \A i \in 1..Len(stack') : stack'[i] \in Reporting
    BY <2>1
  <2>6. QED
    BY <2>1, <2>3, <2>4, <2>5 DEF CloseInv
<1>10. QED
  BY <1>1, <1>2, <1>3, <1>4, <1>5, <1>6, <1>7, <1>8, <1>9 DEF Next

LEMMA CloseInvHolds == Spec => []CloseInv
<1>1. Init => CloseInv
  BY DEF Init, CloseInv
<1>2. QED
  BY <1>1, NextCloseInv, ShapeHolds, EndInvHolds, PTL DEF Spec

\* A close() outside the callbacks that finds its poll pending, or wants
\* nothing, is reported once all packets have been handled, and
\* on_disconnected never runs for a socket that is open
\* (tcp_listening_socket.cpp:138-150).
THEOREM ListenerReportsClose == Spec => []ReportsClose
<1>1. Shape /\ EndInv /\ CloseInv => ReportsClose
  <2> SUFFICES ASSUME Shape, EndInv, CloseInv
               PROVE  ReportsClose
    OBVIOUS
  <2>1. disconnects > 0 => s = "invalid"
    BY DEF EndInv
  <2>2. ASSUME alive, s = "invalid", ~raced, Quiet
        PROVE  disconnects > 0
    <3>1. stack = <<>> /\ packets = 0
      BY <2>2 DEF Quiet
    <3>2. disconnects # 0
      BY <2>2, <3>1 DEF CloseInv
    <3>3. QED
      BY <3>2 DEF Shape, TypeOK
  <2>3. QED
    BY <2>1, <2>2 DEF ReportsClose
<1>2. QED
  BY <1>1, ShapeHolds, EndInvHolds, CloseInvHolds, PTL

\* handle_events throws only for a socket that was closed in a callback or
\* after its poll had completed (tcp_listening_socket.cpp:188).
THEOREM ListenerThrowsOnlyIfRaced == Spec => []ThrowsOnlyIfRaced
<1>1. CloseInv => ThrowsOnlyIfRaced
  BY DEF CloseInv, ThrowsOnlyIfRaced
<1>2. QED
  BY <1>1, CloseInvHolds, PTL

----------------------------------------------------------------------------
(* The echo servers                                                        *)

LEMMA ServerSteps == ServerNext => [Next]_vars
<1> SUFFICES ASSUME ServerNext PROVE [Next]_vars
  OBVIOUS
<1> USE DEF Next
<1>1. CASE Start \/ StartFails \/ AnswerClient \/ NewConnection \/ Unwind
  BY <1>1 DEF Start, StartFails, AnswerClient, NewConnection, Unwind, vars
<1>2. CASE SocketEnds
  BY <1>2 DEF SocketEnds
<1>3. CASE TakePacket \/ Continue \/ ConnectionThrows \/ Shutdown
  BY <1>3 DEF TakePacket, Continue, ConnectionThrows, Shutdown, vars
<1>4. CASE Client \/ Abort
  BY <1>4 DEF Client, Abort
<1>5. QED
  BY <1>1, <1>2, <1>3, <1>4 DEF ServerNext

\* The echo servers are two of the applications over which the theorems
\* about the listening socket range.
THEOREM ServerIsApplication == ServerSpec => Spec
<1>1. ServerInit => Init
  BY DEF ServerInit
<1>2. [ServerNext]_allVars => [Next]_vars
  BY ServerSteps DEF allVars, vars
<1>3. QED
  BY <1>1, <1>2, PTL DEF ServerSpec, Spec

\* The callbacks that tell of an end leave nothing wanted when they return,
\* and once the socket is closed no other is in progress or still to be made.
\* The loop has been left by then, so nothing dispatches for it any more.
EndRuns == {"on_connection_reset", "on_disconnected"}
EndFrame(frame) == frame.run \in EndRuns \/ frame = Frame("none", {"on_disconnected"})

TodoInv ==
  \A i \in 1..Len(stack) :
    /\ stack[i].run = "on_connection_reset" => stack[i].todo \subseteq {"on_disconnected"}
    /\ stack[i].run = "on_disconnected" => stack[i].todo = {}

ClosedInv == s = "invalid" => ~Looping /\ \A i \in 1..Len(stack) : EndFrame(stack[i])

\* Whoever waits to be accepted, or was, has connected.
CountInv ==
  /\ answered \in Nat /\ arrived \in Nat
  /\ net.inbox > 0 \/ answered > 0 => arrived > 0

ServerInv ==
  /\ ~threw
  /\ CountInv
  /\ TodoInv
  /\ ClosedInv

\* What is left when the first callback is made comes after it.
LEMMA FirstIsLowest ==
  ASSUME NEW todo \in SUBSET Callbacks, todo # {}
  PROVE  /\ First(todo) = "on_connection_reset" =>
              todo \ {"on_connection_reset"} \subseteq {"on_disconnected"}
         /\ First(todo) = "on_disconnected" => todo = {"on_disconnected"}
<1>1. \A d \in todo : Rank[First(todo)] <= Rank[d]
  BY FirstFacts
<1>2. First(todo) = "on_connection_reset" => "on_incoming_connections" \notin todo
  BY <1>1 DEF Rank
<1>3. First(todo) = "on_disconnected" =>
        "on_incoming_connections" \notin todo /\ "on_connection_reset" \notin todo
  BY <1>1 DEF Rank
<1>4. First(todo) \in todo
  BY FirstFacts
<1>5. QED
  BY <1>2, <1>3, <1>4 DEF Callbacks

LEMMA NextTodoInv ==
  ASSUME Shape, TodoInv, [Next]_vars
  PROVE  TodoInv'
<1>0. TypeOK /\ stack \in Seq(Frames) /\ Len(stack) \in Nat
  BY LenProperties DEF Shape, TypeOK
<1>1. CASE Bind \/ Listen \/ Accept \/ Destroy \/ ClientConnects \/ NetworkAborts
           \/ UNCHANGED vars
  BY <1>1, StackUnchanged DEF TodoInv
<1>2. CASE Close
  <2>1. CASE events # {}
    BY <1>0, <1>2, <2>1, CloseFacts DEF TodoInv
  <2>2. CASE events = {}
    <3>1. /\ Len(stack') = Len(stack) + 1
          /\ \A i \in 1..Len(stack) : stack'[i] = stack[i]
          /\ stack'[Len(stack) + 1].run = "none"
      BY <1>0, <1>2, <2>2, CloseFacts DEF Frame
    <3>2. \A i \in 1..Len(stack') : i \in 1..Len(stack) \/ i = Len(stack) + 1
      BY <1>0, <3>1
    <3>3. QED
      BY <3>1, <3>2 DEF TodoInv
  <2>3. QED
    BY <2>1, <2>2
<1>3. CASE Dispatch
  <2>1. CASE alive /\ out # {}
    <3>1. Len(stack') = 1 /\ stack'[1].run = "none"
      BY <1>0, <1>3, <2>1, DispatchFacts DEF Frame
    <3>2. \A i \in 1..Len(stack') : i = 1
      BY <3>1
    <3>3. QED
      BY <3>1, <3>2 DEF TodoInv
  <2>2. CASE ~(alive /\ out # {})
    <3>1. stack' = <<>> /\ Len(<<>>) = 0
      BY <1>0, <1>3, <2>2, DispatchFacts
    <3>2. QED
      BY <3>1 DEF TodoInv
  <2>3. QED
    BY <2>1, <2>2
<1>4. CASE NextCallback
  <2> DEFINE c == First(Top.todo)
  <2>1. /\ Len(stack) \in Nat \ {0} /\ Len(stack') = Len(stack)
        /\ \A i \in 1..Len(stack) - 1 : stack'[i] = stack[i]
        /\ stack'[Len(stack)].run = c /\ stack'[Len(stack)].todo = Top.todo \ {c}
    BY <1>0, <1>4, NextCallbackFacts DEF Frame
  <2>2. Top.todo \in SUBSET Callbacks /\ Top.todo # {}
    <3>1. stack # <<>> /\ Top.todo # {}
      BY <1>4 DEF NextCallback
    <3>2. Top \in Frames
      BY <1>0, <3>1, TopFacts
    <3>3. QED
      BY <3>1, <3>2 DEF Frames
  <2>3. /\ c = "on_connection_reset" => Top.todo \ {c} \subseteq {"on_disconnected"}
        /\ c = "on_disconnected" => Top.todo \ {c} = {}
    BY <2>2, FirstIsLowest
  <2> HIDE DEF c
  <2>4. \A i \in 1..Len(stack') : i \in 1..Len(stack) - 1 \/ i = Len(stack)
    BY <2>1
  <2>5. \A i \in 1..Len(stack) - 1 : i \in 1..Len(stack)
    BY <2>1
  <2>6. QED
    BY <2>1, <2>3, <2>4, <2>5 DEF TodoInv
<1>5. CASE Handled
  <2>1. /\ Len(stack) \in Nat \ {0} /\ Len(stack') = Len(stack) - 1
        /\ \A i \in 1..Len(stack) - 1 : stack'[i] = stack[i]
    BY <1>0, <1>5, HandledFacts
  <2>2. \A i \in 1..Len(stack') : i \in 1..Len(stack) /\ stack'[i] = stack[i]
    BY <2>1
  <2>3. QED
    BY <2>2 DEF TodoInv
<1>6. CASE Throw
  <2>1. stack' = <<>> /\ Len(<<>>) = 0
    BY <1>6 DEF Throw
  <2>2. QED
    BY <2>1 DEF TodoInv
<1>7. QED
  BY <1>1, <1>2, <1>3, <1>4, <1>5, <1>6 DEF Next

LEMMA NextClosedInv ==
  ASSUME Shape, ServerInv, [ServerNext]_allVars
  PROVE  ClosedInv'
<1>0. /\ TypeOK /\ stack \in Seq(Frames) /\ Len(stack) \in Nat
      /\ s \in {"open", "invalid"}
      /\ s = "open" => Len(stack) \in 0..1
  BY LenProperties DEF Shape, TypeOK, SizeInv
<1>1. CASE Start \/ StartFails \/ AnswerClient \/ NewConnection \/ Client \/ Abort
  <2>1. CASE Start
    BY <2>1 DEF Start, Bind, Listen, ClosedInv
  <2>5. CASE StartFails
    BY <2>5 DEF StartFails, vars, socket, Looping, ClosedInv, ServerInv
  <2>2. CASE AnswerClient \/ NewConnection
    BY <2>2 DEF AnswerClient, NewConnection, Accept, socket, ClosedInv
  <2>3. CASE Client \/ Abort
    BY <2>3 DEF Client, Abort, ClientConnects, NetworkAborts, Network, socket, Looping,
                serverVars, ClosedInv, ServerInv
  <2>4. QED
    BY <1>1, <2>1, <2>2, <2>3, <2>5
<1>2. CASE Unwind
  <2>1. stack' = <<>> /\ Len(<<>>) = 0 /\ UNCHANGED <<s, serverVars>>
    BY <1>2 DEF Unwind, Throw, socket
  <2>2. QED
    BY <2>1 DEF ClosedInv, ServerInv, Looping, serverVars
<1>3. CASE SocketEnds
  <2>1. is_done' = TRUE
    BY <1>3 DEF SocketEnds
  <2>2. CASE Close /\ InCallback("on_connection_reset")
    <3>1. /\ stack # <<>> /\ s = "open" /\ Top.run = "on_connection_reset"
      BY <2>2 DEF Close, InCallback
    <3>2. Len(stack) = 1 /\ stack[1].run = "on_connection_reset"
      <4>1. Len(stack) \in Nat \ {0} /\ Top = stack[Len(stack)]
        BY <1>0, <3>1, TopFacts
      <4>2. Len(stack) = 1
        BY <1>0, <3>1, <4>1
      <4>3. QED
        BY <3>1, <4>1, <4>2
    <3>3. \A i \in 1..Len(stack') : EndFrame(stack'[i])
      <4>1. CASE events # {}
        <5>1. stack' = stack /\ \A i \in 1..Len(stack) : i = 1
          BY <1>0, <2>2, <3>2, <4>1, CloseFacts
        <5>2. QED
          BY <3>2, <5>1 DEF EndFrame, EndRuns
      <4>2. CASE events = {}
        <5>1. /\ Len(stack') = 2 /\ stack'[1] = stack[1]
              /\ stack'[2] = Frame("none", {"on_disconnected"})
          BY <1>0, <2>2, <3>2, <4>2, CloseFacts
        <5>2. \A i \in 1..Len(stack') : i = 1 \/ i = 2
          BY <5>1
        <5>3. QED
          BY <3>2, <5>1, <5>2 DEF EndFrame, EndRuns
      <4>3. QED
        BY <4>1, <4>2
    <3>4. QED
      BY <2>1, <3>3 DEF ClosedInv, Looping
  <2>3. CASE UNCHANGED vars
    BY <2>1, <2>3 DEF ClosedInv, ServerInv, Looping, vars, socket
  <2>4. QED
    BY <1>3, <2>2, <2>3 DEF SocketEnds
<1>4. CASE TakePacket
  <2>1. s = "open" /\ s' = s
    BY <1>0, <1>4 DEF TakePacket, Dispatch, socket, ServerInv, ClosedInv
  <2>2. QED
    BY <2>1 DEF ClosedInv
<1>5. CASE Continue
  <2>1. CASE s = "open"
    BY <1>5, <2>1 DEF Continue, NextCallback, Handled, ClosedInv
  <2>2. CASE s = "invalid"
    <3>1. ~Looping /\ \A i \in 1..Len(stack) : EndFrame(stack[i])
      BY <2>2 DEF ServerInv, ClosedInv
    <3>2. ~Looping'
      BY <1>5, <3>1 DEF Continue, Looping
    <3>3. CASE NextCallback
      <4> DEFINE c == First(Top.todo)
      <4>1. /\ c \in Top.todo
            /\ Len(stack) \in Nat \ {0} /\ Len(stack') = Len(stack)
            /\ \A i \in 1..Len(stack) - 1 : stack'[i] = stack[i]
            /\ stack'[Len(stack)].run = c
        BY <1>0, <3>3, NextCallbackFacts DEF Frame
      <4> HIDE DEF c
      <4>2. Len(stack) \in 1..Len(stack) /\ Top = stack[Len(stack)]
        BY <4>1 DEF Top
      <4>3. Top.todo \subseteq {"on_disconnected"}
        <5>1. Frame("none", {"on_disconnected"}).todo = {"on_disconnected"}
          BY DEF Frame
        <5>2. Top.run \in EndRuns => Top.todo \subseteq {"on_disconnected"}
          BY <4>2 DEF ServerInv, TodoInv, EndRuns
        <5>3. QED
          BY <3>1, <4>2, <5>1, <5>2 DEF EndFrame
      <4>4. EndFrame(stack'[Len(stack)])
        BY <4>1, <4>3 DEF EndFrame, EndRuns
      <4>5. \A i \in 1..Len(stack') : i \in 1..Len(stack) - 1 \/ i = Len(stack)
        BY <4>1
      <4>6. \A i \in 1..Len(stack) - 1 : i \in 1..Len(stack)
        BY <4>1
      <4>7. QED
        BY <3>1, <3>2, <4>1, <4>4, <4>5, <4>6 DEF ClosedInv
    <3>4. CASE Handled
      <4>1. /\ Len(stack) \in Nat \ {0} /\ Len(stack') = Len(stack) - 1
            /\ \A i \in 1..Len(stack) - 1 : stack'[i] = stack[i]
        BY <1>0, <3>4, HandledFacts
      <4>2. \A i \in 1..Len(stack') : i \in 1..Len(stack) /\ stack'[i] = stack[i]
        BY <4>1
      <4>3. QED
        BY <3>1, <3>2, <4>2 DEF ClosedInv
    <3>5. QED
      BY <1>5, <3>3, <3>4 DEF Continue
  <2>3. QED
    BY <1>0, <2>1, <2>2
<1>6. CASE ConnectionThrows
  BY <1>6 DEF ConnectionThrows, vars, socket, Looping, ClosedInv, ServerInv
<1>7. CASE Shutdown
  <2>1. /\ ~Looping /\ stack = <<>> /\ Len(<<>>) = 0 /\ Close /\ UNCHANGED serverVars
    BY <1>7 DEF Shutdown
  <2>2. ~Looping'
    BY <2>1 DEF Looping, serverVars
  <2>3. \A i \in 1..Len(stack') : EndFrame(stack'[i])
    <3>1. CASE events # {}
      BY <1>0, <2>1, <3>1, CloseFacts
    <3>2. CASE events = {}
      <4>1. Len(stack') = 1 /\ stack'[1] = Frame("none", {"on_disconnected"})
        BY <1>0, <2>1, <3>2, CloseFacts
      <4>2. \A i \in 1..Len(stack') : i = 1
        BY <4>1
      <4>3. QED
        BY <4>1, <4>2 DEF EndFrame
    <3>3. QED
      BY <3>1, <3>2
  <2>4. QED
    BY <2>2, <2>3 DEF ClosedInv
<1>8. CASE UNCHANGED allVars
  BY <1>8 DEF allVars, serverVars, vars, socket, Looping, ClosedInv, ServerInv
<1>9. QED
  BY <1>1, <1>2, <1>3, <1>4, <1>5, <1>6, <1>7, <1>8 DEF ServerNext

\* What has completed keeps its connections, and an end takes them away.
LEMMA NextCountInv ==
  ASSUME Shape, ServerInv, [ServerNext]_allVars
  PROVE  CountInv'
<1> USE DEF serverVars
<1>0. /\ answered \in Nat /\ arrived \in Nat
      /\ net.inbox > 0 \/ answered > 0 => arrived > 0
      /\ net \in Endpoints(Backlog) /\ net.inbox \in Nat /\ Backlog \in Nat
  BY ListeningAssumption DEF Shape, TypeOK, ServerInv, CountInv, Endpoints
<1>1. CASE Client
  <2>1. arrived' = arrived + 1 /\ answered' = answered
    BY <1>1 DEF Client
  <2>2. QED
    BY <1>0, <2>1 DEF CountInv
<1>2. CASE AnswerClient \/ NewConnection
  <2>1. arrived' = arrived /\ answered' \in {answered, answered + 1} /\ net.inbox > 0
    BY <1>2 DEF AnswerClient, NewConnection, Accept
  <2>2. QED
    BY <1>0, <2>1 DEF CountInv
<1>3. ASSUME UNCHANGED <<arrived, answered>>, net'.inbox \in {net.inbox, 0}
      PROVE  CountInv'
  BY <1>0, <1>3 DEF CountInv
<1>4. CASE Start \/ StartFails \/ Unwind \/ SocketEnds \/ TakePacket \/ Continue
           \/ ConnectionThrows \/ Shutdown \/ Abort \/ UNCHANGED allVars
  <2>1. UNCHANGED <<arrived, answered>>
    BY <1>4 DEF Start, StartFails, Unwind, SocketEnds, TakePacket, Continue, ConnectionThrows,
                Shutdown, Abort, allVars
  <2>2. net'.inbox \in {net.inbox, 0}
    <3>1. CASE Start
      <4>1. [net EXCEPT !.link = "listening"].inbox = net.inbox
        BY <1>0 DEF Endpoints
      <4>2. QED
        BY <3>1, <4>1 DEF Start, Bind, Listen, Poll, kernel
    <3>2. CASE Close
      BY <3>2 DEF Close, Settle, ClosedEndpoint, NewEndpoint
    <3>3. CASE Abort
      BY <3>3 DEF Abort, NetworkAborts, Network, Settle, ResetEndpoint
    <3>4. CASE Continue
      BY <3>4 DEF Continue, NextCallback, Handled, Poll, kernel
    <3>5. CASE StartFails \/ Unwind \/ TakePacket \/ ConnectionThrows \/ UNCHANGED allVars
      BY <3>5 DEF StartFails, Unwind, Throw, TakePacket, Dispatch, ConnectionThrows, allVars,
                  vars, kernel
    <3>6. CASE SocketEnds \/ Shutdown
      BY <3>2, <3>6 DEF SocketEnds, Shutdown, vars, kernel
    <3>7. QED
      BY <1>4, <3>1, <3>3, <3>4, <3>5, <3>6
  <2>3. QED
    BY <1>3, <2>1, <2>2
<1>5. QED
  BY <1>1, <1>2, <1>4 DEF ServerNext

\* No poll is submitted for the closed socket, and what throws is the start,
\* accept() or a connection.
LEMMA NextThrows ==
  ASSUME Shape, ServerInv, [ServerNext]_allVars
  PROVE  /\ ~threw'
         /\ Throwing => connection_state \in {"created", "bound"} \/ (direct /\ arrived > 0)
<1> DEFINE Cause == connection_state \in {"created", "bound"} \/ (direct /\ arrived > 0)
<1> USE DEF serverVars, Throwing
<1>0. /\ TypeOK /\ s \in {"open", "invalid"} /\ ~threw
      /\ net.inbox > 0 \/ answered > 0 => arrived > 0
  BY DEF Shape, TypeOK, ServerInv, CountInv
<1>1. CASE Start \/ Unwind \/ Shutdown \/ Client \/ Abort \/ TakePacket
  BY <1>0, <1>1 DEF Start, Unwind, Shutdown, Client, Abort, TakePacket, Bind, Listen, Throw,
     Close, Dispatch, ClientConnects, NetworkAborts, Network, history
<1>2. CASE AnswerClient \/ NewConnection
  BY <1>0, <1>2 DEF AnswerClient, NewConnection, Accept, history
<1>3. CASE SocketEnds
  BY <1>0, <1>3 DEF SocketEnds, Close, vars, history
<1>4. CASE Continue
  <2>1. CASE NextCallback /\ ended' = ended
    BY <1>0, <2>1 DEF NextCallback
  <2>2. CASE Handled /\ ended' = (ended \/ threw')
    <3>1. /\ stack # <<>> /\ Top.todo = {} /\ Top = stack[Len(stack)]
          /\ Len(stack) \in Nat \ {0} /\ events' = EventsAfter(Top.run)
      BY <1>0, <2>2, HandledFacts
    <3>2. threw' = (threw \/ (events' # {} /\ s = "invalid"))
      BY <2>2 DEF Handled
    <3>3. s = "invalid" => events' = {}
      <4>1. Len(stack) \in 1..Len(stack)
        BY <3>1
      <4>2. s = "invalid" => EndFrame(Top)
        BY <3>1, <4>1 DEF ServerInv, ClosedInv
      <4>3. Frame("none", {"on_disconnected"}).todo # {}
        BY DEF Frame
      <4>4. QED
        BY <3>1, <4>2, <4>3 DEF EndFrame, EndRuns, EventsAfter
    <3>4. ~threw'
      BY <1>0, <3>2, <3>3
    <3>5. QED
      BY <2>2, <3>4
  <2>3. QED
    BY <1>4, <2>1, <2>2 DEF Continue, NextCallback, Handled
<1>5. CASE StartFails \/ ConnectionThrows
  BY <1>0, <1>5 DEF StartFails, ConnectionThrows, vars, history
<1>6. CASE UNCHANGED allVars
  BY <1>0, <1>6 DEF allVars, vars, history
<1>7. QED
  BY <1>1, <1>2, <1>3, <1>4, <1>5, <1>6 DEF ServerNext

\* The listening socket of an echo server throws nothing from handle_events,
\* however many clients there are and whatever becomes of the socket.  An
\* exception ends the program only while it binds and listens or, in design
\* B, after a client has come, from accept() or a connection
\* (echo_server.cpp:64-72, 114-122; design B's 283-291, 300-308).
THEOREM ServerThrowsWithClients == ServerSpec => ThrowsWithClients
<1> DEFINE Caused ==
      Throwing => connection_state \in {"created", "bound"} \/ (direct /\ arrived > 0)
<1>1. ServerInit => ServerInv
  <2> SUFFICES ASSUME ServerInit PROVE ServerInv
    OBVIOUS
  <2>1. /\ stack = <<>> /\ Len(<<>>) = 0 /\ s = "open" /\ ~threw
        /\ answered = 0 /\ arrived = 0 /\ net.inbox = 0
    BY DEF ServerInit, Init, NewEndpoint
  <2>2. QED
    BY <2>1 DEF ServerInv, CountInv, TodoInv, ClosedInv
<1>2. Shape /\ ServerInv /\ [ServerNext]_allVars => ServerInv'
  <2> SUFFICES ASSUME Shape, ServerInv, [ServerNext]_allVars
               PROVE  ServerInv'
    OBVIOUS
  <2>1. [Next]_vars
    BY ServerSteps DEF allVars, vars
  <2>2. TodoInv'
    BY <2>1, NextTodoInv DEF ServerInv
  <2>3. QED
    BY <2>2, NextClosedInv, NextCountInv, NextThrows DEF ServerInv
<1>3. ServerInv => ~threw
  BY DEF ServerInv
<1>4. Shape /\ ServerInv /\ [ServerNext]_allVars => [Caused]_allVars
  BY NextThrows
<1>5. QED
  BY <1>1, <1>2, <1>3, <1>4, ServerIsApplication, ShapeHolds, PTL
  DEF ServerSpec, ThrowsWithClients

============================================================================
