------------------------- MODULE DirectSocketProofs -------------------------
(***************************************************************************)
(* Theorems about DirectSocket, for every bound on its polls, every size   *)
(* of the receive buffer and every application.                            *)
(***************************************************************************)
EXTENDS DirectSocket, SequenceLemmas

----------------------------------------------------------------------------
(* The operators the actions are built from                                *)

\* What the driver reports; the local close alone and only once the socket
\* is closed.
LEMMA ReadyFacts ==
  ASSUME NEW e \in Endpoints(MaxInbox)
  PROVE  /\ Ready(e) \in SUBSET Events
         /\ "LOCAL_CLOSE" \in Ready(e) => e.link = "closed"
         /\ e.link = "closed" => Ready(e) = {"LOCAL_CLOSE"}
         /\ \/ Ready(e) \cap {"CONNECT", "CONNECT_FAIL"} # {}
            \/ Ready(e) = {"LOCAL_CLOSE"}
            \/ Ready(e) \subseteq {"ACCEPT"}
  BY DEF Ready, Endpoints, Links, Events, If

LEMMA EndpointFacts ==
  /\ NewEndpoint \in Endpoints(MaxInbox) /\ NewEndpoint.link = "idle"
  /\ ClosedEndpoint \in Endpoints(MaxInbox) /\ ClosedEndpoint.link = "closed"
  /\ \A e \in Endpoints(MaxInbox) :
       /\ \A link \in Links :
            /\ [e EXCEPT !.link = link] \in Endpoints(MaxInbox)
            /\ [e EXCEPT !.link = link].link = link
       /\ ResetEndpoint(e) \in Endpoints(MaxInbox) /\ ResetEndpoint(e).link = "reset"
<1>1. NewEndpoint \in Endpoints(MaxInbox) /\ NewEndpoint.link = "idle"
  BY DirectAssumption DEF NewEndpoint, Endpoints, Links
<1>2. ClosedEndpoint \in Endpoints(MaxInbox) /\ ClosedEndpoint.link = "closed"
  BY <1>1 DEF ClosedEndpoint, Endpoints, Links
<1>3. ASSUME NEW e \in Endpoints(MaxInbox)
      PROVE  /\ \A link \in Links :
                  /\ [e EXCEPT !.link = link] \in Endpoints(MaxInbox)
                  /\ [e EXCEPT !.link = link].link = link
             /\ ResetEndpoint(e) \in Endpoints(MaxInbox) /\ ResetEndpoint(e).link = "reset"
  BY DirectAssumption DEF ResetEndpoint, Endpoints, Links
<1>4. QED
  BY <1>1, <1>2, <1>3

\* Among callbacks still to be made there is a first one, and one of rank 0
\* is first if there is one.
LEMMA FirstFacts ==
  ASSUME NEW todo \in SUBSET Callbacks, todo # {}
  PROVE  /\ First(todo) \in todo
         /\ \A c \in todo : Rank[First(todo)] <= Rank[c]
         /\ \A c \in todo : Rank[c] = 0 => Rank[First(todo)] = 0
<1>1. \A c \in Callbacks : Rank[c] \in 0..5
  BY DEF Callbacks, Rank
<1>2. \E c \in todo : \A d \in todo : Rank[c] <= Rank[d]
  <2>0. \A k \in 0..5 : (\E c \in todo : Rank[c] = k /\ \A d \in todo : Rank[d] >= k)
          => \E c \in todo : \A d \in todo : Rank[c] <= Rank[d]
    BY <1>1
  <2>1. CASE \E c \in todo : Rank[c] = 0
    BY <2>0, <2>1, <1>1
  <2>2. CASE (\A c \in todo : Rank[c] >= 1) /\ \E c \in todo : Rank[c] = 1
    BY <2>0, <2>2, <1>1
  <2>3. CASE (\A c \in todo : Rank[c] >= 2) /\ \E c \in todo : Rank[c] = 2
    BY <2>0, <2>3, <1>1
  <2>4. CASE (\A c \in todo : Rank[c] >= 3) /\ \E c \in todo : Rank[c] = 3
    BY <2>0, <2>4, <1>1
  <2>5. CASE (\A c \in todo : Rank[c] >= 4) /\ \E c \in todo : Rank[c] = 4
    BY <2>0, <2>5, <1>1
  <2>6. CASE \A c \in todo : Rank[c] >= 5
    BY <2>0, <2>6, <1>1
  <2>7. QED
    BY <2>1, <2>2, <2>3, <2>4, <2>5, <2>6, <1>1
<1>3. First(todo) \in todo /\ \A d \in todo : Rank[First(todo)] <= Rank[d]
  BY <1>2 DEF First
<1>4. QED
  BY <1>1, <1>3

\* Which callbacks a report makes.
LEMMA RaisedFacts ==
  ASSUME NEW state, NEW ev
  PROVE  /\ Raised(state, ev) \in SUBSET Callbacks
         /\ "on_disconnected" \in Raised(state, ev) <=> "LOCAL_CLOSE" \in ev
         /\ state \notin Pending
              => /\ "on_connected" \notin Raised(state, ev)
                 /\ "on_connection_failed" \notin Raised(state, ev)
         /\ state \in Pending => "on_writable" \notin Raised(state, ev)
         /\ state \in Pending /\ ev \cap {"CONNECT", "CONNECT_FAIL"} # {}
              => Raised(state, ev) \cap {"on_connected", "on_connection_failed"} # {}
         /\ ev = {"LOCAL_CLOSE"} => Raised(state, ev) = {"on_disconnected"}
<1>1. Raised(state, ev) \in SUBSET Callbacks
  BY DEF Raised
<1>2. "on_disconnected" \in Raised(state, ev) <=> "LOCAL_CLOSE" \in ev
  BY DEF Raised, Callbacks
<1>3. "on_connected" \in Raised(state, ev) <=>
        state \in Pending /\ "CONNECT" \in ev /\ "CONNECT_FAIL" \notin ev
  BY DEF Raised, Callbacks
<1>4. "on_connection_failed" \in Raised(state, ev) <=>
        state \in Pending /\ "CONNECT_FAIL" \in ev
  BY DEF Raised, Callbacks
<1>5. "on_writable" \in Raised(state, ev) => state \notin Pending
  BY DEF Raised, Callbacks
<1>6. ASSUME ev = {"LOCAL_CLOSE"}
      PROVE  Raised(state, ev) = {"on_disconnected"}
  BY <1>6 DEF Raised, Callbacks
<1>7. QED
  BY <1>1, <1>2, <1>3, <1>4, <1>5, <1>6

\* What a report says of data, of room and of the peer's close.
LEMMA RaisedNews ==
  \A state, ev :
    /\ "on_readable" \in Raised(state, ev) <=> "RECEIVE" \in ev
    /\ "on_readable_oob" \in Raised(state, ev) <=> "RECEIVE_EXPEDITED" \in ev
    /\ "on_client_close" \in Raised(state, ev) <=> "DISCONNECT" \in ev
    /\ "on_writable" \in Raised(state, ev) <=> state \notin Pending /\ "SEND" \in ev
  BY DEF Raised, Callbacks

----------------------------------------------------------------------------
(* The steps                                                               *)

\* The driver completes the pending poll.
Completes(e) ==
  /\ net' = e
  /\ poll # {} /\ poll' = {}
  /\ out' = poll \cap Ready(e) /\ out' # {}
  /\ packets' = packets + 1

\* The driver's variables change with the socket's condition.
Changes(e) == Completes(e) \/ (net' = e /\ UNCHANGED <<poll, packets, out>>)

\* A poll is submitted by a thread that is in no callback any more; if it
\* completes at once handle_events begins.
Submits(interest, e, state) ==
  /\ s = "open" /\ UNCHANGED <<s, alive, orphaned, calls, threw>>
  /\ connection_state' = state /\ events' = interest
  /\ net' = e /\ packets' = Outstanding /\ out' = interest \cap Ready(e)
  /\ \/ /\ out' = {} /\ poll' = interest
        /\ stack' = <<>> /\ handling_events' = FALSE
     \/ /\ out' # {} /\ poll' = {}
        /\ stack' = <<Frame("poll", "none", Raised(state, out'))>>
        /\ handling_events' = TRUE

\* Steps of the application and the peer that leave the calls in progress.
Drifts ==
  /\ \E e \in Endpoints(MaxInbox) :
        (e.link = "closed" <=> net.link = "closed") /\ Changes(e)
  /\ \/ events' = events
     \/ /\ handling_events /\ connection_state = "connected"
        /\ events' \in {events \cup {"RECEIVE"}, events \cup {"SEND"}}
  /\ UNCHANGED <<s, connection_state, handling_events, alive, orphaned, stack, calls, threw>>
  /\ strayed => strayed'

Begins ==
  /\ stack = <<>> /\ connection_state = "created"
  /\ \E state \in Pending, e \in Endpoints(MaxInbox) :
        (e.link = "closed" <=> net.link = "closed") /\ Submits(AllEvents, e, state)
  /\ strayed => strayed'

\* read() or write() outside the callbacks polls for more.
PollsMore ==
  /\ stack = <<>> /\ connection_state = "connected"
  /\ Outstanding < MaxPackets
  /\ strayed'
  /\ \E event \in {"RECEIVE", "SEND"}, e \in Endpoints(MaxInbox) :
        /\ e.link = "closed" <=> net.link = "closed"
        /\ Submits(events \cup {event}, e, "connected")

\* The last callback has returned.
Finishing ==
  /\ stack # <<>> /\ Top.todo = {}
  /\ Top.by = "poll" /\ Top.run # "on_connection_complete"

PollsAgain ==
  Finishing /\ Submits(events, net, StateAfter(Top.run, connection_state)) /\ UNCHANGED strayed

Announces ==
  /\ Finishing
  /\ s = "invalid"
  /\ connection_state' = StateAfter(Top.run, connection_state)
  /\ stack' = <<Frame("poll", "on_connection_complete", {})>>
  /\ handling_events' = FALSE
  /\ Count("on_connection_complete")
  /\ UNCHANGED <<s, events, kernel, alive, orphaned, strayed, threw>>

\* A call ends, by returning or by an exception.
Ends ==
  /\ stack # <<>> /\ stack' = <<>> /\ (Top.todo = {} \/ Top.run # "none")
  /\ threw' = TRUE \/ (UNCHANGED threw /\ (Top.by = "close" \/ Announcing))
  /\ UNCHANGED <<socket, kernel, alive, orphaned, calls, strayed>>

----------------------------------------------------------------------------
(* Why callbacks do not nest                                               *)

\* A socket that has been connected or accepted always wants something, since
\* no callback clears the accept bit, so close() makes a call itself only
\* before that; and while an open socket handles events it knows that it does
\* and does not poll.  So no second call can begin inside a first.  A socket
\* that was deleted with nothing to come has nothing to come for good.
NestInv ==
  /\ Len(stack) \in 0..1
  /\ events = {} \/ "ACCEPT" \in events
  /\ events = {} => out = {} /\ poll = {} /\ packets = 0
  /\ stack # <<>> /\ Top.by = "poll" => events # {}
  /\ stack # <<>> /\ Top.by = "close" =>
       s = "invalid" /\ Top.todo \subseteq {"on_disconnected"}
  /\ stack # <<>> /\ Top.run = "on_connection_complete" => s = "invalid" /\ Top.todo = {}
  /\ stack # <<>> /\ s = "open" => handling_events
  /\ connection_state = "created" =>
       /\ events = {}
       /\ stack # <<>> => Top = Frame("close", "none", {"on_disconnected"})
       /\ s = "invalid" /\ alive => stack # <<>>
  /\ connection_state \in {"pending_connect", "pending_accept", "connected"} => events # {}
  /\ ~alive => s = "invalid"
  /\ ~alive /\ ~orphaned =>
       /\ poll = {} /\ packets = 0
       /\ stack = <<>> \/ Top.run = "on_connection_complete"

Shape == TypeOK /\ NestInv

\* The one call in progress.
LEMMA TopFacts ==
  ASSUME Shape, stack # <<>>
  PROVE  Len(stack) = 1 /\ Top = stack[1] /\ Top \in Frames /\ Callers = <<>>
<1>1. stack \in Seq(Frames)
  BY DEF Shape, TypeOK
<1>2. /\ Len(stack) \in Nat \ {0}
      /\ Callers \in Seq(Frames) /\ Len(Callers) = Len(stack) - 1
  BY <1>1, PopFacts DEF Callers
<1>3. Len(stack) = 1
  BY <1>2 DEF Shape, NestInv
<1>4. Top = stack[1] /\ Top \in Frames
  BY <1>1, <1>3, ElementOfSeq DEF Top
<1>5. Callers = <<>>
  BY <1>2, <1>3, EmptySeq
<1>6. QED
  BY <1>3, <1>4, <1>5

\* A frame that is put on an empty stack.
LEMMA FrameFacts ==
  ASSUME NEW f \in Frames
  PROVE  Append(<<>>, f) = <<f>> /\ <<f>> \in Seq(Frames) /\ Len(<<f>>) = 1 /\ <<f>>[1] = f
  BY AppendToEmpty

LEMMA SettleFacts ==
  ASSUME TypeOK, NEW e \in Endpoints(MaxInbox), Settle(e)
  PROVE  Changes(e)
<1>1. CASE poll \cap Ready(e) = {}
  BY <1>1 DEF Settle, Changes
<1>2. CASE poll \cap Ready(e) # {}
  BY <1>2 DEF Settle, Changes, Completes
<1>3. QED
  BY <1>1, <1>2

LEMMA SubmitFacts ==
  ASSUME NEW interest, NEW e, NEW state,
         Submit(interest, e, state, <<>>),
         s = "open", UNCHANGED <<s, alive, orphaned, calls, threw>>,
         connection_state' = state, events' = interest
  PROVE  Submits(interest, e, state)
<1> DEFINE ready == interest \cap Ready(e)
           frame == Frame("poll", "none", Raised(state, ready))
<1>1. frame \in Frames
  BY RaisedFacts DEF Frame, Frames
<1>2. Append(<<>>, frame) = <<frame>>
  BY <1>1, FrameFacts
<1>3. out' = ready
  BY DEF Submit
<1>4. CASE ready = {}
  BY <1>3, <1>4 DEF Submit, Submits
<1>5. CASE ready # {}
  <2>1. stack' = Append(<<>>, frame)
    BY <1>5 DEF Submit
  <2>2. stack' = <<Frame("poll", "none", Raised(state, out'))>>
    BY <1>2, <1>3, <2>1
  <2>3. QED
    BY <1>3, <1>5, <2>2 DEF Submit, Submits
<1>6. QED
  BY <1>4, <1>5

LEMMA NextCallbackFacts ==
  ASSUME Shape, NextCallback
  PROVE  LET c == First(Top.todo) IN
         /\ stack # <<>> /\ Top \in Frames
         /\ c \in Top.todo /\ c \in Callbacks
         /\ Frame(Top.by, c, Top.todo \ {c}) \in Frames
         /\ stack' = <<Frame(Top.by, c, Top.todo \ {c})>>
         /\ stack' # <<>> /\ Len(stack') = 1
         /\ Top'.by = Top.by /\ Top'.run = c /\ Top'.todo = Top.todo \ {c}
<1> DEFINE c == First(Top.todo)
           frame == Frame(Top.by, c, Top.todo \ {c})
<1>1. stack # <<>> /\ Top.todo # {} /\ stack' = Append(Callers, frame)
  BY DEF NextCallback
<1>2. Top \in Frames /\ Callers = <<>>
  BY <1>1, TopFacts
<1>3. Top.todo \in SUBSET Callbacks /\ Top.by \in {"poll", "close"}
  BY <1>2 DEF Frames
<1>4. c \in Top.todo
  BY <1>1, <1>3, FirstFacts
<1>5. frame \in Frames
  BY <1>3, <1>4 DEF Frame, Frames
<1>6. stack' = <<frame>> /\ Len(stack') = 1 /\ stack'[1] = frame
  BY <1>1, <1>2, <1>5, FrameFacts
<1>7. stack' # <<>>
  BY <1>6
<1>8. Top' = frame
  BY <1>6 DEF Top
<1>9. frame.by = Top.by /\ frame.run = c /\ frame.todo = Top.todo \ {c}
  BY DEF Frame
<1>10. QED
  BY <1>1, <1>2, <1>3, <1>4, <1>5, <1>6, <1>7, <1>8, <1>9

\* What read() and write() do when there is not enough.
LEMMA WantFacts ==
  ASSUME Shape, Connected, NEW event \in {"RECEIVE", "SEND"},
         NEW e \in Endpoints(MaxInbox), e.link = "closed" <=> net.link = "closed",
         Want(event, e)
  PROVE  Drifts \/ PollsMore
<1> USE DEF history
<1>1. /\ alive /\ s = "open" /\ connection_state = "connected"
      /\ strayed' = (strayed \/ (stack = <<>> /\ connection_state # "created"))
  BY DEF Connected, Calls
<1>2. CASE event \in events \/ handling_events
  <2>1. Settle(e) /\ UNCHANGED <<stack, handling_events>>
        /\ events' = events \cup {event}
        /\ UNCHANGED <<s, connection_state, shut, alive, orphaned, calls, threw>>
    BY <1>2 DEF Want
  <2>2. Changes(e)
    BY <2>1, SettleFacts DEF Shape
  <2>3. events' = events \/ handling_events
    BY <1>2, <2>1
  <2>4. strayed => strayed'
    BY <1>1
  <2>5. Drifts
    BY <1>1, <2>1, <2>2, <2>3, <2>4 DEF Drifts
  <2>6. QED
    BY <2>5
<1>3. CASE ~(event \in events \/ handling_events)
  <2>1. /\ Outstanding < MaxPackets
        /\ events' = events \cup {event}
        /\ Submit(events', e, connection_state, stack)
        /\ UNCHANGED <<s, connection_state, shut, alive, orphaned, calls, threw>>
    BY <1>3 DEF Want
  <2>2. stack = <<>>
    BY <1>1, <1>3 DEF Shape, NestInv
  <2>3. Submit(events \cup {event}, e, "connected", <<>>)
    BY <1>1, <2>1, <2>2
  <2>4. Submits(events \cup {event}, e, "connected")
    BY <1>1, <2>1, <2>3, SubmitFacts
  <2>5. strayed'
    BY <1>1, <2>2
  <2>6. QED
    BY <1>1, <2>1, <2>2, <2>4, <2>5 DEF PollsMore
<1>4. QED
  BY <1>2, <1>3

\* What read() and write() do inside a callback: they do not poll at once.
LEMMA WantInsideFacts ==
  ASSUME Shape, Connected, stack # <<>>, NEW event \in {"RECEIVE", "SEND"},
         NEW e \in Endpoints(MaxInbox), Want(event, e)
  PROVE  /\ Changes(e) /\ net' = e /\ events' = events \cup {event}
         /\ UNCHANGED <<s, connection_state, handling_events, alive, orphaned, stack, calls>>
<1>1. s = "open" /\ handling_events
  BY DEF Connected, Shape, NestInv
<1>2. /\ Settle(e) /\ UNCHANGED <<s, connection_state, handling_events, alive, orphaned, stack, calls>>
      /\ events' = events \cup {event}
  BY <1>1 DEF Want
<1>3. Changes(e) /\ net' = e
  BY <1>2, SettleFacts DEF Shape, Changes, Completes
<1>4. QED
  BY <1>2, <1>3

\* What connect() and accepted() do.
LEMMA BeginFacts ==
  ASSUME Shape, Calls, NEW state \in Pending, NEW e \in Endpoints(MaxInbox),
         e.link = "closed" <=> net.link = "closed", Begin(state, e)
  PROVE  Begins
<1>1. connection_state = "created" /\ alive
  BY DEF Begin, Calls
<1>2. stack = <<>>
  <2>1. stack # <<>> => Top.run = "none"
    BY <1>1 DEF Shape, NestInv, Frame
  <2>2. QED
    BY <2>1 DEF Calls, InCallback
<1>3. s = "open"
  BY <1>1, <1>2 DEF Shape, NestInv, TypeOK
<1>4. /\ Submit(AllEvents, e, state, <<>>)
      /\ UNCHANGED <<s, alive, orphaned, calls, threw>>
      /\ connection_state' = state /\ events' = AllEvents
  BY <1>2 DEF Begin
<1>5. Submits(AllEvents, e, state)
  BY <1>3, <1>4, SubmitFacts
<1>6. strayed => strayed'
  BY DEF Calls
<1>7. QED
  BY <1>1, <1>2, <1>5, <1>6 DEF Begins

\* What the peer does never opens a closed socket, nor closes an open one.
LEMMA PeerFacts ==
  ASSUME Shape, Peer
  PROVE  Drifts
<1> USE DEF socket, history
<1>1. net \in Endpoints(MaxInbox) /\ TypeOK
  BY DEF Shape, TypeOK
<1>2. \E e \in Endpoints(MaxInbox) :
        (e.link = "closed" <=> net.link = "closed") /\ Network(e)
  <2>1. CASE PeerAccepts \/ PeerRefuses
    BY <1>1, <2>1, EndpointFacts DEF PeerAccepts, PeerRefuses, Links
  <2>2. CASE PeerSends
    <3>1. net.inbox < MaxInbox => net.inbox + 1 \in 0..MaxInbox
      BY <1>1, DirectAssumption DEF Endpoints
    <3>2. /\ net.inbox < MaxInbox => [net EXCEPT !.inbox = net.inbox + 1] \in Endpoints(MaxInbox)
          /\ [net EXCEPT !.inbox = net.inbox + 1].link = net.link
          /\ [net EXCEPT !.urgent = TRUE] \in Endpoints(MaxInbox)
          /\ [net EXCEPT !.urgent = TRUE].link = net.link
      BY <1>1, <3>1 DEF Endpoints
    <3>3. QED
      BY <2>2, <3>2 DEF PeerSends
  <2>3. CASE PeerShutsDown \/ PeerReads
    <3>1. /\ [net EXCEPT !.fin = TRUE] \in Endpoints(MaxInbox)
          /\ [net EXCEPT !.fin = TRUE].link = net.link
          /\ [net EXCEPT !.room = TRUE] \in Endpoints(MaxInbox)
          /\ [net EXCEPT !.room = TRUE].link = net.link
      BY <1>1 DEF Endpoints
    <3>2. QED
      BY <2>3, <3>1 DEF PeerShutsDown, PeerReads
  <2>4. CASE PeerAborts
    BY <1>1, <2>4, EndpointFacts DEF PeerAborts
  <2>5. QED
    BY <2>1, <2>2, <2>3, <2>4 DEF Peer
<1>3. PICK e \in Endpoints(MaxInbox) :
        (e.link = "closed" <=> net.link = "closed") /\ Network(e)
  BY <1>2
<1>4. Changes(e) /\ UNCHANGED <<socket, alive, orphaned, stack, history>>
  BY <1>1, <1>3, SettleFacts DEF Network
<1>5. QED
  BY <1>3, <1>4 DEF Drifts

\* When the last callback has returned, the socket polls again, or announces
\* that the connection is complete.
LEMMA HandledFacts ==
  ASSUME Shape, Handled
  PROVE  PollsAgain \/ Announces
<1> USE DEF socket, kernel, history
<1>1. /\ Finishing
      /\ connection_state' = StateAfter(Top.run, connection_state)
      /\ UNCHANGED <<s, events, shut, alive, orphaned, strayed, threw>>
  BY DEF Handled, Finishing
<1>2. events # {} /\ Callers = <<>>
  BY <1>1, TopFacts DEF Shape, NestInv, Finishing
<1>3. CASE s = "open"
  <2>1. Submit(events, net, StateAfter(Top.run, connection_state), <<>>)
        /\ UNCHANGED calls
    BY <1>2, <1>3 DEF Handled
  <2>2. Submits(events, net, StateAfter(Top.run, connection_state))
    BY <1>1, <1>3, <2>1, SubmitFacts
  <2>3. QED
    BY <1>1, <2>2 DEF PollsAgain
<1>4. CASE s = "invalid"
  <2>1. /\ stack' = Append(<<>>, Frame("poll", "on_connection_complete", {}))
        /\ handling_events' = FALSE /\ UNCHANGED kernel
        /\ Count("on_connection_complete")
    BY <1>2, <1>4 DEF Handled
  <2>2. Frame("poll", "on_connection_complete", {}) \in Frames
    BY DEF Frame, Frames
  <2>3. stack' = <<Frame("poll", "on_connection_complete", {})>>
    BY <2>1, <2>2, FrameFacts
  <2>4. QED
    BY <1>1, <1>4, <2>1, <2>3 DEF Announces
<1>5. QED
  BY <1>3, <1>4 DEF Shape, TypeOK

\* Every step, in terms of what it does to the socket.
LEMMA StepCases ==
  ASSUME Shape, [Next]_vars
  PROVE  \/ Drifts \/ Begins \/ PollsMore \/ Close \/ Delete \/ Dispatch
         \/ NextCallback \/ PollsAgain \/ Announces \/ Ends
<1> USE DEF socket, kernel, history
<1>0. net \in Endpoints(MaxInbox) /\ TypeOK /\ NestInv
  BY DEF Shape, TypeOK
<1>1. CASE Connect
  <2>1. PICK link \in {"connecting", "up"} :
           Begin("pending_connect", [net EXCEPT !.link = link])
    BY <1>1 DEF Connect
  <2>2. Calls /\ net.link = "idle"
    BY <1>1 DEF Connect
  <2>3. /\ [net EXCEPT !.link = link] \in Endpoints(MaxInbox)
        /\ [net EXCEPT !.link = link].link = link
    <3>1. link \in Links
      BY DEF Links
    <3>2. QED
      BY <1>0, <3>1, EndpointFacts
  <2>4. "pending_connect" \in Pending
    BY DEF Pending
  <2>5. QED
    BY <2>1, <2>2, <2>3, <2>4, BeginFacts
<1>2. CASE Accepted
  <2>1. "pending_accept" \in Pending
    BY DEF Pending
  <2>2. QED
    BY <1>0, <1>2, <2>1, BeginFacts DEF Accepted
<1>3. CASE ReadSome
  <2>1. PICK n \in 1..net.inbox : net' = [net EXCEPT !.inbox = net.inbox - n]
    BY <1>3 DEF ReadSome
  <2>2. net.inbox - n \in 0..MaxInbox
    BY <1>0, DirectAssumption DEF Endpoints
  <2>3. net' \in Endpoints(MaxInbox) /\ net'.link = net.link
    BY <1>0, <2>1, <2>2 DEF Endpoints
  <2>4. Changes(net')
    BY <1>3 DEF ReadSome, Changes
  <2>5. UNCHANGED <<socket, alive, orphaned, stack, calls, threw>> /\ (strayed => strayed')
    BY <1>3 DEF ReadSome, Connected, Calls
  <2>6. QED
    BY <2>3, <2>4, <2>5 DEF Drifts
<1>4. CASE ReadNothing
  <2>1. Connected /\ Want("RECEIVE", net)
    BY <1>4 DEF ReadNothing
  <2>2. QED
    BY <1>0, <2>1, WantFacts
<1>5. CASE WriteAll
  <2>1. /\ [net EXCEPT !.room = FALSE] \in Endpoints(MaxInbox)
        /\ [net EXCEPT !.room = FALSE].link = net.link
    BY <1>0 DEF Endpoints
  <2>2. Changes([net EXCEPT !.room = FALSE])
    BY <1>0, <1>5, <2>1, SettleFacts DEF WriteAll
  <2>3. UNCHANGED <<socket, alive, orphaned, stack, calls, threw>> /\ (strayed => strayed')
    BY <1>5 DEF WriteAll, Connected, Calls
  <2>4. QED
    BY <2>1, <2>2, <2>3 DEF Drifts
<1>6. CASE WriteSome
  <2>1. /\ [net EXCEPT !.room = FALSE] \in Endpoints(MaxInbox)
        /\ [net EXCEPT !.room = FALSE].link = net.link
    BY <1>0 DEF Endpoints
  <2>2. PICK e \in Endpoints(MaxInbox) :
           Want("SEND", e) /\ (e.link = "closed" <=> net.link = "closed")
    BY <1>0, <1>6, <2>1 DEF WriteSome
  <2>3. QED
    BY <1>6, <2>2, WantFacts DEF WriteSome
<1>7. CASE Shutdown
  <2>1. UNCHANGED <<socket, kernel, alive, orphaned, stack, calls, threw>> /\ (strayed => strayed')
    BY <1>7 DEF Shutdown, Calls
  <2>2. Changes(net)
    BY <2>1 DEF Changes
  <2>3. QED
    BY <1>0, <2>1, <2>2 DEF Drifts
<1>8. CASE Handled
  BY <1>8, HandledFacts
<1>9. CASE Return
  <2>1. stack # <<>> /\ Callers = <<>>
    BY <1>9, TopFacts DEF Return
  <2>2. QED
    BY <1>9, <2>1 DEF Return, Ends, Announcing
<1>10. CASE Throw
  <2>1. stack # <<>> /\ Callers = <<>> /\ Top.run # "none"
    BY <1>10, TopFacts DEF Throw, InCallback
  <2>2. QED
    BY <1>10, <2>1 DEF Throw, Ends
<1>11. CASE UNCHANGED vars
  <2>1. Changes(net) /\ UNCHANGED <<socket, alive, orphaned, stack, calls, threw, strayed>>
    BY <1>11 DEF vars, Changes
  <2>2. QED
    BY <1>0, <2>1 DEF Drifts
<1>12. QED
  BY <1>1, <1>2, <1>3, <1>4, <1>5, <1>6, <1>7, <1>8, <1>9, <1>10, <1>11, PeerFacts
  DEF Next, Application, Thread

\* close() makes a call of its own only in a socket that has never begun.
LEMMA CloseFacts ==
  ASSUME Shape, Close
  PROVE  /\ s = "open" /\ s' = "invalid" /\ alive
         /\ strayed => strayed'
         /\ Changes(ClosedEndpoint)
         /\ UNCHANGED <<connection_state, events, handling_events, shut, alive, orphaned, calls, threw>>
         /\ events # {} => stack' = stack
         /\ events = {} =>
              /\ stack = <<>>
              /\ stack' = <<Frame("close", "none", {"on_disconnected"})>>
<1>1. /\ Settle(ClosedEndpoint) /\ Calls /\ s = "open"
      /\ UNCHANGED <<connection_state, events, handling_events, shut, alive, orphaned, calls, threw>>
      /\ s' = "invalid"
  BY DEF Close
<1>2. Changes(ClosedEndpoint)
  BY <1>1, SettleFacts, EndpointFacts DEF Shape
<1>3. alive /\ (strayed => strayed')
  BY <1>1 DEF Calls
<1>4. CASE events # {}
  BY <1>1, <1>2, <1>3, <1>4 DEF Close
<1>5. CASE events = {}
  <2>1. stack = <<>>
    <3>1. ASSUME stack # <<>> PROVE FALSE
      <4>1. Top \in Frames /\ Top.by \in {"poll", "close"}
        BY <3>1, TopFacts DEF Frames
      <4>2. QED
        BY <1>1, <1>5, <3>1, <4>1 DEF Shape, NestInv
    <3>2. QED
      BY <3>1
  <2>2. Frame("close", "none", {"on_disconnected"}) \in Frames
    BY DEF Frame, Frames, Callbacks
  <2>3. stack' = Append(<<>>, Frame("close", "none", {"on_disconnected"}))
    BY <1>5, <2>1 DEF Close
  <2>4. stack' = <<Frame("close", "none", {"on_disconnected"})>>
    BY <2>2, <2>3, FrameFacts
  <2>5. QED
    BY <1>1, <1>2, <1>3, <1>5, <2>1, <2>4
<1>6. QED
  BY <1>4, <1>5

LEMMA DeleteFacts ==
  ASSUME Shape, Delete
  PROVE  /\ alive /\ alive' = FALSE /\ s' = "invalid"
         /\ orphaned' = (Outstanding > 0)
         /\ stack = <<>> \/ Announcing
         /\ strayed' = (strayed \/ (stack = <<>> /\ connection_state # "created"))
         /\ Changes(ClosedEndpoint)
         /\ UNCHANGED <<connection_state, events, handling_events, shut, stack, calls, threw>>
<1>1. Settle(ClosedEndpoint)
  BY DEF Delete
<1>2. Changes(ClosedEndpoint)
  BY <1>1, SettleFacts, EndpointFacts DEF Shape
<1>3. QED
  BY <1>2 DEF Delete, Calls

\* What a poll that was submitted leaves on the stack.
LEMMA SubmitsFacts ==
  ASSUME NEW interest, NEW e, NEW state, Submits(interest, e, state)
  PROVE  /\ stack' \in Seq(Frames) /\ Len(stack') \in 0..1
         /\ out' = {} => stack' = <<>> /\ poll' = interest
         /\ out' # {} =>
              /\ stack' # <<>> /\ poll' = {} /\ handling_events' = TRUE
              /\ Top' = Frame("poll", "none", Raised(state, out'))
<1> DEFINE frame == Frame("poll", "none", Raised(state, out'))
<1>1. frame \in Frames
  BY RaisedFacts DEF Frame, Frames
<1>2. CASE out' = {}
  <2>1. stack' = <<>> /\ poll' = interest
    BY <1>2 DEF Submits
  <2>2. stack' \in Seq(Frames) /\ Len(stack') = 0
    BY <2>1, EmptySeq
  <2>3. QED
    BY <1>2, <2>1, <2>2
<1>3. CASE out' # {}
  <2>1. stack' = <<frame>> /\ poll' = {} /\ handling_events' = TRUE
    BY <1>3 DEF Submits
  <2>2. stack' \in Seq(Frames) /\ Len(stack') = 1 /\ stack'[1] = frame
    BY <1>1, <2>1, FrameFacts
  <2> HIDE DEF frame
  <2>3. Top' = frame /\ stack' # <<>>
    BY <2>1, <2>2 DEF Top
  <2>4. QED
    BY <1>3, <2>1, <2>2, <2>3 DEF frame
<1>4. QED
  BY <1>2, <1>3

\* A packet is handled if the output says something, which it may also be
\* found not to do once the socket is deleted.
LEMMA DispatchFacts ==
  ASSUME Shape, Dispatch
  PROVE  /\ stack = <<>> /\ packets > 0 /\ packets' = packets - 1
         /\ UNCHANGED <<s, connection_state, events, net, poll, out, shut, alive, orphaned, history>>
         /\ stack' \in Seq(Frames) /\ Len(stack') \in 0..1
         /\ \/ /\ out # {} /\ stack' # <<>> /\ handling_events' = TRUE
               /\ Top' = Frame("poll", "none", Raised(connection_state, out))
            \/ /\ out = {} \/ ~alive
               /\ UNCHANGED <<stack, handling_events>>
<1> DEFINE frame == Frame("poll", "none", Raised(connection_state, out))
<1>1. frame \in Frames
  BY RaisedFacts DEF Frame, Frames
<1>2. /\ stack = <<>> /\ packets > 0 /\ packets' = packets - 1
      /\ UNCHANGED <<s, connection_state, events, net, poll, out, shut, alive, orphaned, history>>
  BY DEF Dispatch
<1>3. CASE out # {} /\ stack' = <<frame>> /\ handling_events' = TRUE
  <2>1. stack' \in Seq(Frames) /\ Len(stack') = 1 /\ stack'[1] = frame
    BY <1>1, <1>3, FrameFacts
  <2> HIDE DEF frame
  <2>2. Top' = frame /\ stack' # <<>>
    BY <1>3, <2>1 DEF Top
  <2>3. QED
    BY <1>2, <1>3, <2>1, <2>2 DEF frame
<1>4. CASE (out = {} \/ ~alive) /\ UNCHANGED <<stack, handling_events>>
  <2>1. stack' = <<>>
    BY <1>2, <1>4
  <2>2. <<>> \in Seq(Frames) /\ Len(<<>>) = 0
    BY EmptySeq
  <2>3. QED
    BY <1>2, <1>4, <2>1, <2>2
<1>5. QED
  BY <1>3, <1>4 DEF Dispatch

\* Clearing what a callback was told of never clears the accept bit.
LEMMA ClearedFacts ==
  \A c \in Callbacks : Cleared[c] \subseteq Events /\ "ACCEPT" \notin Cleared[c]
  BY DEF Callbacks, Cleared, Events

LEMMA StateFacts ==
  ASSUME NEW state \in ConnectionStates, NEW run
  PROVE  /\ StateAfter(run, state) \in {state, "client_closed"}
         /\ run # "on_client_close" => StateAfter(run, state) = state
         /\ \A c \in Callbacks :
              /\ StateFor(c, state) \in {state, "connected", "disconnected"}
              /\ StateFor(c, state) = "connected" => c = "on_connected" \/ state = "connected"
              /\ c \in {"on_connection_failed", "on_connection_reset", "on_disconnected"}
                   => StateFor(c, state) = "disconnected"
              /\ c = "on_connected" => StateFor(c, state) = "connected"
              /\ c \in {"on_writable", "on_readable", "on_readable_oob", "on_client_close"}
                   => StateFor(c, state) = state
<1>1. /\ StateAfter(run, state) \in {state, "client_closed"}
      /\ run # "on_client_close" => StateAfter(run, state) = state
  BY DEF StateAfter
<1>2. ASSUME NEW c \in Callbacks
      PROVE  /\ c \in {"on_connection_failed", "on_connection_reset", "on_disconnected"}
                   => StateFor(c, state) = "disconnected"
             /\ c = "on_connected" => StateFor(c, state) = "connected"
             /\ c \in {"on_writable", "on_readable", "on_readable_oob", "on_client_close"}
                  => StateFor(c, state) = state
  BY DEF StateFor
<1>3. \A c \in Callbacks :
         c \in {"on_connection_failed", "on_connection_reset", "on_disconnected",
                "on_connected", "on_writable", "on_readable", "on_readable_oob",
                "on_client_close"}
  BY DEF Callbacks
<1>4. QED
  BY <1>1, <1>2, <1>3

----------------------------------------------------------------------------
(* Callbacks do not nest                                                   *)

LEMMA SubmitsNestInv ==
  ASSUME Shape, alive, NEW interest, NEW e, NEW state,
         Submits(interest, e, state), "ACCEPT" \in interest, state # "created"
  PROVE  NestInv'
<1>1. /\ s = "open" /\ s' = "open" /\ alive'
      /\ connection_state' = state /\ events' = interest
  BY DEF Submits
<1>2. Len(stack') \in 0..1
  BY SubmitsFacts
<1>3. stack' # <<>> =>
        Top' = Frame("poll", "none", Raised(state, out')) /\ handling_events' = TRUE
  BY SubmitsFacts
<1>4. stack' # <<>> => Top'.by = "poll" /\ Top'.run = "none"
  BY <1>3 DEF Frame
<1>5. QED
  BY <1>1, <1>2, <1>3, <1>4 DEF NestInv

LEMMA NextNestInv ==
  ASSUME Shape, [Next]_vars
  PROVE  NestInv'
<1> USE DEF socket, kernel, history
<1>0. /\ TypeOK /\ NestInv
      /\ s \in {"open", "invalid"} /\ connection_state \in ConnectionStates
      /\ packets \in Nat
  BY DEF Shape, TypeOK
<1>a. stack # <<>> => Top.by \in {"poll", "close"}
  BY TopFacts DEF Frames
<1>1. CASE Drifts
  <2>1. UNCHANGED <<s, connection_state, handling_events, alive, orphaned, stack>>
    BY <1>1 DEF Drifts
  <2>2. Top' = Top
    BY <2>1 DEF Top
  <2>3. /\ events # {} <=> events' # {}
        /\ "ACCEPT" \in events => "ACCEPT" \in events'
    BY <1>0, <1>1 DEF Drifts, NestInv
  <2>4. poll = {} => UNCHANGED <<poll, packets, out>>
    BY <1>1 DEF Drifts, Changes, Completes
  <2>5. QED
    BY <1>0, <2>1, <2>2, <2>3, <2>4 DEF NestInv
<1>2. CASE Begins
  <2>1. PICK state \in Pending, e \in Endpoints(MaxInbox) : Submits(AllEvents, e, state)
    BY <1>2 DEF Begins
  <2>2. "ACCEPT" \in AllEvents /\ state # "created"
    BY DEF AllEvents, Events, Pending
  <2>3. alive
    BY <1>0, <2>1 DEF NestInv, Submits
  <2>4. QED
    BY <2>1, <2>2, <2>3, SubmitsNestInv
<1>3. CASE PollsMore
  <2>1. PICK event \in {"RECEIVE", "SEND"}, e \in Endpoints(MaxInbox) :
           Submits(events \cup {event}, e, "connected")
    BY <1>3 DEF PollsMore
  <2>2. "ACCEPT" \in events \cup {event} /\ alive
    BY <1>0, <1>3, <2>1 DEF PollsMore, NestInv, Submits
  <2>3. QED
    BY <2>1, <2>2, SubmitsNestInv
<1>4. CASE Close
  <2>1. /\ s = "open" /\ s' = "invalid" /\ alive /\ alive'
        /\ UNCHANGED <<connection_state, events, handling_events>>
        /\ Changes(ClosedEndpoint)
    BY <1>4, CloseFacts
  <2>2. poll = {} => UNCHANGED <<poll, packets, out>>
    BY <2>1 DEF Changes, Completes
  <2>3. CASE events # {}
    <3>1. stack' = stack /\ connection_state # "created"
      BY <1>0, <1>4, <2>3, CloseFacts DEF NestInv
    <3>2. Top' = Top
      BY <3>1 DEF Top
    <3>3. QED
      BY <1>0, <2>1, <2>3, <3>1, <3>2 DEF NestInv
  <2>4. CASE events = {}
    <3>1. stack' = <<Frame("close", "none", {"on_disconnected"})>>
      BY <1>4, <2>4, CloseFacts
    <3>2. /\ Len(stack') = 1 /\ stack' # <<>>
          /\ Top' = Frame("close", "none", {"on_disconnected"})
      BY <3>1 DEF Top
    <3>3. Top'.by = "close" /\ Top'.run = "none" /\ Top'.todo = {"on_disconnected"}
      BY <3>2 DEF Frame
    <3>4. QED
      BY <1>0, <2>1, <2>2, <2>4, <3>2, <3>3 DEF NestInv
  <2>5. QED
    BY <2>3, <2>4
<1>5. CASE Delete
  <2>1. /\ alive' = FALSE /\ s' = "invalid" /\ (stack = <<>> \/ Announcing)
        /\ UNCHANGED <<connection_state, events, handling_events, stack>>
        /\ Changes(ClosedEndpoint) /\ orphaned' = (Outstanding > 0)
    BY <1>5, DeleteFacts
  <2>2. Top' = Top
    BY <2>1 DEF Top
  <2>3. poll = {} => UNCHANGED <<poll, packets, out>>
    BY <2>1 DEF Changes, Completes
  <2>4. ~orphaned' => poll' = {} /\ packets' = 0
    <3>1. ~(Outstanding > 0) => poll = {} /\ packets = 0
      BY <1>0 DEF Outstanding
    <3>2. QED
      BY <2>1, <2>3, <3>1
  <2>5. QED
    BY <1>0, <2>1, <2>2, <2>3, <2>4 DEF NestInv, Announcing
<1>6. CASE Dispatch
  <2>1. /\ stack = <<>> /\ packets > 0
        /\ UNCHANGED <<s, connection_state, events, poll, out, alive, orphaned>>
        /\ Len(stack') \in 0..1
        /\ \/ /\ stack' # <<>> /\ handling_events' = TRUE
              /\ Top' = Frame("poll", "none", Raised(connection_state, out))
           \/ UNCHANGED <<stack, handling_events>>
    BY <1>6, DispatchFacts
  <2>2. events # {} /\ connection_state # "created" /\ (alive \/ orphaned)
    BY <1>0, <2>1 DEF NestInv
  <2>3. CASE /\ stack' # <<>> /\ handling_events' = TRUE
             /\ Top' = Frame("poll", "none", Raised(connection_state, out))
    <3>1. Top'.by = "poll" /\ Top'.run = "none"
      BY <2>3 DEF Frame
    <3>2. QED
      BY <1>0, <2>1, <2>2, <2>3, <3>1 DEF NestInv
  <2>4. CASE UNCHANGED <<stack, handling_events>>
    BY <1>0, <2>1, <2>2, <2>4 DEF NestInv
  <2>5. QED
    BY <2>1, <2>3, <2>4
<1>7. CASE NextCallback
  <2> DEFINE c == First(Top.todo)
  <2>1. /\ stack # <<>> /\ c \in Top.todo /\ c \in Callbacks
        /\ stack' # <<>> /\ Len(stack') = 1
        /\ Top'.by = Top.by /\ Top'.run = c /\ Top'.todo = Top.todo \ {c}
    BY <1>7, NextCallbackFacts
  <2>2. /\ connection_state' = StateFor(c, StateAfter(Top.run, connection_state))
        /\ events' = events \ Cleared[c]
        /\ UNCHANGED <<s, handling_events, poll, packets, out, alive, orphaned>>
    BY <1>7 DEF NextCallback
  <2> HIDE DEF c
  <2>3. "ACCEPT" \in events => "ACCEPT" \in events'
    BY <2>1, <2>2, ClearedFacts
  <2>4. c # "on_connection_complete"
    BY <2>1 DEF Callbacks
  <2>5. (alive \/ orphaned) /\ Top.run # "on_connection_complete"
    BY <1>0, <2>1 DEF NestInv
  <2>6. events = {} => events' = {}
    BY <2>2
  <2>7. StateAfter(Top.run, connection_state) \in ConnectionStates
    BY <1>0, StateFacts DEF ConnectionStates
  <2>8. connection_state = "created" => connection_state' = "disconnected"
    <3>1. ASSUME connection_state = "created" PROVE c = "on_disconnected"
      BY <1>0, <2>1, <3>1 DEF NestInv, Frame
    <3>2. QED
      BY <2>1, <2>2, <2>7, <3>1, StateFacts
  <2>9. connection_state' \in {"created", "pending_connect", "pending_accept", "connected"}
          => connection_state = connection_state' \/ c = "on_connected"
    <3>1. StateAfter(Top.run, connection_state) \in {connection_state, "client_closed"}
      BY <1>0, StateFacts
    <3>2. connection_state' \in {StateAfter(Top.run, connection_state),
                                 "connected", "disconnected"}
          /\ (connection_state' = "connected"
                => c = "on_connected" \/ StateAfter(Top.run, connection_state) = "connected")
      BY <2>1, <2>2, <2>7, StateFacts
    <3>3. QED
      BY <3>1, <3>2
  <2>10. c = "on_connected" => events # {} /\ connection_state' = "connected"
    <3>1. c = "on_connected" => Top.by # "close"
      BY <1>0, <2>1 DEF NestInv
    <3>2. c = "on_connected" => events # {}
      BY <1>0, <1>a, <2>1, <3>1 DEF NestInv
    <3>3. QED
      BY <2>1, <2>2, <2>7, <3>2, StateFacts
  <2>11. connection_state' # "created"
    BY <2>8, <2>9, <2>10
  <2>12. connection_state' \in {"pending_connect", "pending_accept", "connected"}
           => events # {}
    BY <1>0, <2>9, <2>10 DEF NestInv
  <2>13. events # {} => events' # {}
    BY <1>0, <2>3 DEF NestInv
  <2>14. QED
    BY <1>0, <2>1, <2>2, <2>3, <2>4, <2>5, <2>6, <2>11, <2>12, <2>13 DEF NestInv
<1>8. CASE PollsAgain
  <2>1. Finishing /\ Submits(events, net, StateAfter(Top.run, connection_state))
    BY <1>8 DEF PollsAgain
  <2>2. "ACCEPT" \in events /\ connection_state # "created" /\ alive
    BY <1>0, <2>1 DEF Finishing, NestInv, Frame, Submits
  <2>3. StateAfter(Top.run, connection_state) # "created"
    BY <1>0, <2>2, StateFacts
  <2>4. QED
    BY <2>1, <2>2, <2>3, SubmitsNestInv
<1>9. CASE Announces
  <2>1. /\ stack # <<>> /\ Top.by = "poll" /\ Top.run # "on_connection_complete"
        /\ s = "invalid"
        /\ connection_state' = StateAfter(Top.run, connection_state)
        /\ stack' = <<Frame("poll", "on_connection_complete", {})>>
        /\ UNCHANGED <<s, events, kernel, alive, orphaned>>
    BY <1>9 DEF Announces, Finishing
  <2>2. /\ Len(stack') = 1 /\ stack' # <<>>
        /\ Top' = Frame("poll", "on_connection_complete", {})
    BY <2>1 DEF Top
  <2>3. Top'.by = "poll" /\ Top'.run = "on_connection_complete" /\ Top'.todo = {}
    BY <2>2 DEF Frame
  <2>4. events # {} /\ connection_state # "created" /\ (alive \/ orphaned)
    BY <1>0, <2>1 DEF NestInv, Frame
  <2>5. connection_state' \in {connection_state, "client_closed"}
    BY <1>0, <2>1, StateFacts
  <2>6. QED
    BY <1>0, <2>1, <2>2, <2>3, <2>4, <2>5 DEF NestInv
<1>10. CASE Ends
  <2>1. /\ stack # <<>> /\ stack' = <<>> /\ (Top.todo = {} \/ Top.run # "none")
        /\ UNCHANGED <<socket, kernel, alive, orphaned>>
    BY <1>10 DEF Ends
  <2>2. connection_state # "created"
    <3>1. /\ Frame("close", "none", {"on_disconnected"}).todo # {}
          /\ Frame("close", "none", {"on_disconnected"}).run = "none"
      BY DEF Frame
    <3>2. QED
      BY <1>0, <2>1, <3>1 DEF NestInv
  <2>3. Len(stack') \in 0..1
    BY <2>1
  <2>4. QED
    BY <1>0, <2>1, <2>2, <2>3 DEF NestInv
<1>11. QED
  BY <1>1, <1>2, <1>3, <1>4, <1>5, <1>6, <1>7, <1>8, <1>9, <1>10, StepCases

----------------------------------------------------------------------------
(* How many polls there are                                                *)

\* The poll that handle_events will end with is counted while it is in
\* progress, in place of the one whose report it handles.
Credit ==
  IF stack # <<>> /\ Top.by = "poll" /\ Top.run # "on_connection_complete" THEN 1 ELSE 0

Load == Outstanding + Credit

LEMMA LoadFacts ==
  ASSUME Shape
  PROVE  /\ packets \in Nat /\ Outstanding \in Nat /\ Credit \in {0, 1} /\ Load \in Nat
         /\ packets <= Load /\ Outstanding <= Load
         /\ poll = {} => Outstanding = packets
         /\ poll # {} => Outstanding = packets + 1
<1>1. packets \in Nat
  BY DirectAssumption DEF Shape, TypeOK
<1>2. Outstanding \in Nat /\ packets <= Outstanding
      /\ (poll = {} => Outstanding = packets) /\ (poll # {} => Outstanding = packets + 1)
  BY <1>1 DEF Outstanding
<1>3. Credit \in {0, 1}
  BY DEF Credit
<1>4. QED
  BY <1>1, <1>2, <1>3 DEF Load

LEMMA ChangesLoad ==
  ASSUME Shape, NEW e, Changes(e)
  PROVE  Outstanding' = Outstanding
<1>1. packets \in Nat
  BY LoadFacts
<1>2. CASE Completes(e)
  <2>1. Outstanding = packets + 1
    BY <1>2, LoadFacts DEF Completes
  <2>2. Outstanding' = packets + 1
    <3>1. poll' = {} /\ packets' = packets + 1
      BY <1>2 DEF Completes
    <3>2. packets' \in Nat
      BY <1>1, <3>1
    <3>3. Outstanding' = packets'
      BY <3>1, <3>2 DEF Outstanding
    <3>4. QED
      BY <3>1, <3>3
  <2>3. QED
    BY <2>1, <2>2
<1>3. CASE UNCHANGED <<poll, packets, out>>
  BY <1>3 DEF Outstanding
<1>4. QED
  BY <1>2, <1>3 DEF Changes

LEMMA SubmitsLoad ==
  ASSUME Shape, NEW interest, interest # {}, NEW e, NEW state, Submits(interest, e, state)
  PROVE  Load' = Outstanding + 1
<1>1. Outstanding \in Nat /\ packets' = Outstanding
  BY LoadFacts DEF Submits
<1> DEFINE o == Outstanding
<1>2. o \in Nat /\ packets' = o
  BY <1>1
<1> HIDE DEF o
<1>3. CASE out' = {}
  <2>1. stack' = <<>> /\ poll' # {}
    BY <1>3, SubmitsFacts
  <2>2. Credit' = 0
    BY <2>1 DEF Credit
  <2>3. Outstanding' = o + 1
    BY <1>2, <2>1 DEF Outstanding
  <2>4. Load' = o + 1
    BY <1>2, <2>2, <2>3 DEF Load
  <2>5. QED
    BY <2>4 DEF o
<1>4. CASE out' # {}
  <2>0. stack' # <<>> /\ poll' = {} /\ Top' = Frame("poll", "none", Raised(state, out'))
    BY <1>4, SubmitsFacts
  <2>1. stack' # <<>> /\ poll' = {} /\ Top'.by = "poll" /\ Top'.run = "none"
    BY <2>0 DEF Frame
  <2>2. Credit' = 1
    BY <2>1 DEF Credit
  <2>3. Outstanding' = o
    BY <1>2, <2>1 DEF Outstanding
  <2>4. Load' = o + 1
    BY <1>2, <2>2, <2>3 DEF Load
  <2>5. QED
    BY <2>4 DEF o
<1>5. QED
  BY <1>3, <1>4

\* No step makes polls more numerous than the one that begins the connection
\* does, but those of an application that strays from its callbacks.
LEMMA LoadStep ==
  ASSUME Shape, [Next]_vars
  PROVE  /\ strayed => strayed'
         /\ \/ Load' \in Nat /\ Load' <= Load
            \/ connection_state = "created" /\ Load' = 1
            \/ strayed' /\ Load' \in Nat /\ Load' <= MaxPackets
<1> USE DEF socket, kernel, history
<1>0. /\ Outstanding \in Nat /\ Credit \in {0, 1} /\ Load = Outstanding + Credit
      /\ Load \in Nat
  BY LoadFacts DEF Load
<1>1. CASE Drifts
  <2>1. stack' = stack /\ Outstanding' = Outstanding /\ (strayed => strayed')
    BY <1>1, ChangesLoad DEF Drifts
  <2>2. Credit' = Credit
    BY <2>1 DEF Credit, Top
  <2>3. Load' = Load
    BY <2>1, <2>2 DEF Load
  <2>4. QED
    BY <1>0, <2>1, <2>3
<1>2. CASE Begins
  <2>1. PICK state \in Pending, e \in Endpoints(MaxInbox) : Submits(AllEvents, e, state)
    BY <1>2 DEF Begins
  <2>2. AllEvents # {}
    BY DEF AllEvents, Events
  <2>3. Outstanding = 0
    <3>1. poll = {} /\ packets = 0
      BY <1>2 DEF Begins, Shape, NestInv
    <3>2. QED
      BY <3>1, LoadFacts
  <2>4. Load' = 1
    BY <2>1, <2>2, <2>3, SubmitsLoad
  <2>5. QED
    BY <1>2, <2>4 DEF Begins
<1>3. CASE PollsMore
  <2>1. PICK event \in {"RECEIVE", "SEND"}, e \in Endpoints(MaxInbox) :
           Submits(events \cup {event}, e, "connected")
    BY <1>3 DEF PollsMore
  <2>2. Load' = Outstanding + 1
    BY <2>1, SubmitsLoad
  <2>3. strayed' /\ Outstanding < MaxPackets
    BY <1>3 DEF PollsMore
  <2> DEFINE o == Outstanding
  <2>4. o \in Nat /\ Load' = o + 1 /\ o < MaxPackets
    BY <1>0, <2>2, <2>3
  <2> HIDE DEF o
  <2>5. Load' \in Nat /\ Load' <= MaxPackets
    BY <2>4, DirectAssumption
  <2>6. QED
    BY <2>3, <2>5
<1>4. CASE Close
  <2>1. Outstanding' = Outstanding /\ (strayed => strayed')
    BY <1>4, CloseFacts, ChangesLoad
  <2>2. Credit' = Credit
    <3>1. CASE events # {}
      BY <1>4, <3>1, CloseFacts DEF Credit, Top
    <3>2. CASE events = {}
      <4>1. stack = <<>> /\ stack' = <<Frame("close", "none", {"on_disconnected"})>>
        BY <1>4, <3>2, CloseFacts
      <4>2. Top' = Frame("close", "none", {"on_disconnected"})
        BY <4>1 DEF Top
      <4>3. Top'.by = "close"
        BY <4>2 DEF Frame
      <4>4. Credit' = 0 /\ Credit = 0
        BY <4>1, <4>3 DEF Credit
      <4>5. QED
        BY <4>4
    <3>3. QED
      BY <3>1, <3>2
  <2>3. Load' = Load
    BY <2>1, <2>2 DEF Load
  <2>4. QED
    BY <1>0, <2>1, <2>3
<1>5. CASE Delete
  <2>1. stack' = stack /\ Outstanding' = Outstanding /\ (strayed => strayed')
    BY <1>5, DeleteFacts, ChangesLoad
  <2>2. Credit' = Credit
    BY <2>1 DEF Credit, Top
  <2>3. Load' = Load
    BY <2>1, <2>2 DEF Load
  <2>4. QED
    BY <1>0, <2>1, <2>3
<1>6. CASE Dispatch
  <2>1. stack = <<>> /\ packets > 0 /\ packets' = packets - 1 /\ UNCHANGED <<poll, strayed>>
    BY <1>6, DispatchFacts
  <2>2. Credit = 0 /\ Credit' \in {0, 1}
    BY <2>1 DEF Credit
  <2> DEFINE k == packets - 1
             extra == IF poll = {} THEN 0 ELSE 1
             credit == Credit'
  <2>3. /\ k \in Nat /\ extra \in {0, 1} /\ credit \in {0, 1}
        /\ Load = k + 1 + extra /\ Load' = k + extra + credit
    <3>1. packets \in Nat /\ packets = k + 1 /\ k \in Nat
      BY <2>1, LoadFacts
    <3>2. Outstanding = packets + extra /\ Outstanding' = k + extra
      BY <2>1 DEF Outstanding
    <3>3. QED
      BY <2>2, <3>1, <3>2 DEF Load
  <2> HIDE DEF k, extra, credit
  <2>4. k + extra + credit \in Nat /\ k + extra + credit <= k + 1 + extra
    BY <2>3
  <2>5. QED
    BY <2>1, <2>3, <2>4
<1>7. CASE NextCallback
  <2>1. /\ stack # <<>> /\ stack' # <<>> /\ Top'.by = Top.by
        /\ Top'.run \in Callbacks /\ Top.todo # {}
        /\ UNCHANGED <<poll, packets, strayed>>
    BY <1>7, NextCallbackFacts DEF NextCallback
  <2>2. Top'.run # "on_connection_complete" /\ Top.run # "on_connection_complete"
    BY <2>1 DEF Callbacks, Shape, NestInv
  <2>3. Credit' = Credit /\ Outstanding' = Outstanding
    BY <2>1, <2>2 DEF Credit, Outstanding
  <2>4. Load' = Load
    BY <2>3 DEF Load
  <2>5. QED
    BY <1>0, <2>1, <2>4
<1>8. CASE PollsAgain
  <2>1. Finishing /\ Submits(events, net, StateAfter(Top.run, connection_state))
        /\ UNCHANGED strayed
    BY <1>8 DEF PollsAgain
  <2>2. events # {} /\ Credit = 1
    BY <2>1 DEF Finishing, Credit, Shape, NestInv
  <2>3. Load' = Outstanding + 1
    BY <2>1, <2>2, SubmitsLoad
  <2>4. Load' = Load
    BY <2>2, <2>3 DEF Load
  <2>5. QED
    BY <1>0, <2>1, <2>4
<1>9. CASE Announces \/ Ends
  <2>1. UNCHANGED <<poll, packets, strayed>>
    BY <1>9 DEF Announces, Ends
  <2>2. Outstanding' = Outstanding
    BY <2>1 DEF Outstanding
  <2>3. Credit' = 0
    <3>1. CASE Announces
      <4>1. stack' = <<Frame("poll", "on_connection_complete", {})>>
        BY <3>1 DEF Announces
      <4>2. Top' = Frame("poll", "on_connection_complete", {})
        BY <4>1 DEF Top
      <4>3. Top'.run = "on_connection_complete"
        BY <4>2 DEF Frame
      <4>4. QED
        BY <4>3 DEF Credit
    <3>2. CASE Ends
      BY <3>2 DEF Ends, Credit
    <3>3. QED
      BY <1>9, <3>1, <3>2
  <2>4. Load' = Outstanding
    BY <1>0, <2>2, <2>3 DEF Load
  <2>5. QED
    BY <1>0, <2>1, <2>4, LoadFacts
<1>10. QED
  BY <1>1, <1>2, <1>3, <1>4, <1>5, <1>6, <1>7, <1>8, <1>9, StepCases

\* The bound on the polls, and what it is for an application that does not
\* stray.
LoadInv ==
  /\ Load \in Nat /\ Load <= MaxPackets
  /\ ~strayed => Load <= 1

LEMMA NextLoadInv ==
  ASSUME Shape, LoadInv, [Next]_vars
  PROVE  LoadInv'
<1>1. 1 <= MaxPackets /\ MaxPackets \in Nat /\ Load \in Nat /\ Load <= MaxPackets
  BY DirectAssumption DEF LoadInv
<1>2. strayed => strayed'
  BY LoadStep
<1>3. CASE Load' \in Nat /\ Load' <= Load
  BY <1>1, <1>2, <1>3 DEF LoadInv
<1>4. CASE connection_state = "created" /\ Load' = 1
  BY <1>1, <1>4 DEF LoadInv
<1>5. CASE strayed' /\ Load' \in Nat /\ Load' <= MaxPackets
  BY <1>5 DEF LoadInv
<1>6. QED
  BY <1>3, <1>4, <1>5, LoadStep

----------------------------------------------------------------------------
(* Type correctness                                                        *)

LEMMA HistoryTyped ==
  ASSUME TypeOK, [Next]_vars
  PROVE  /\ shut' \in SUBSET {"receive", "send"}
         /\ alive' \in BOOLEAN /\ orphaned' \in BOOLEAN
         /\ strayed' \in BOOLEAN /\ threw' \in BOOLEAN
<1> USE DEF socket, kernel, history, TypeOK
<1>1. CASE Connect \/ Accepted
  BY <1>1 DEF Connect, Accepted, Begin, Calls
<1>2. CASE ReadSome \/ ReadNothing \/ WriteAll \/ WriteSome
  BY <1>2 DEF ReadSome, ReadNothing, WriteAll, WriteSome, Want, Connected, Calls
<1>3. CASE Shutdown
  BY <1>3 DEF Shutdown, Calls
<1>4. CASE Close \/ Delete
  <2>1. Delete => orphaned' \in BOOLEAN
    <3>1. (Outstanding > 0) \in BOOLEAN
      OBVIOUS
    <3>2. Delete => orphaned' = (Outstanding > 0)
      BY DEF Delete
    <3> HIDE DEF TypeOK
    <3>3. QED
      BY <3>1, <3>2, Zenon
  <2>2. QED
    BY <1>4, <2>1 DEF Close, Delete, Calls
<1>5. CASE Dispatch \/ NextCallback \/ Handled \/ Return \/ Throw
  BY <1>5 DEF Dispatch, NextCallback, Handled, Return, Throw
<1>6. CASE Peer
  BY <1>6 DEF Peer, PeerAccepts, PeerRefuses, PeerSends, PeerShutsDown, PeerReads,
     PeerAborts, Network
<1>7. CASE UNCHANGED vars
  BY <1>7 DEF vars
<1>8. QED
  BY <1>1, <1>2, <1>3, <1>4, <1>5, <1>6, <1>7 DEF Next, Application, Thread

LEMMA CountFacts ==
  ASSUME NEW c, calls \in [Milestones -> 0..2], Count(c)
  PROVE  /\ calls' \in [Milestones -> 0..2]
         /\ \A m \in Milestones : m # c => calls'[m] = calls[m]
         /\ c \in Milestones => calls'[c] > 0
         /\ \A m \in Milestones : calls[m] > 0 => calls'[m] > 0
<1>1. \A m \in Milestones : calls[m] \in 0..2
  OBVIOUS
<1>2. calls' = [m \in Milestones |-> calls[m] + IF m = c /\ calls[m] < 2 THEN 1 ELSE 0]
  BY DEF Count
<1>3. \A m \in Milestones :
         calls[m] + (IF m = c /\ calls[m] < 2 THEN 1 ELSE 0) \in 0..2
  BY <1>1
<1>4. calls' \in [Milestones -> 0..2]
  BY <1>2, <1>3
<1>5. \A m \in Milestones :
         calls'[m] = calls[m] + IF m = c /\ calls[m] < 2 THEN 1 ELSE 0
  BY <1>2
<1>6. QED
  BY <1>1, <1>4, <1>5

LEMMA ChangesTyped ==
  ASSUME TypeOK, NEW e \in Endpoints(MaxInbox), Changes(e)
  PROVE  /\ net' \in Endpoints(MaxInbox) /\ poll' \in SUBSET Events /\ out' \in SUBSET Events
  BY DEF Changes, Completes, TypeOK

LEMMA NextTypeOK ==
  ASSUME Shape, LoadInv, [Next]_vars
  PROVE  TypeOK'
<1> USE DEF socket, kernel, history
<1>0. /\ TypeOK /\ NestInv /\ net \in Endpoints(MaxInbox)
      /\ events \in SUBSET Events /\ poll \in SUBSET Events /\ out \in SUBSET Events
      /\ connection_state \in ConnectionStates /\ handling_events \in BOOLEAN
      /\ calls \in [Milestones -> 0..2] /\ stack \in Seq(Frames)
      /\ s \in {"open", "invalid"}
  BY DEF Shape, TypeOK
<1>a. /\ shut' \in SUBSET {"receive", "send"}
      /\ alive' \in BOOLEAN /\ orphaned' \in BOOLEAN
      /\ strayed' \in BOOLEAN /\ threw' \in BOOLEAN
  BY <1>0, HistoryTyped
\* A packet is one of the polls that are counted.
<1>b. packets' \in 0..MaxPackets
  <2>1. LoadInv'
    BY NextLoadInv
  <2>2. packets' \in Nat
    <3>1. packets \in Nat /\ Outstanding \in Nat
      BY LoadFacts
    <3>2. CASE Dispatch
      BY <3>1, <3>2, DispatchFacts
    <3>3. CASE Drifts \/ Close \/ Delete
      <4>1. \E e \in Endpoints(MaxInbox) : Changes(e)
        BY <3>3, CloseFacts, DeleteFacts, EndpointFacts DEF Drifts
      <4>2. QED
        BY <3>1, <4>1 DEF Changes, Completes
    <3>4. CASE Begins \/ PollsMore \/ PollsAgain
      BY <3>1, <3>4 DEF Begins, PollsMore, PollsAgain, Submits
    <3>5. CASE NextCallback \/ Announces \/ Ends
      BY <3>1, <3>5 DEF NextCallback, Announces, Ends
    <3>6. QED
      BY <3>2, <3>3, <3>4, <3>5, StepCases
  <2> DEFINE k == packets'
             extra == IF poll' = {} THEN 0 ELSE 1
             credit == Credit'
  <2>3. k \in Nat /\ extra \in {0, 1} /\ credit \in {0, 1}
    BY <2>2 DEF Credit
  <2>4. k + extra + credit <= MaxPackets
    BY <2>1 DEF LoadInv, Load, Outstanding
  <2> HIDE DEF k, extra, credit
  <2>5. k \in 0..MaxPackets
    BY <2>3, <2>4, DirectAssumption
  <2>6. QED
    BY <2>5 DEF k
<1>c. ASSUME s' \in {"open", "invalid"}, connection_state' \in ConnectionStates,
             events' \in SUBSET Events, handling_events' \in BOOLEAN,
             net' \in Endpoints(MaxInbox), poll' \in SUBSET Events,
             out' \in SUBSET Events, stack' \in Seq(Frames),
             calls' \in [Milestones -> 0..2]
      PROVE  TypeOK'
  BY <1>a, <1>b, <1>c DEF TypeOK
<1>1. CASE Drifts
  <2>1. events' \in SUBSET Events
    BY <1>0, <1>1 DEF Drifts, Events
  <2>2. UNCHANGED <<s, connection_state, handling_events, stack, calls>>
    BY <1>1 DEF Drifts
  <2>3. \E e \in Endpoints(MaxInbox) : Changes(e)
    BY <1>1 DEF Drifts
  <2>4. QED
    BY <1>0, <1>c, <2>1, <2>2, <2>3, ChangesTyped
<1>2. ASSUME NEW interest \in SUBSET Events, NEW e \in Endpoints(MaxInbox),
             NEW state \in ConnectionStates, Submits(interest, e, state)
      PROVE  TypeOK'
  <2>1. /\ UNCHANGED <<s, calls>> /\ connection_state' = state /\ events' = interest
        /\ net' = e /\ out' = interest \cap Ready(e)
        /\ handling_events' \in BOOLEAN /\ poll' \in {{}, interest}
    BY <1>2 DEF Submits
  <2>2. stack' \in Seq(Frames)
    BY <1>2, SubmitsFacts
  <2>3. out' \in SUBSET Events /\ poll' \in SUBSET Events
    BY <2>1
  <2>4. QED
    BY <1>0, <1>c, <2>1, <2>2, <2>3
<1>3. CASE Begins
  BY <1>2, <1>3 DEF Begins, AllEvents, Pending, ConnectionStates
<1>4. CASE PollsMore
  <2>1. PICK event \in {"RECEIVE", "SEND"}, e \in Endpoints(MaxInbox) :
           Submits(events \cup {event}, e, "connected")
    BY <1>4 DEF PollsMore
  <2>2. events \cup {event} \in SUBSET Events /\ "connected" \in ConnectionStates
    BY <1>0 DEF Events, ConnectionStates
  <2>3. QED
    BY <1>2, <2>1, <2>2
<1>5. CASE Close
  <2>1. /\ s' = "invalid"
        /\ UNCHANGED <<connection_state, events, handling_events, calls>>
        /\ Changes(ClosedEndpoint)
    BY <1>5, CloseFacts
  <2>2. stack' \in Seq(Frames)
    <3>1. Frame("close", "none", {"on_disconnected"}) \in Frames
      BY DEF Frame, Frames, Callbacks
    <3>2. stack' = stack \/ stack' = <<Frame("close", "none", {"on_disconnected"})>>
      BY <1>5, CloseFacts
    <3>3. QED
      BY <1>0, <3>1, <3>2, FrameFacts
  <2>3. QED
    BY <1>0, <1>c, <2>1, <2>2, ChangesTyped, EndpointFacts
<1>6. CASE Delete
  <2>1. /\ s' = "invalid"
        /\ UNCHANGED <<connection_state, events, handling_events, stack, calls>>
        /\ Changes(ClosedEndpoint)
    BY <1>6, DeleteFacts
  <2>2. QED
    BY <1>0, <1>c, <2>1, ChangesTyped, EndpointFacts
<1>7. CASE Dispatch
  <2>1. handling_events' \in BOOLEAN
    BY <1>0, <1>7, DispatchFacts
  <2>2. QED
    BY <1>0, <1>7, <1>c, <2>1, DispatchFacts
<1>8. CASE NextCallback
  <2> DEFINE c == First(Top.todo)
  <2>1. /\ c \in Callbacks /\ stack' = <<Frame(Top.by, c, Top.todo \ {c})>>
        /\ Frame(Top.by, c, Top.todo \ {c}) \in Frames
    BY <1>8, NextCallbackFacts
  <2>2. /\ connection_state' = StateFor(c, StateAfter(Top.run, connection_state))
        /\ events' = events \ Cleared[c] /\ Count(c)
        /\ UNCHANGED <<s, handling_events, kernel>>
    BY <1>8 DEF NextCallback
  <2> HIDE DEF c
  <2>3. StateAfter(Top.run, connection_state) \in ConnectionStates
    BY <1>0, StateFacts DEF ConnectionStates
  <2>4. connection_state' \in ConnectionStates
    BY <2>1, <2>2, <2>3, StateFacts DEF ConnectionStates
  <2>5. stack' \in Seq(Frames)
    BY <2>1, FrameFacts
  <2>6. calls' \in [Milestones -> 0..2]
    BY <1>0, <2>2, CountFacts
  <2>7. QED
    BY <1>0, <1>c, <2>2, <2>4, <2>5, <2>6
<1>9. CASE PollsAgain
  <2>1. Submits(events, net, StateAfter(Top.run, connection_state))
    BY <1>9 DEF PollsAgain
  <2>2. StateAfter(Top.run, connection_state) \in ConnectionStates
    BY <1>0, StateFacts DEF ConnectionStates
  <2>3. QED
    BY <1>0, <1>2, <2>1, <2>2
<1>10. CASE Announces
  <2>1. /\ connection_state' = StateAfter(Top.run, connection_state)
        /\ stack' = <<Frame("poll", "on_connection_complete", {})>>
        /\ handling_events' = FALSE /\ Count("on_connection_complete")
        /\ UNCHANGED <<s, events, kernel>>
    BY <1>10 DEF Announces
  <2>2. connection_state' \in ConnectionStates
    BY <1>0, <2>1, StateFacts DEF ConnectionStates
  <2>3. Frame("poll", "on_connection_complete", {}) \in Frames
    BY DEF Frame, Frames
  <2>4. stack' \in Seq(Frames)
    BY <2>1, <2>3, FrameFacts
  <2>5. calls' \in [Milestones -> 0..2]
    BY <1>0, <2>1, CountFacts
  <2>6. QED
    BY <1>0, <1>c, <2>1, <2>2, <2>4, <2>5
<1>11. CASE Ends
  <2>1. stack' \in Seq(Frames)
    BY <1>11, EmptySeq DEF Ends
  <2>2. QED
    BY <1>0, <1>11, <1>c, <2>1 DEF Ends
<1>12. QED
  BY <1>1, <1>3, <1>4, <1>5, <1>6, <1>7, <1>8, <1>9, <1>10, <1>11, StepCases

Inv == Shape /\ LoadInv

LEMMA InitInv == Init => Inv
<1> SUFFICES ASSUME Init PROVE Inv
  OBVIOUS
<1>1. <<>> \in Seq(Frames) /\ stack = <<>> /\ Len(stack) = 0
  BY EmptySeq DEF Init
<1>2. net \in Endpoints(MaxInbox)
  <2>1. "up" \in Links
    BY DEF Links
  <2>2. net \in {NewEndpoint, [NewEndpoint EXCEPT !.link = "up"]}
    BY DEF Init
  <2>3. NewEndpoint \in Endpoints(MaxInbox)
    BY EndpointFacts
  <2>4. [NewEndpoint EXCEPT !.link = "up"] \in Endpoints(MaxInbox)
    BY <2>1, <2>3, EndpointFacts
  <2>5. QED
    BY <2>2, <2>3, <2>4
<1>3. /\ packets = 0 /\ poll = {} /\ 0 \in 0..MaxPackets
      /\ s = "open" /\ connection_state = "created" /\ events = {} /\ out = {}
      /\ alive = TRUE
  BY DirectAssumption DEF Init
<1>4. calls \in [Milestones -> 0..2]
  BY DEF Init
<1>5. TypeOK
  <2>1. /\ handling_events \in BOOLEAN /\ alive \in BOOLEAN /\ orphaned \in BOOLEAN
        /\ strayed \in BOOLEAN /\ threw \in BOOLEAN
    BY DEF Init
  <2>2. /\ s \in {"open", "invalid"} /\ connection_state \in ConnectionStates
        /\ events \in SUBSET Events /\ poll \in SUBSET Events /\ out \in SUBSET Events
        /\ packets \in 0..MaxPackets /\ shut \in SUBSET {"receive", "send"}
    BY <1>3 DEF Init, ConnectionStates
  <2>3. QED
    BY <1>1, <1>2, <1>4, <2>1, <2>2 DEF TypeOK
<1>6. NestInv
  BY <1>1, <1>3 DEF NestInv
<1>7. LoadInv
  <2>1. Outstanding = 0 /\ Credit = 0
    BY <1>1, <1>3 DEF Outstanding, Credit
  <2>2. Load = 0
    BY <2>1 DEF Load
  <2>3. QED
    BY <2>2, DirectAssumption DEF LoadInv
<1>8. QED
  BY <1>5, <1>6, <1>7 DEF Inv, Shape

LEMMA InvHolds == Spec => []Inv
<1>1. Inv /\ [Next]_vars => Inv'
  BY NextNestInv, NextLoadInv, NextTypeOK DEF Inv, Shape
<1>2. QED
  BY <1>1, InitInv, PTL DEF Spec

\* Every state of the socket that polls its own handle, of its poll and of
\* the callback in progress has the shape the code declares; although
\* handle_events polls without looking, the bound on packets holds.
THEOREM DirectTypeCorrect == Spec => []TypeOK
<1>1. Inv => TypeOK
  BY DEF Inv, Shape
<1>2. QED
  BY <1>1, InvHolds, PTL

\* No callback begins before the one in progress has returned, whatever the
\* application calls in it and although polls may complete inside its calls
\* (tcp_socket.cpp:200, 324-326).
THEOREM CallbacksNeverNest == Spec => []NeverNested
<1>1. Inv => NeverNested
  BY DEF Inv, Shape, NestInv, NeverNested
<1>2. QED
  BY <1>1, InvHolds, PTL

\* While the application stays in its callbacks no poll is ended by another
\* one (tcp_socket.cpp:182-202).
THEOREM OnePollWithinCallbacks == Spec => []OneOutstanding
<1>1. Inv => OneOutstanding
  <2> SUFFICES ASSUME Inv, ~strayed PROVE Outstanding <= 1
    BY DEF OneOutstanding
  <2>1. Load <= 1 /\ Outstanding <= Load /\ Load \in Nat /\ Outstanding \in Nat
    BY LoadFacts DEF Inv, LoadInv
  <2>2. QED
    BY <2>1
<1>2. QED
  BY <1>1, InvHolds, PTL

----------------------------------------------------------------------------
(* When the socket may be deleted                                          *)

\* The announcement takes the place of the poll that handle_events would end
\* with, and where there is one poll at most none is left.
LEMMA NextDeletedSafely ==
  ASSUME Inv, DeletedSafely, [Next]_vars
  PROVE  DeletedSafely'
<1> USE DEF kernel
<1>0. /\ Shape /\ NestInv /\ LoadInv
      /\ Outstanding \in Nat /\ packets \in Nat /\ Load = Outstanding + Credit
      /\ strayed => strayed'
  BY LoadFacts, LoadStep DEF Inv, Shape, Load
<1>1. SUFFICES ASSUME ~strayed', Announcing' \/ ~alive'
               PROVE  Outstanding' = 0
  BY DEF DeletedSafely
<1>2. ~strayed
  BY <1>0, <1>1
<1>3. Announcing \/ ~alive => Outstanding = 0
  BY <1>2 DEF DeletedSafely
<1>4. CASE Drifts
  <2>1. Outstanding' = Outstanding /\ UNCHANGED <<stack, alive, orphaned>>
    BY <1>0, <1>4, ChangesLoad DEF Drifts
  <2>2. Announcing' <=> Announcing
    BY <2>1 DEF Announcing, Top
  <2>3. QED
    BY <1>1, <1>3, <2>1, <2>2
<1>5. ASSUME NEW interest, NEW e, NEW state, Submits(interest, e, state), alive
      PROVE  FALSE
  <2>1. alive' /\ ~Announcing'
    <3>1. stack' = <<>> \/ Top' = Frame("poll", "none", Raised(state, out'))
      BY <1>5, SubmitsFacts
    <3>2. Frame("poll", "none", Raised(state, out')).run = "none"
      BY DEF Frame
    <3>3. QED
      BY <1>5, <3>1, <3>2 DEF Announcing, Submits
  <2>2. QED
    BY <1>1, <2>1
<1>6. CASE Begins \/ PollsMore \/ PollsAgain
  <2>1. PICK interest, e, state : Submits(interest, e, state)
    BY <1>6 DEF Begins, PollsMore, PollsAgain
  <2>2. alive
    BY <1>0, <2>1 DEF Submits, NestInv
  <2>3. QED
    BY <1>5, <2>1, <2>2
<1>7. CASE Close
  <2>1. s = "open" /\ alive /\ alive'
    BY <1>0, <1>7, CloseFacts
  <2>2. CASE stack' = stack
    <3>1. Announcing
      BY <1>1, <2>1, <2>2 DEF Announcing, Top
    <3>2. QED
      BY <1>0, <2>1, <3>1 DEF Announcing, NestInv
  <2>3. CASE stack' = <<Frame("close", "none", {"on_disconnected"})>>
    <3>1. Top' = Frame("close", "none", {"on_disconnected"})
      BY <2>3 DEF Top
    <3>2. Top'.run = "none"
      BY <3>1 DEF Frame
    <3>3. QED
      BY <1>1, <2>1, <3>2 DEF Announcing
  <2>4. QED
    BY <1>0, <1>7, <2>2, <2>3, CloseFacts
<1>8. CASE Delete
  <2>1. /\ stack = <<>> \/ Announcing
        /\ strayed' = (strayed \/ (stack = <<>> /\ connection_state # "created"))
        /\ Outstanding' = Outstanding
    BY <1>0, <1>8, DeleteFacts, ChangesLoad
  <2>2. CASE Announcing
    BY <1>3, <2>1, <2>2
  <2>3. CASE stack = <<>>
    <3>1. connection_state = "created"
      BY <1>1, <2>1, <2>3
    <3>2. poll = {} /\ packets = 0
      BY <1>0, <3>1 DEF NestInv
    <3>3. QED
      BY <1>0, <2>1, <3>2, LoadFacts
  <2>4. QED
    BY <2>1, <2>2, <2>3
<1>9. CASE Dispatch
  <2>1. stack = <<>> /\ packets > 0 /\ alive' = alive
    BY <1>0, <1>9, DispatchFacts
  <2>2. CASE alive
    <3>1. \/ stack' # <<>> /\ Top' = Frame("poll", "none", Raised(connection_state, out))
          \/ stack' = <<>>
      BY <1>0, <1>9, <2>1, DispatchFacts
    <3>2. Frame("poll", "none", Raised(connection_state, out)).run = "none"
      BY DEF Frame
    <3>3. QED
      BY <1>1, <2>1, <2>2, <3>1, <3>2 DEF Announcing
  <2>3. CASE ~alive
    <3>1. Outstanding = 0 /\ packets <= Outstanding
      BY <1>0, <1>3, <2>3, LoadFacts
    <3>2. QED
      BY <1>0, <2>1, <3>1
  <2>4. QED
    BY <2>2, <2>3
<1>10. CASE NextCallback
  <2>1. Top'.run \in Callbacks /\ UNCHANGED <<poll, packets, alive>>
    BY <1>0, <1>10, NextCallbackFacts DEF NextCallback
  <2>2. ~alive
    BY <1>1, <2>1 DEF Announcing, Callbacks
  <2>3. Outstanding' = Outstanding
    BY <2>1 DEF Outstanding
  <2>4. QED
    BY <1>3, <2>2, <2>3
<1>11. CASE Announces
  <2>1. Finishing /\ UNCHANGED <<poll, packets>>
    BY <1>11 DEF Announces
  <2>2. Credit = 1 /\ Load <= 1
    BY <1>0, <1>2, <2>1 DEF Finishing, Credit, LoadInv
  <2>3. Outstanding = 0
    BY <1>0, <2>2
  <2>4. Outstanding' = Outstanding
    BY <2>1 DEF Outstanding
  <2>5. QED
    BY <2>3, <2>4
<1>12. CASE Ends
  <2>1. stack' = <<>> /\ UNCHANGED <<poll, packets, alive, orphaned>>
    BY <1>12 DEF Ends
  <2>2. Outstanding' = Outstanding /\ ~alive
    BY <1>1, <2>1 DEF Outstanding, Announcing
  <2>3. QED
    BY <1>3, <2>2
<1>13. QED
  BY <1>0, <1>4, <1>6, <1>7, <1>8, <1>9, <1>10, <1>11, <1>12, StepCases

\* While the application stays in its callbacks, no packet points to the
\* socket when on_connection_complete says that it may be deleted, and none
\* does once it has been (echo_server.cpp:214-219).
THEOREM DeletionIsSafe == Spec => []DeletedSafely
<1>1. Init => DeletedSafely
  BY EmptySeq DEF Init, DeletedSafely, Announcing
<1>2. QED
  BY <1>1, NextDeletedSafely, InvHolds, PTL DEF Spec

----------------------------------------------------------------------------
(* Nothing that is wanted is forgotten                                     *)

\* Unless a callback has thrown, handling_events is set only while
\* handle_events will end with a poll.
WaitInv ==
  /\ ~threw /\ Credit = 0 => ~handling_events
  /\ NoForgottenWait

LEMMA SubmitsWaitInv ==
  ASSUME Shape, NEW interest, NEW e, NEW state, Submits(interest, e, state)
  PROVE  WaitInv'
<1>1. CASE out' = {}
  <2>1. stack' = <<>> /\ poll' = interest /\ events' = interest /\ handling_events' = FALSE
    BY <1>1 DEF Submits
  <2>2. QED
    BY <2>1 DEF WaitInv, NoForgottenWait
<1>2. CASE out' # {}
  <2>1. stack' # <<>> /\ Top' = Frame("poll", "none", Raised(state, out'))
    BY <1>2, SubmitsFacts
  <2>2. Top'.by = "poll" /\ Top'.run = "none"
    BY <2>1 DEF Frame
  <2>3. Credit' = 1
    BY <2>1, <2>2 DEF Credit
  <2>4. QED
    BY <2>1, <2>3 DEF WaitInv, NoForgottenWait
<1>3. QED
  BY <1>1, <1>2

LEMMA NextWaitInv ==
  ASSUME Shape, WaitInv, [Next]_vars
  PROVE  WaitInv'
<1> USE DEF socket, kernel, history
<1>0. /\ NestInv /\ packets \in Nat
      /\ threw \in BOOLEAN /\ handling_events \in BOOLEAN /\ alive \in BOOLEAN
  BY LoadFacts DEF Shape, TypeOK
<1>1. CASE Drifts
  <2>1. /\ UNCHANGED <<s, handling_events, alive, orphaned, stack, threw>>
        /\ events' = events \/ handling_events
        /\ \E e : Changes(e)
    BY <1>1 DEF Drifts
  <2>2. Credit' = Credit
    BY <2>1 DEF Credit, Top
  <2>3. stack = <<>> => Credit = 0
    BY DEF Credit
  <2>4. events \subseteq poll \/ (packets > 0 /\ out # {}) =>
          events \subseteq poll' \/ (packets' > 0 /\ out' # {})
    BY <1>0, <2>1 DEF Changes, Completes
  <2>5. QED
    BY <2>1, <2>2, <2>3, <2>4 DEF WaitInv, NoForgottenWait
<1>2. CASE Begins \/ PollsMore \/ PollsAgain
  BY <1>2, SubmitsWaitInv DEF Begins, PollsMore, PollsAgain
<1>3. CASE Close
  <2>1. s' = "invalid" /\ UNCHANGED <<handling_events, threw>>
    BY <1>3, CloseFacts
  <2>2. Credit = 0 \/ stack' = stack
    BY <1>3, CloseFacts DEF Credit
  <2>3. Credit' = 0 => Credit = 0
    BY <2>2 DEF Credit, Top
  <2>4. QED
    BY <2>1, <2>3 DEF WaitInv, NoForgottenWait
<1>4. CASE Delete
  <2>1. s' = "invalid" /\ UNCHANGED <<handling_events, threw, stack>>
    BY <1>4, DeleteFacts
  <2>2. Credit' = Credit
    BY <2>1 DEF Credit, Top
  <2>3. QED
    BY <2>1, <2>2 DEF WaitInv, NoForgottenWait
<1>5. CASE Dispatch
  <2>1. UNCHANGED <<s, events, poll, out, alive, orphaned, threw>> /\ stack = <<>>
    BY <1>5, DispatchFacts
  <2>2. CASE stack' # <<>> /\ Top' = Frame("poll", "none", Raised(connection_state, out))
    <3>1. stack' # <<>> /\ Top' = Frame("poll", "none", Raised(connection_state, out))
      BY <2>2
    <3>2. Top'.by = "poll" /\ Top'.run = "none"
      BY <3>1 DEF Frame
    <3>3. Credit' = 1
      BY <3>1, <3>2 DEF Credit
    <3>4. QED
      BY <3>1, <3>3 DEF WaitInv, NoForgottenWait
  <2>3. CASE (out = {} \/ ~alive) /\ UNCHANGED <<stack, handling_events>>
    <3>1. Credit' = Credit
      BY <2>3 DEF Credit, Top
    <3>2. QED
      BY <2>1, <2>3, <3>1 DEF WaitInv, NoForgottenWait
  <2>4. QED
    BY <1>5, <2>2, <2>3, DispatchFacts
<1>6. CASE NextCallback
  <2>1. /\ stack # <<>> /\ stack' # <<>> /\ Top'.by = Top.by
        /\ Top'.run \in Callbacks /\ Top.todo # {}
    BY <1>6, NextCallbackFacts DEF NextCallback
  <2>2. Top'.run # "on_connection_complete" /\ Top.run # "on_connection_complete"
    BY <1>0, <2>1 DEF Callbacks, NestInv
  <2>3. Credit' = Credit
    BY <2>1, <2>2 DEF Credit
  <2>4. UNCHANGED <<handling_events, threw>>
    BY <1>6 DEF NextCallback
  <2>5. QED
    BY <2>1, <2>3, <2>4 DEF WaitInv, NoForgottenWait
<1>7. CASE Announces
  <2>1. s' = "invalid" /\ handling_events' = FALSE
    BY <1>7 DEF Announces
  <2>2. QED
    BY <2>1 DEF WaitInv, NoForgottenWait
<1>8. CASE Ends
  <2>1. /\ stack # <<>> /\ UNCHANGED <<s, handling_events>>
        /\ threw' = TRUE \/ (UNCHANGED threw /\ (Top.by = "close" \/ Announcing))
    BY <1>8 DEF Ends
  <2>2. CASE threw' = TRUE
    BY <2>2 DEF WaitInv, NoForgottenWait
  <2>3. CASE UNCHANGED threw /\ (Top.by = "close" \/ Announcing)
    <3>1. s = "invalid" /\ Credit = 0
      BY <1>0, <2>1, <2>3 DEF NestInv, Announcing, Credit
    <3>2. QED
      BY <2>1, <2>3, <3>1 DEF WaitInv, NoForgottenWait
  <2>4. QED
    BY <2>1, <2>2, <2>3
<1>9. QED
  BY <1>1, <1>2, <1>3, <1>4, <1>5, <1>6, <1>7, <1>8, StepCases

\* Unless a callback has thrown, everything an open socket wants to be told
\* of is polled for when the thread is back in its loop, or a packet tells it
\* something (tcp_socket.cpp:274).
THEOREM DirectNoWaitForgotten == Spec => []NoForgottenWait
<1>1. Init => WaitInv
  BY DEF Init, WaitInv, NoForgottenWait
<1>2. Inv => Shape
  BY DEF Inv
<1>3. WaitInv => NoForgottenWait
  BY DEF WaitInv
<1>4. QED
  BY <1>1, <1>2, <1>3, NextWaitInv, InvHolds, PTL DEF Spec

----------------------------------------------------------------------------
(* What is told while the socket connects                                  *)

\* The outcomes of connecting.
Begun == {"on_connected", "on_connection_failed"}

\* What the poll of a connecting socket may report: the outcome, whatever
\* else there is; the close; or nothing the application is told of.
Outcome(ev) ==
  \/ ev \subseteq {"ACCEPT"} \/ ev = {"LOCAL_CLOSE"}
  \/ ev \cap {"CONNECT", "CONNECT_FAIL"} # {}

\* What is told of it: one outcome, whatever else there is, or the close.
TellsOutcome(todo) ==
  /\ "on_writable" \notin todo /\ ~(Begun \subseteq todo)
  /\ todo \in {{}, {"on_disconnected"}} \/ todo \cap Begun # {}

LEMMA RaisedOutcome ==
  ASSUME NEW state, NEW ev
  PROVE  /\ state \in Pending /\ Outcome(ev) => TellsOutcome(Raised(state, ev))
         /\ state \notin Pending => Raised(state, ev) \cap Begun = {}
<1>1. ev \subseteq {"ACCEPT"} => Raised(state, ev) = {}
  <2>1. ASSUME ev \subseteq {"ACCEPT"}, NEW c \in Raised(state, ev)
        PROVE  FALSE
    BY <2>1 DEF Raised, Callbacks
  <2>2. QED
    BY <2>1
<1>2. ~(Begun \subseteq Raised(state, ev))
  BY DEF Raised, Callbacks, Begun
<1>3. QED
  BY <1>1, <1>2, RaisedFacts DEF Outcome, TellsOutcome, Begun

LEMMA ReadyOutcome ==
  ASSUME NEW e \in Endpoints(MaxInbox)
  PROVE  /\ Outcome(AllEvents \cap Ready(e))
         /\ "LOCAL_CLOSE" \in Ready(e) => e.link = "closed"
<1>1. AllEvents \cap Ready(e) = Ready(e)
  BY ReadyFacts DEF AllEvents
<1>2. QED
  BY <1>1, ReadyFacts DEF Outcome

\* In a pending state the outcome is not told yet: the socket still wants
\* everything, its poll asks for that, and the next thing that is told is the
\* outcome or the close.  After that no outcome is told any more.
TellInv ==
  /\ net.link = "closed" <=> s = "invalid"
  /\ "LOCAL_CLOSE" \in out => s = "invalid"
  /\ connection_state \in Pending =>
       events = AllEvents /\ poll \in {{}, AllEvents} /\ Outcome(out)
  /\ connection_state \in Pending \cup {"created"} => calls["on_client_close"] = 0
  /\ stack # <<>> =>
       /\ "on_disconnected" \in Top.todo => s = "invalid"
       /\ connection_state \in Pending =>
            Top.run \in {"none", "on_connection_complete"} /\ TellsOutcome(Top.todo)
       /\ connection_state \notin Pending => Top.todo \cap Begun = {}
       /\ Top.run = "on_client_close" => calls["on_client_close"] > 0

LEMMA ChangesTell ==
  ASSUME TellInv, NEW e \in Endpoints(MaxInbox), Changes(e), UNCHANGED <<events, connection_state>>
  PROVE  /\ connection_state' \in Pending =>
              events' = AllEvents /\ poll' \in {{}, AllEvents} /\ Outcome(out')
         /\ "LOCAL_CLOSE" \in out' => "LOCAL_CLOSE" \in out \/ e.link = "closed"
         /\ net' = e
<1>1. CASE Completes(e)
  <2>1. /\ poll # {} /\ poll' = {} /\ out' = poll \cap Ready(e) /\ net' = e
    BY <1>1 DEF Completes
  <2>2. connection_state \in Pending => Outcome(out')
    BY <2>1, ReadyOutcome DEF TellInv
  <2>3. QED
    BY <2>1, <2>2, ReadyOutcome DEF TellInv
<1>2. CASE net' = e /\ UNCHANGED <<poll, packets, out>>
  BY <1>2 DEF TellInv
<1>3. QED
  BY <1>1, <1>2 DEF Changes

LEMMA SubmitsTell ==
  ASSUME Shape, TellInv, NEW interest, NEW e \in Endpoints(MaxInbox), NEW state,
         Submits(interest, e, state), e.link = "closed" <=> net.link = "closed",
         state \in Pending => interest = AllEvents /\ calls["on_client_close"] = 0,
         state # "created"
  PROVE  TellInv'
<1>1. /\ s = "open" /\ s' = "open" /\ calls' = calls /\ net' = e
      /\ connection_state' = state /\ events' = interest /\ out' = interest \cap Ready(e)
  BY DEF Submits
<1>2. e.link # "closed" /\ "LOCAL_CLOSE" \notin out'
  BY <1>1, ReadyOutcome DEF TellInv
<1>3. state \in Pending => Outcome(out')
  BY <1>1, ReadyOutcome
<1>4. poll' \in {{}, interest}
  BY DEF Submits
<1>5. CASE stack' = <<>>
  BY <1>1, <1>2, <1>3, <1>4, <1>5 DEF TellInv
<1>6. CASE stack' # <<>>
  <2>1. Top' = Frame("poll", "none", Raised(state, out'))
    BY <1>6, SubmitsFacts
  <2>2. Top'.run = "none" /\ Top'.todo = Raised(state, out')
    BY <2>1 DEF Frame
  <2>3. "on_disconnected" \notin Top'.todo
    BY <1>2, <2>2, RaisedFacts
  <2>4. /\ state \in Pending => TellsOutcome(Top'.todo)
        /\ state \notin Pending => Top'.todo \cap Begun = {}
    BY <1>3, <2>2, RaisedOutcome
  <2>5. QED
    BY <1>1, <1>2, <1>3, <1>4, <2>2, <2>3, <2>4 DEF TellInv
<1>7. QED
  BY <1>5, <1>6

\* The first callback of a call, in each state.
LEMMA FirstTold ==
  ASSUME Shape, TellInv, stack # <<>>, Top.todo # {}
  PROVE  LET c == First(Top.todo) IN
         /\ c \in Callbacks /\ c \in Top.todo
         /\ c = "on_disconnected" => s = "invalid"
         /\ connection_state \in Pending => c \in Begun \cup {"on_disconnected"}
         /\ connection_state = "created" => c = "on_disconnected"
         /\ connection_state \notin Pending => c \notin Begun
         /\ connection_state \in Pending => (Top.todo \ {c}) \cap Begun = {}
<1> DEFINE c == First(Top.todo)
<1>1. Top.todo \in SUBSET Callbacks
  BY TopFacts DEF Frames
<1>2. c \in Top.todo /\ (\A d \in Top.todo : Rank[d] = 0 => Rank[c] = 0)
  BY <1>1, FirstFacts
<1>3. connection_state = "created" => c = "on_disconnected"
  BY <1>2 DEF Shape, NestInv, Frame
<1>4. ASSUME connection_state \in Pending
      PROVE  /\ c \in Begun \cup {"on_disconnected"}
             /\ (Top.todo \ {c}) \cap Begun = {}
  <2>1. TellsOutcome(Top.todo)
    BY <1>4 DEF TellInv
  <2>2. CASE Top.todo \cap Begun # {}
    <3>1. \A d \in Callbacks : Rank[d] = 0 <=> d \in Begun \cup {"on_writable"}
      BY DEF Callbacks, Rank, Begun
    <3>2. c \in Begun
      BY <1>1, <1>2, <2>1, <2>2, <3>1 DEF TellsOutcome
    <3>3. QED
      BY <1>2, <2>1, <3>2 DEF TellsOutcome, Begun
  <2>3. CASE Top.todo = {"on_disconnected"}
    BY <1>2, <2>3 DEF Begun
  <2>4. QED
    BY <2>1, <2>2, <2>3 DEF TellsOutcome
<1>5. QED
  BY <1>1, <1>2, <1>3, <1>4 DEF TellInv

LEMMA NextTellInv ==
  ASSUME Shape, TellInv, [Next]_vars
  PROVE  TellInv'
<1> USE DEF socket, kernel, history
<1>0. /\ NestInv /\ net \in Endpoints(MaxInbox)
      /\ calls \in [Milestones -> 0..2] /\ calls["on_client_close"] \in 0..2
      /\ connection_state \in ConnectionStates /\ s \in {"open", "invalid"}
      /\ "on_client_close" \in Milestones /\ "on_client_close" # "on_connection_complete"
  BY DEF Shape, TypeOK, Milestones
<1>1. CASE Drifts
  <2>1. PICK e \in Endpoints(MaxInbox) : (e.link = "closed" <=> net.link = "closed") /\ Changes(e)
    BY <1>1 DEF Drifts
  <2>2. UNCHANGED <<s, connection_state, stack, calls>> /\ Top' = Top
    BY <1>1 DEF Drifts, Top
  <2>3. CASE events' = events
    <3>1. /\ connection_state' \in Pending =>
               events' = AllEvents /\ poll' \in {{}, AllEvents} /\ Outcome(out')
          /\ "LOCAL_CLOSE" \in out' => "LOCAL_CLOSE" \in out \/ e.link = "closed"
          /\ net' = e
      BY <2>1, <2>2, <2>3, ChangesTell
    <3>2. QED
      BY <2>1, <2>2, <3>1 DEF TellInv
  <2>4. CASE connection_state = "connected"
    <3>1. net' = e /\ ("LOCAL_CLOSE" \in out' => "LOCAL_CLOSE" \in out \/ e.link = "closed")
      BY <2>1, ReadyOutcome DEF Changes, Completes
    <3>2. "connected" \notin Pending
      BY DEF Pending
    <3>3. QED
      BY <2>1, <2>2, <2>4, <3>1, <3>2 DEF TellInv
  <2>5. QED
    BY <1>1, <2>3, <2>4 DEF Drifts
<1>2. CASE Begins
  <2>1. PICK state \in Pending, e \in Endpoints(MaxInbox) :
           (e.link = "closed" <=> net.link = "closed") /\ Submits(AllEvents, e, state)
    BY <1>2 DEF Begins
  <2>2. state # "created" /\ calls["on_client_close"] = 0
    BY <1>2 DEF Pending, Begins, TellInv
  <2>3. QED
    BY <2>1, <2>2, SubmitsTell
<1>3. CASE PollsMore
  <2>1. PICK event \in {"RECEIVE", "SEND"}, e \in Endpoints(MaxInbox) :
           (e.link = "closed" <=> net.link = "closed")
           /\ Submits(events \cup {event}, e, "connected")
    BY <1>3 DEF PollsMore
  <2>2. "connected" # "created" /\ "connected" \notin Pending
    BY DEF Pending
  <2>3. QED
    BY <2>1, <2>2, SubmitsTell
<1>4. CASE Close
  <2>1. /\ s = "open" /\ s' = "invalid" /\ Changes(ClosedEndpoint)
        /\ UNCHANGED <<connection_state, events, calls>>
        /\ ClosedEndpoint \in Endpoints(MaxInbox) /\ ClosedEndpoint.link = "closed"
    BY <1>4, CloseFacts, EndpointFacts
  <2>2. /\ connection_state' \in Pending =>
             events' = AllEvents /\ poll' \in {{}, AllEvents} /\ Outcome(out')
        /\ net' = ClosedEndpoint
    BY <2>1, ChangesTell
  <2>3. CASE stack' = stack
    <3>1. Top' = Top
      BY <2>3 DEF Top
    <3>2. QED
      BY <2>1, <2>2, <2>3, <3>1 DEF TellInv
  <2>4. CASE events = {} /\ stack' = <<Frame("close", "none", {"on_disconnected"})>>
    <3>1. Top' = Frame("close", "none", {"on_disconnected"})
      BY <2>4 DEF Top
    <3>2. Top'.run = "none" /\ Top'.todo = {"on_disconnected"}
      BY <3>1 DEF Frame
    <3>3. {"on_disconnected"} \cap Begun = {} /\ TellsOutcome({"on_disconnected"})
      BY DEF Begun, TellsOutcome
    <3>4. QED
      BY <2>1, <2>2, <3>2, <3>3 DEF TellInv
  <2>5. QED
    BY <1>4, <2>3, <2>4, CloseFacts
<1>5. CASE Delete
  <2>1. /\ s' = "invalid" /\ Changes(ClosedEndpoint)
        /\ UNCHANGED <<connection_state, events, calls, stack>>
        /\ ClosedEndpoint \in Endpoints(MaxInbox) /\ ClosedEndpoint.link = "closed"
    BY <1>5, DeleteFacts, EndpointFacts
  <2>2. /\ connection_state' \in Pending =>
             events' = AllEvents /\ poll' \in {{}, AllEvents} /\ Outcome(out')
        /\ net' = ClosedEndpoint
    BY <2>1, ChangesTell
  <2>3. Top' = Top
    BY <2>1 DEF Top
  <2>4. QED
    BY <2>1, <2>2, <2>3 DEF TellInv
<1>6. CASE Dispatch
  <2>1. UNCHANGED <<s, connection_state, events, net, poll, out, calls>> /\ stack = <<>>
    BY <1>6, DispatchFacts
  <2>2. CASE stack' = <<>>
    BY <2>1, <2>2 DEF TellInv
  <2>3. CASE stack' # <<>>
    <3>1. Top' = Frame("poll", "none", Raised(connection_state, out))
      BY <1>6, <2>1, <2>3, DispatchFacts
    <3>2. Top'.run = "none" /\ Top'.todo = Raised(connection_state, out)
      BY <3>1 DEF Frame
    <3>3. /\ "on_disconnected" \in Top'.todo => s = "invalid"
          /\ connection_state \in Pending => TellsOutcome(Top'.todo)
          /\ connection_state \notin Pending => Top'.todo \cap Begun = {}
      BY <3>2, RaisedFacts, RaisedOutcome DEF TellInv
    <3>4. QED
      BY <2>1, <3>2, <3>3 DEF TellInv
  <2>4. QED
    BY <2>2, <2>3
<1>7. CASE NextCallback
  <2> DEFINE c == First(Top.todo)
             state == StateAfter(Top.run, connection_state)
  <2>1. /\ stack # <<>> /\ c \in Top.todo /\ c \in Callbacks
        /\ stack' # <<>> /\ Top'.run = c /\ Top'.todo = Top.todo \ {c}
    BY <1>7, NextCallbackFacts
  <2>2. /\ connection_state' = StateFor(c, state)
        /\ UNCHANGED <<s, net, poll, out>> /\ Count(c)
    BY <1>7 DEF NextCallback
  <2>3. /\ connection_state \in Pending => c \in Begun \cup {"on_disconnected"}
        /\ connection_state = "created" => c = "on_disconnected"
    BY <2>1, FirstTold
  <2>4. /\ state \in ConnectionStates /\ state \in {connection_state, "client_closed"}
    BY <1>0, StateFacts DEF ConnectionStates
  <2> HIDE DEF c, state
  <2>5. connection_state' \notin Pending \cup {"created"}
    <3>1. /\ connection_state' \in {state, "connected", "disconnected"}
          /\ c \in {"on_connection_failed", "on_connection_reset", "on_disconnected"}
               => connection_state' = "disconnected"
          /\ c = "on_connected" => connection_state' = "connected"
      BY <2>1, <2>2, <2>4, StateFacts
    <3>2. connection_state \in Pending \cup {"created"} =>
            connection_state' \in {"connected", "disconnected"}
      BY <2>3, <3>1 DEF Begun
    <3>3. QED
      BY <2>4, <3>1, <3>2 DEF Pending
  <2>6. Top'.todo \cap Begun = {}
    <3>1. CASE connection_state \notin Pending
      BY <2>1, <3>1 DEF TellInv
    <3>2. CASE connection_state \in Pending
      BY <2>1, <3>2, FirstTold DEF c
    <3>3. QED
      BY <3>1, <3>2
  <2>7. Top'.run = "on_client_close" => calls'["on_client_close"] > 0
    BY <1>0, <2>1, <2>2, CountFacts
  <2>8. QED
    BY <2>1, <2>2, <2>5, <2>6, <2>7 DEF TellInv
<1>8. CASE PollsAgain
  <2>1. /\ Submits(events, net, StateAfter(Top.run, connection_state))
        /\ stack # <<>> /\ Top.by = "poll" /\ Top.run # "on_connection_complete"
    BY <1>8 DEF PollsAgain, Finishing
  <2>2. connection_state # "created"
    BY <1>0, <2>1 DEF NestInv, Frame
  <2>3. StateAfter(Top.run, connection_state) \in {connection_state, "client_closed"}
    BY <1>0, StateFacts
  <2>4. "client_closed" \notin Pending
    BY DEF Pending
  <2>5. StateAfter(Top.run, connection_state) \in Pending =>
          events = AllEvents /\ calls["on_client_close"] = 0
    BY <2>3, <2>4 DEF TellInv
  <2>6. StateAfter(Top.run, connection_state) # "created"
    BY <2>2, <2>3
  <2>7. QED
    BY <1>0, <2>1, <2>5, <2>6, SubmitsTell
<1>9. CASE Announces
  <2>1. /\ stack # <<>> /\ Top.by = "poll"
        /\ connection_state' = StateAfter(Top.run, connection_state)
        /\ stack' = <<Frame("poll", "on_connection_complete", {})>>
        /\ UNCHANGED <<s, events, kernel>> /\ Count("on_connection_complete")
    BY <1>9 DEF Announces, Finishing
  <2>2. Top' = Frame("poll", "on_connection_complete", {})
    BY <2>1 DEF Top
  <2>3. Top'.run = "on_connection_complete" /\ Top'.todo = {}
    BY <2>2 DEF Frame
  <2>4. connection_state' \in {connection_state, "client_closed"}
    BY <1>0, <2>1, StateFacts
  <2>5. "client_closed" \notin Pending \cup {"created"}
    BY DEF Pending
  <2>6. calls'["on_client_close"] = calls["on_client_close"]
    BY <1>0, <2>1, CountFacts
  <2>7. TellsOutcome({})
    BY DEF TellsOutcome, Begun
  <2>8. QED
    BY <2>1, <2>3, <2>4, <2>5, <2>6, <2>7 DEF TellInv
<1>10. CASE Ends
  <2>1. stack' = <<>> /\ UNCHANGED <<socket, kernel, calls>>
    BY <1>10 DEF Ends
  <2>2. QED
    BY <2>1 DEF TellInv
<1>11. QED
  BY <1>1, <1>2, <1>3, <1>4, <1>5, <1>6, <1>7, <1>8, <1>9, <1>10, StepCases

LEMMA TellInvHolds == Spec => []TellInv
<1>1. Init => TellInv
  <2> SUFFICES ASSUME Init PROVE TellInv
    OBVIOUS
  <2>1. net.link # "closed"
    BY EndpointFacts DEF Init, NewEndpoint
  <2>2. calls["on_client_close"] = 0
    BY DEF Init, Milestones
  <2>3. QED
    BY <2>1, <2>2 DEF Init, TellInv, Pending
<1>2. Inv => Shape
  BY DEF Inv
<1>3. QED
  BY <1>1, <1>2, NextTellInv, InvHolds, PTL DEF Spec

----------------------------------------------------------------------------
(* Step simulation                                                         *)

\* The callback in progress, as the abstract specification sees it.
Calling == IF stack = <<>> \/ Top.run = "none" THEN <<>> ELSE <<Top.run>>

LEMMA OneElement ==
  ASSUME NEW x, NEW y
  PROVE  /\ <<x>> # <<>>
         /\ [<<x>> EXCEPT ![Len(<<x>>)] = y] = <<y>>
         /\ SubSeq(<<x>>, 1, Len(<<x>>) - 1) = <<>>
<1>1. Len(<<x>>) = 1 /\ <<x>> # <<>>
  OBVIOUS
<1>2. [<<x>> EXCEPT ![1] = y] = <<y>>
  OBVIOUS
<1>3. SubSeq(<<x>>, 1, 0) = <<>>
  <2>1. <<x>> \in Seq({x}) /\ <<x>> # <<>>
    OBVIOUS
  <2>2. /\ SubSeq(<<x>>, 1, Len(<<x>>) - 1) \in Seq({x})
        /\ Len(SubSeq(<<x>>, 1, Len(<<x>>) - 1)) = Len(<<x>>) - 1
    BY <2>1, PopFacts
  <2>3. /\ SubSeq(<<x>>, 1, 0) \in Seq({x})
        /\ Len(SubSeq(<<x>>, 1, 0)) = 0
    BY <1>1, <2>2
  <2>4. QED
    BY <2>3, EmptySeq
<1>4. QED
  BY <1>1, <1>2, <1>3

\* handle_events makes a callback, as its first or after the one before.
LEMMA CallingNext ==
  ASSUME stack # <<>>, stack' # <<>>, Top'.run # "none"
  PROVE  \/ Calling = <<>> /\ Calling' = <<Top'.run>>
         \/ Calling # <<>> /\ Calling' = [Calling EXCEPT ![Len(Calling)] = Top'.run]
<1>1. Calling' = <<Top'.run>>
  BY DEF Calling
<1>2. CASE Top.run = "none"
  BY <1>1, <1>2 DEF Calling
<1>3. CASE Top.run # "none"
  <2>1. Calling = <<Top.run>>
    BY <1>3 DEF Calling
  <2>2. QED
    BY <1>1, <2>1, OneElement
<1>4. QED
  BY <1>2, <1>3

\* The last callback of a call returns or throws.
LEMMA CallingEnds ==
  ASSUME stack # <<>>, stack' = <<>> \/ Top'.run = "none"
  PROVE  \/ Calling' = Calling
         \/ Calling # <<>> /\ Calling' = SubSeq(Calling, 1, Len(Calling) - 1)
<1>1. Calling' = <<>>
  BY DEF Calling
<1>2. CASE Top.run = "none"
  BY <1>1, <1>2 DEF Calling
<1>3. CASE Top.run # "none"
  <2>1. Calling = <<Top.run>>
    BY <1>3 DEF Calling
  <2>2. QED
    BY <1>1, <2>1, OneElement
<1>4. QED
  BY <1>2, <1>3

LEMMA CallingHeld ==
  ASSUME UNCHANGED stack
  PROVE  Calling' = Calling
  BY DEF Calling, Top

\* The outcome of connecting is told while connecting, and before the peer's
\* close.
LEMMA PhaseFacts ==
  ASSUME Shape, TellInv
  PROVE  /\ Phase = "new" <=> connection_state = "created"
         /\ Phase = "connecting" <=> connection_state \in Pending
         /\ Phase = "open" <=> connection_state = "connected" /\ calls["on_client_close"] = 0
         /\ Phase \in {"new", "connecting", "open", "ended"}
  BY DEF Phase, Pending

\* When a callback has returned, the state that its return brings is no news
\* to the application.
LEMMA PhaseAfter ==
  ASSUME Shape, TellInv, stack # <<>>, connection_state # "created",
         connection_state' = StateAfter(Top.run, connection_state),
         calls'["on_client_close"] = calls["on_client_close"]
  PROVE  Phase' = Phase
<1>1. CASE Top.run # "on_client_close"
  <2>1. connection_state' = connection_state
    BY <1>1 DEF StateAfter
  <2>2. QED
    BY <2>1 DEF Phase
<1>2. CASE Top.run = "on_client_close"
  <2>1. connection_state' = "client_closed"
    BY <1>2 DEF StateAfter
  <2>2. connection_state \notin Pending /\ calls["on_client_close"] > 0
    BY <1>2 DEF TellInv
  <2>3. calls["on_client_close"] # 0
    BY <2>2
  <2>4. Phase = "ended"
    BY <2>2, <2>3 DEF Phase
  <2>5. Phase' = "ended"
    BY <2>1 DEF Phase, Pending
  <2>6. QED
    BY <2>4, <2>5
<1>3. QED
  BY <1>1, <1>2

\* A step that neither tells the application anything nor closes or deletes
\* the socket is no step of the abstract specification, or a return.
LEMMA QuietStep ==
  ASSUME UNCHANGED <<s, alive, orphaned>>, Phase' = Phase,
         \/ Calling' = Calling
         \/ Calling # <<>> /\ Calling' = SubSeq(Calling, 1, Len(Calling) - 1)
  PROVE  [Promise!Next]_(Promise!vars)
<1>1. CASE Calling' = Calling
  BY <1>1 DEF Promise!vars, Calling
<1>2. CASE Calling # <<>> /\ Calling' = SubSeq(Calling, 1, Len(Calling) - 1)
  <2>1. Promise!Return
    BY <1>2 DEF Promise!Return, Calling
  <2>2. QED
    BY <2>1 DEF Promise!Next
<1>3. QED
  BY <1>1, <1>2

\* The callbacks handle_events makes.
LEMMA NextCallbackStep ==
  ASSUME Shape, TellInv, TellInv', NextCallback, ~orphaned'
  PROVE  Promise!Next
<1> USE DEF socket, kernel, history
<1> DEFINE c == First(Top.todo)
           state == StateAfter(Top.run, connection_state)
<1>0. /\ calls \in [Milestones -> 0..2] /\ calls["on_client_close"] \in 0..2
      /\ connection_state \in ConnectionStates /\ NestInv
      /\ "on_client_close" \in Milestones
  BY DEF Shape, TypeOK, Milestones
<1>1. /\ stack # <<>> /\ stack' # <<>> /\ Top'.run = c /\ c \in Callbacks
      /\ Top.todo # {}
  BY NextCallbackFacts DEF NextCallback
<1>2. /\ connection_state' = StateFor(c, state)
      /\ UNCHANGED <<s, alive, orphaned>> /\ Count(c)
  BY DEF NextCallback
<1>3. /\ c = "on_disconnected" => s = "invalid"
      /\ connection_state \in Pending => c \in Begun \cup {"on_disconnected"}
      /\ connection_state = "created" => c = "on_disconnected"
      /\ connection_state \notin Pending => c \notin Begun
  BY <1>1, FirstTold
<1>4. alive
  <2>1. ~orphaned /\ Top.run # "on_connection_complete"
    BY <1>0, <1>1, <1>2 DEF NestInv
  <2>2. QED
    BY <1>0, <1>1, <2>1 DEF NestInv
<1>5. state \in ConnectionStates
  BY <1>0, StateFacts DEF ConnectionStates
<1>6. /\ c \in {"on_connection_failed", "on_connection_reset", "on_disconnected"}
           => connection_state' = "disconnected"
      /\ c = "on_connected" => connection_state' = "connected"
      /\ c \in {"on_writable", "on_readable", "on_readable_oob", "on_client_close"}
           => connection_state' = state
  BY <1>1, <1>2, <1>5, StateFacts
<1>7. c # "on_client_close" => calls'["on_client_close"] = calls["on_client_close"]
  BY <1>0, <1>2, CountFacts
<1>8. \/ Calling = <<>> /\ Calling' = <<c>>
      \/ Calling # <<>> /\ Calling' = [Calling EXCEPT ![Len(Calling)] = c]
  <2>1. Top'.run # "none"
    BY <1>1 DEF Callbacks
  <2>2. QED
    BY <1>1, <2>1, CallingNext
<1> HIDE DEF c
<1>9. CASE c = "on_connected"
  <2>1. connection_state \in Pending
    BY <1>3, <1>9 DEF Begun
  <2>2. Phase = "connecting" /\ calls["on_client_close"] = 0
    BY <2>1, PhaseFacts DEF TellInv
  <2>3. Phase' = "open"
    BY <1>6, <1>7, <1>9, <2>2 DEF Phase, Pending
  <2>4. Promise!OnConnected
    BY <1>2, <1>4, <1>8, <1>9, <2>2, <2>3 DEF Promise!OnConnected, Promise!Calls, Calling
  <2>5. QED
    BY <2>4 DEF Promise!Next
<1>10. CASE c = "on_connection_failed"
  <2>1. connection_state \in Pending
    BY <1>3, <1>10 DEF Begun
  <2>2. Phase = "connecting"
    BY <2>1, PhaseFacts
  <2>3. Phase' = "ended"
    BY <1>6, <1>10 DEF Phase, Pending
  <2>4. Promise!OnConnectionFailed
    BY <1>2, <1>4, <1>8, <1>10, <2>2, <2>3
       DEF Promise!OnConnectionFailed, Promise!Calls, Calling
  <2>5. QED
    BY <2>4 DEF Promise!Next
<1>11. CASE c = "on_disconnected"
  <2>1. Phase' = "ended"
    BY <1>6, <1>11 DEF Phase, Pending
  <2>2. Promise!OnDisconnected
    BY <1>2, <1>3, <1>4, <1>8, <1>11, <2>1
       DEF Promise!OnDisconnected, Promise!Calls, Calling
  <2>3. QED
    BY <2>2 DEF Promise!Next
<1>12. CASE c \in {"on_writable", "on_readable", "on_readable_oob"}
  <2>1. connection_state # "created" /\ connection_state \notin Pending
    BY <1>3, <1>12 DEF Begun
  <2>2. Phase' = Phase
    BY <1>1, <1>6, <1>7, <1>12, <2>1, PhaseAfter
  <2>3. Phase \in {"open", "ended"}
    BY <2>1, PhaseFacts
  <2>4. Promise!OnNews
    BY <1>2, <1>4, <1>8, <1>12, <2>2, <2>3
       DEF Promise!OnNews, Promise!Calls, Promise!News, Calling
  <2>5. QED
    BY <2>4 DEF Promise!Next
<1>13. CASE c \in {"on_connection_reset", "on_client_close"}
  <2>1. connection_state # "created" /\ connection_state \notin Pending
    BY <1>3, <1>13 DEF Begun
  <2>2. Phase \in {"open", "ended"}
    BY <2>1, PhaseFacts
  <2>3. Phase' = "ended"
    <3>1. CASE c = "on_connection_reset"
      BY <1>6, <3>1 DEF Phase, Pending
    <3>2. CASE c = "on_client_close"
      <4>1. connection_state' \in {connection_state, "client_closed"}
        BY <1>0, <1>6, <3>2, StateFacts
      <4>2. calls'["on_client_close"] > 0
        BY <1>0, <1>2, <3>2, CountFacts
      <4>3. calls'["on_client_close"] # 0
        BY <4>2
      <4>4. connection_state' # "created" /\ connection_state' \notin Pending
        BY <2>1, <4>1 DEF Pending
      <4>5. QED
        BY <4>3, <4>4 DEF Phase
    <3>3. QED
      BY <1>13, <3>1, <3>2
  <2>4. Promise!OnEnd
    BY <1>2, <1>4, <1>8, <1>13, <2>2, <2>3
       DEF Promise!OnEnd, Promise!Calls, Promise!Ends, Calling
  <2>5. QED
    BY <2>4 DEF Promise!Next
<1>14. QED
  BY <1>1, <1>9, <1>10, <1>11, <1>12, <1>13 DEF Callbacks

\* The application closes or deletes its socket.
LEMMA CloseStep ==
  ASSUME Shape, Close \/ Delete
  PROVE  Promise!Next
<1>1. CASE Close
  <2>1. s' = "invalid" /\ UNCHANGED <<connection_state, alive, orphaned, calls>>
    BY <1>1, CloseFacts
  <2>2. Phase' = Phase
    BY <2>1 DEF Phase
  <2>3. Calling' = Calling
    <3>1. CASE stack' = stack
      BY <3>1, CallingHeld
    <3>2. CASE stack = <<>> /\ stack' = <<Frame("close", "none", {"on_disconnected"})>>
      <4>1. Top' = Frame("close", "none", {"on_disconnected"})
        BY <3>2 DEF Top
      <4>2. Top'.run = "none"
        BY <4>1 DEF Frame
      <4>3. QED
        BY <3>2, <4>2 DEF Calling
    <3>3. QED
      BY <1>1, <3>1, <3>2, CloseFacts
  <2>4. Promise!Close
    BY <2>1, <2>2, <2>3 DEF Promise!Close, Calling
  <2>5. QED
    BY <2>4 DEF Promise!Next
<1>2. CASE Delete
  <2>1. /\ alive' = FALSE /\ s' = "invalid" /\ (stack = <<>> \/ Announcing)
        /\ UNCHANGED <<connection_state, stack, calls>>
    BY <1>2, DeleteFacts
  <2>2. Phase' = Phase
    BY <2>1 DEF Phase
  <2>3. Calling' = Calling
    BY <2>1, CallingHeld
  <2>4. Calling \in {<<>>, <<"on_connection_complete">>}
    BY <2>1 DEF Calling, Announcing
  <2>5. Promise!Delete
    BY <2>1, <2>2, <2>3, <2>4 DEF Promise!Delete, Calling
  <2>6. QED
    BY <2>5 DEF Promise!Next
<1>3. QED
  BY <1>1, <1>2

LEMMA NextTells ==
  ASSUME Shape, TellInv, TellInv', [Next]_vars, ~orphaned'
  PROVE  [Promise!Next]_(Promise!vars)
<1> USE DEF socket, kernel, history
<1>0. /\ NestInv /\ calls \in [Milestones -> 0..2]
      /\ "on_client_close" \in Milestones /\ "on_client_close" # "on_connection_complete"
  BY DEF Shape, TypeOK, Milestones
<1>1. CASE Drifts
  <2>1. UNCHANGED <<s, connection_state, alive, orphaned, stack, calls>>
    BY <1>1 DEF Drifts
  <2>2. Phase' = Phase
    BY <2>1 DEF Phase
  <2>3. QED
    BY <2>1, <2>2, CallingHeld, QuietStep
<1>2. ASSUME NEW interest, NEW e, NEW state, Submits(interest, e, state)
      PROVE  /\ UNCHANGED <<s, alive, orphaned, calls>> /\ connection_state' = state
             /\ stack' = <<>> \/ Top'.run = "none"
  <2>1. /\ UNCHANGED <<s, alive, orphaned, calls>> /\ connection_state' = state
    BY <1>2 DEF Submits
  <2>2. stack' = <<>> \/ Top' = Frame("poll", "none", Raised(state, out'))
    BY <1>2, SubmitsFacts
  <2>3. Frame("poll", "none", Raised(state, out')).run = "none"
    BY DEF Frame
  <2>4. QED
    BY <2>1, <2>2, <2>3
<1>3. CASE Begins
  <2>1. PICK state \in Pending, e \in Endpoints(MaxInbox) : Submits(AllEvents, e, state)
    BY <1>3 DEF Begins
  <2>2. /\ UNCHANGED <<s, alive, orphaned, calls>> /\ connection_state' = state
        /\ stack' = <<>> \/ Top'.run = "none"
    BY <1>2, <2>1
  <2>3. Phase = "new" /\ Phase' = "connecting"
    BY <1>3, <2>1, <2>2 DEF Begins, Phase, Pending
  <2>4. Calling = <<>> /\ Calling' = <<>>
    BY <1>3, <2>2 DEF Begins, Calling
  <2>5. Promise!Begin
    BY <2>2, <2>3, <2>4 DEF Promise!Begin, Calling
  <2>6. QED
    BY <2>5 DEF Promise!Next
<1>4. CASE PollsMore
  <2>1. PICK interest, e : Submits(interest, e, "connected")
    BY <1>4 DEF PollsMore
  <2>2. /\ UNCHANGED <<s, alive, orphaned, calls>> /\ connection_state' = "connected"
        /\ stack' = <<>> \/ Top'.run = "none"
    BY <1>2, <2>1
  <2>3. Phase' = Phase
    BY <1>4, <2>2 DEF PollsMore, Phase
  <2>4. Calling' = Calling
    BY <1>4, <2>2 DEF PollsMore, Calling
  <2>5. QED
    BY <2>2, <2>3, <2>4, QuietStep
<1>5. CASE Close \/ Delete
  BY <1>5, CloseStep
<1>6. CASE Dispatch
  <2>1. UNCHANGED <<s, connection_state, alive, orphaned, calls>> /\ stack = <<>>
    BY <1>6, DispatchFacts
  <2>2. Phase' = Phase
    BY <2>1 DEF Phase
  <2>3. stack' = <<>> \/ Top' = Frame("poll", "none", Raised(connection_state, out))
    BY <1>6, <2>1, DispatchFacts
  <2>4. Frame("poll", "none", Raised(connection_state, out)).run = "none"
    BY DEF Frame
  <2>5. Calling' = Calling
    BY <2>1, <2>3, <2>4 DEF Calling
  <2>6. QED
    BY <2>1, <2>2, <2>5, QuietStep
<1>7. CASE NextCallback
  BY <1>7, NextCallbackStep
<1>8. CASE PollsAgain
  <2>1. /\ stack # <<>> /\ Top.by = "poll"
        /\ Submits(events, net, StateAfter(Top.run, connection_state))
    BY <1>8 DEF PollsAgain, Finishing
  <2>2. connection_state # "created"
    BY <1>0, <2>1 DEF NestInv, Frame
  <2>3. /\ UNCHANGED <<s, alive, orphaned, calls>>
        /\ connection_state' = StateAfter(Top.run, connection_state)
        /\ stack' = <<>> \/ Top'.run = "none"
    BY <1>2, <2>1
  <2>4. Phase' = Phase
    BY <2>1, <2>2, <2>3, PhaseAfter
  <2>5. QED
    BY <2>1, <2>3, <2>4, CallingEnds, QuietStep
<1>9. CASE Announces
  <2>1. /\ stack # <<>> /\ Top.by = "poll" /\ Top.run # "on_connection_complete"
        /\ s = "invalid" /\ UNCHANGED <<s, alive, orphaned>>
        /\ connection_state' = StateAfter(Top.run, connection_state)
        /\ stack' = <<Frame("poll", "on_connection_complete", {})>>
        /\ Count("on_connection_complete")
    BY <1>9 DEF Announces, Finishing
  <2>2. connection_state # "created" /\ alive
    <3>1. ~orphaned
      BY <2>1
    <3>2. QED
      BY <1>0, <2>1, <3>1 DEF NestInv, Frame
  <2>3. calls'["on_client_close"] = calls["on_client_close"]
    BY <1>0, <2>1, CountFacts
  <2>4. Phase' = Phase
    BY <2>1, <2>2, <2>3, PhaseAfter
  <2>5. stack' # <<>> /\ Top' = Frame("poll", "on_connection_complete", {})
    BY <2>1 DEF Top
  <2>6. Top'.run = "on_connection_complete"
    BY <2>5 DEF Frame
  <2>7. \/ Calling = <<>> /\ Calling' = <<"on_connection_complete">>
        \/ Calling # <<>> /\ Calling' = [Calling EXCEPT ![Len(Calling)] = "on_connection_complete"]
    BY <2>1, <2>5, <2>6, CallingNext
  <2>8. Promise!OnConnectionComplete
    BY <2>1, <2>2, <2>4, <2>7 DEF Promise!OnConnectionComplete, Promise!Calls, Calling
  <2>9. QED
    BY <2>8 DEF Promise!Next
<1>10. CASE Ends
  <2>1. stack # <<>> /\ stack' = <<>> /\ UNCHANGED <<s, connection_state, alive, orphaned, calls>>
    BY <1>10 DEF Ends
  <2>2. Phase' = Phase
    BY <2>1 DEF Phase
  <2>3. QED
    BY <2>1, <2>2, CallingEnds, QuietStep
<1>11. QED
  BY <1>1, <1>3, <1>4, <1>5, <1>6, <1>7, <1>8, <1>9, <1>10, StepCases

\* Design B tells the events of a connection in the order of the abstract
\* specification, although a poll may complete inside the call that makes it
\* and packets of polls that were ended may still come: the outcome of
\* connecting first and once, then news and the end, on_disconnected and
\* on_connection_complete only for a closed socket, and nothing to a deleted
\* one (tcp_socket.h:34-68, tcp_socket.cpp:415-496).  Nothing is claimed once
\* the socket has been deleted with a packet to come (afd.h:433-470); that
\* this does not happen to an application that stays in its callbacks is
\* DeletionIsSafe.
THEOREM DirectTellsInOrder == Spec => TellsInOrder
<1>1. Init => Promise!Init
  <2> SUFFICES ASSUME Init PROVE Promise!Init
    OBVIOUS
  <2>1. s = "open" /\ connection_state = "created" /\ alive = TRUE /\ stack = <<>>
    BY DEF Init
  <2>2. Phase = "new"
    BY <2>1 DEF Phase, Pending
  <2>3. QED
    BY <2>1, <2>2 DEF Promise!Init
<1>2. Shape /\ TellInv /\ TellInv' /\ [Next]_vars =>
        [orphaned' \/ Promise!Next]_(Promise!vars)
  BY NextTells
<1>3. Inv => Shape
  BY DEF Inv
<1>4. QED
  BY <1>1, <1>2, <1>3, InvHolds, TellInvHolds, PTL DEF Spec, TellsInOrder

============================================================================
