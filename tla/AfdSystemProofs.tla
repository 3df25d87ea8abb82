-------------------------- MODULE AfdSystemProofs --------------------------
(***************************************************************************)
(* Theorems about AfdSystem, for every number of slots, sockets and poll   *)
(* requests.                                                               *)
(***************************************************************************)
EXTENDS AfdSystem, SequenceLemmas, FiniteSetTheorems

\* The checks "slot > num_slots" let through one slot more than there are.
LEMMA SlotsFacts == AcceptedSlots = 0..NumSlots
  BY SystemAssumption DEF AcceptedSlots

----------------------------------------------------------------------------
(* What the driver reports                                                 *)

\* A report names handles of its request, and no more of them than it has.
LEMMA ReportFacts ==
  ASSUME NEW request \in Seq(Entries), NEW rdy, NEW lf,
         NEW r \in Reports(request, rdy, lf)
  PROVE  r \in Seq(Entries) /\ Len(r) \in Nat /\ Len(r) <= Len(request)
<1> DEFINE answered == Answered(request, rdy, lf)
           n == Cardinality(answered)
<1>1. Len(request) \in Nat /\ request \in [1..Len(request) -> Entries]
  BY LenProperties
<1>2. answered \in SUBSET (1..Len(request))
  BY <1>1 DEF Answered
<1>3. /\ IsFiniteSet(1..Len(request))
      /\ Cardinality(1..Len(request)) = Len(request)
  <2>1. /\ IsFiniteSet(1..Len(request))
        /\ Cardinality(1..Len(request))
             = IF 1 > Len(request) THEN 0 ELSE Len(request) - 1 + 1
    BY <1>1, FS_Interval
  <2>2. (IF 1 > Len(request) THEN 0 ELSE Len(request) - 1 + 1) = Len(request)
    BY <1>1
  <2>3. QED
    BY <2>1, <2>2
<1>4. n \in Nat /\ n <= Len(request)
  BY <1>2, <1>3, FS_Subset, FS_CardinalityType
<1>5. PICK position \in [1..n -> answered] :
         r = [k \in 1..n |-> request[position[k]]]
  BY DEF Reports
<1> HIDE DEF answered, n
<1>6. r \in [1..n -> Entries]
  BY <1>1, <1>2, <1>5
<1>7. r \in Seq(Entries) /\ Len(r) = n
  BY <1>4, <1>6, LenOfFunction
<1>8. QED
  BY <1>4, <1>7

\* The driver's variables keep their types, and its requests and reports
\* stay within the size of the structures the program passes.
LEMMA SettleFacts ==
  ASSUME NEW rdy \in SUBSET Sockets, NEW lf,
         NEW pend \in [PollIds -> Seq(Entries)],
         \A i \in PollIds : Len(pend[i]) <= NumSlots,
         NEW o \in Seq(Entries), Len(o) <= NumSlots,
         iocp \in SUBSET PollIds, Settle(rdy, lf, pend, o)
  PROVE  /\ ready' \in SUBSET Sockets
         /\ polls' \in [PollIds -> Seq(Entries)]
         /\ \A i \in PollIds : Len(polls'[i]) <= NumSlots
         /\ iocp' \in SUBSET PollIds
         /\ out' \in Seq(Entries) /\ Len(out') <= NumSlots
<1> DEFINE done == {i \in PollIds : Answered(pend[i], rdy, lf) # {}}
<1>1. /\ ready' = rdy
      /\ polls' = [i \in PollIds |-> IF i \in done THEN <<>> ELSE pend[i]]
      /\ iocp' = iocp \cup done
      /\ IF done = {} THEN out' = o
         ELSE \E i \in done : out' \in Reports(pend[i], rdy, lf)
  BY DEF Settle
<1>2. done \subseteq PollIds
  OBVIOUS
<1> HIDE DEF done
<1>3. <<>> \in Seq(Entries) /\ Len(<<>>) = 0 /\ NumSlots \in Nat
  BY EmptySeq, SystemAssumption
<1>4. /\ polls' \in [PollIds -> Seq(Entries)]
      /\ \A i \in PollIds : polls'[i] = <<>> \/ polls'[i] = pend[i]
  BY <1>1, <1>3
<1>5. \A i \in PollIds : Len(polls'[i]) <= NumSlots
  BY <1>3, <1>4
<1>6. out' \in Seq(Entries) /\ Len(out') <= NumSlots
  <2>1. CASE done = {}
    BY <1>1, <2>1
  <2>2. CASE done # {}
    <3>1. PICK i \in PollIds : out' \in Reports(pend[i], rdy, lf)
      BY <1>1, <1>2, <2>2
    <3>2. pend[i] \in Seq(Entries) /\ Len(pend[i]) \in Nat /\ Len(pend[i]) <= NumSlots
      BY LenProperties
    <3>3. out' \in Seq(Entries) /\ Len(out') \in Nat /\ Len(out') <= Len(pend[i])
      BY <3>1, <3>2, ReportFacts
    <3>4. QED
      BY <1>3, <3>2, <3>3
  <2>3. QED
    BY <2>1, <2>2
<1>7. QED
  BY <1>1, <1>2, <1>4, <1>5, <1>6

----------------------------------------------------------------------------
(* The inductive invariant                                                 *)

\* No request was larger than the structures: Accepts refuses the one that
\* the slot behind the end would make so.
SizeInv ==
  /\ Len(out) <= NumSlots
  /\ \A i \in PollIds : Len(polls[i]) <= NumSlots

\* The socket being served exists and has the slot of the entry the loop is
\* at, which another socket may have taken over in the meantime.
LoopInv ==
  serving # NoSocket =>
    /\ loop \in 1..NumSlots
    /\ slot[serving] = loop - 1
    /\ life[serving] \in {"open", "closed"}

\* The socket in a slot exists, and the slot is the one it was given: no
\* socket is in two slots.
TableInv ==
  /\ \A k \in AcceptedSlots : table[k] # NoSocket =>
       life[table[k]] \in {"open", "closed"} /\ slot[table[k]] = k
  /\ \A x \in wants : life[x] # "new"

\* A slot nobody is serving, left, taken over or interrupted asks for what
\* its socket wants, and for nothing while it is empty.
Settled(k) == k \notin stale /\ (serving # NoSocket => k # loop - 1)

InterestInv ==
  \A k \in AcceptedSlots : Settled(k) => (k \in interest <=> table[k] \in wants)

Inv == TypeOK /\ SizeInv /\ LoopInv /\ TableInv /\ InterestInv

----------------------------------------------------------------------------
(* Its preservation                                                        *)

LEMMA InitInv == Init => Inv
<1> SUFFICES ASSUME Init PROVE Inv
  OBVIOUS
<1>1. <<>> \in Seq(Entries) /\ Len(<<>>) = 0 /\ NumSlots \in Nat \ {0}
  BY EmptySeq, SystemAssumption
<1>2. TypeOK
  <2>1. 0 \in AcceptedSlots /\ 0 \in 0..NumSlots + 1 /\ 1 \in 1..NumSlots + 1
    BY <1>1, SlotsFacts
  <2>2. QED
    BY <1>1, <2>1 DEF Init, TypeOK
<1>3. SizeInv
  BY <1>1 DEF Init, SizeInv
<1>4. LoopInv /\ TableInv /\ InterestInv
  BY DEF Init, LoopInv, TableInv, InterestInv
<1>5. QED
  BY <1>2, <1>3, <1>4 DEF Inv

LEMMA AssociateInv ==
  ASSUME Inv, NEW x \in Sockets, NEW k \in AcceptedSlots, Associate(x, k)
  PROVE  Inv'
<1> USE DEF driver
<1>1. /\ life[x] = "new"
      /\ life' = [life EXCEPT ![x] = "open"]
      /\ slot' = [slot EXCEPT ![x] = k]
      /\ table' = [table EXCEPT ![k] = x]
      /\ number' = k + 1
      /\ stale' = IF table[k] = NoSocket THEN stale ELSE stale \cup {k}
      /\ UNCHANGED <<interest, wants, ready, polls, iocp, out, loop, serving>>
  BY DEF Associate
<1>2. TypeOK /\ SizeInv /\ LoopInv /\ TableInv /\ InterestInv
  BY DEF Inv
<1>3. /\ life \in [Sockets -> {"new", "open", "closed", "destroyed"}]
      /\ slot \in [Sockets -> AcceptedSlots]
      /\ table \in [AcceptedSlots -> Sockets \cup {NoSocket}]
      /\ wants \in SUBSET Sockets
      /\ serving \in Sockets \cup {NoSocket}
      /\ NoSocket \notin Sockets
  BY <1>2, SystemAssumption DEF TypeOK
<1>4. TypeOK'
  <2>1. k + 1 \in 1..NumSlots + 1
    BY SlotsFacts, SystemAssumption
  <2>2. QED
    BY <1>1, <1>2, <2>1 DEF TypeOK
<1>5. SizeInv'
  BY <1>1, <1>2 DEF SizeInv
<1>6. LoopInv'
  <2>1. serving # NoSocket => serving # x
    BY <1>1, <1>2, <1>3 DEF LoopInv
  <2>2. QED
    BY <1>1, <1>2, <1>3, <2>1 DEF LoopInv
<1>7. x \notin wants /\ \A a \in AcceptedSlots : table[a] # x
  BY <1>1, <1>2, <1>3 DEF TableInv
<1>8. TableInv'
  <2>1. \A a \in AcceptedSlots : table'[a] = IF a = k THEN x ELSE table[a]
    BY <1>1, <1>3
  <2>2. \A y \in Sockets : /\ life'[y] = IF y = x THEN "open" ELSE life[y]
                           /\ slot'[y] = IF y = x THEN k ELSE slot[y]
    BY <1>1, <1>3
  <2>3. \A a \in AcceptedSlots : table'[a] # NoSocket =>
          life'[table'[a]] \in {"open", "closed"} /\ slot'[table'[a]] = a
    BY <1>2, <1>3, <1>7, <2>1, <2>2 DEF TableInv
  <2>4. \A y \in wants' : life'[y] # "new"
    BY <1>1, <1>2, <1>3, <2>2 DEF TableInv
  <2>5. QED
    BY <2>3, <2>4 DEF TableInv
<1>9. InterestInv'
  <2>1. \A a \in AcceptedSlots : Settled(a)' => Settled(a)
    BY <1>1 DEF Settled
  <2>2. ASSUME NEW a \in AcceptedSlots, Settled(a)'
        PROVE  a \in interest <=> table'[a] \in wants
    <3>1. a \in interest <=> table[a] \in wants
      BY <1>2, <2>1, <2>2 DEF InterestInv
    <3>2. CASE a = k
      <4>1. table[k] = NoSocket
        BY <1>1, <2>2, <3>2 DEF Settled
      <4>2. QED
        BY <1>1, <1>3, <1>7, <3>1, <3>2, <4>1
    <3>3. CASE a # k
      BY <1>1, <1>3, <3>1, <3>3
    <3>4. QED
      BY <3>2, <3>3
  <2>3. QED
    BY <1>1, <2>2 DEF InterestInv
<1>10. QED
  BY <1>4, <1>5, <1>6, <1>8, <1>9 DEF Inv

LEMMA DisassociateInv ==
  ASSUME Inv, NEW x \in Sockets, Disassociate(x)
  PROVE  Inv'
<1> DEFINE left == slot[x]
<1>1. /\ loop = 0 /\ life[x] \in {"open", "closed"}
      /\ life' = [life EXCEPT ![x] = "destroyed"]
      /\ table' = [table EXCEPT ![left] = NoSocket]
      /\ Settle(ready, life', polls, out)
      /\ stale' = stale \cup {left}
      /\ UNCHANGED <<slot, interest, number, wants, loop, serving>>
  BY DEF Disassociate
<1>2. TypeOK /\ SizeInv /\ LoopInv /\ TableInv /\ InterestInv
  BY DEF Inv
<1>3. /\ life \in [Sockets -> {"new", "open", "closed", "destroyed"}]
      /\ slot \in [Sockets -> AcceptedSlots]
      /\ table \in [AcceptedSlots -> Sockets \cup {NoSocket}]
      /\ wants \in SUBSET Sockets
      /\ NoSocket \notin Sockets
  BY <1>2, SystemAssumption DEF TypeOK
<1>4. left \in AcceptedSlots /\ \A a \in AcceptedSlots : table[a] = x => a = left
  BY <1>2, <1>3 DEF TableInv
<1> HIDE DEF left
<1>5. serving = NoSocket
  BY <1>1, <1>2, SystemAssumption DEF LoopInv
<1>6. /\ ready' \in SUBSET Sockets
      /\ polls' \in [PollIds -> Seq(Entries)]
      /\ iocp' \in SUBSET PollIds
      /\ out' \in Seq(Entries)
      /\ SizeInv'
  BY <1>1, <1>2, SettleFacts DEF TypeOK, SizeInv
<1>7. TypeOK'
  BY <1>1, <1>2, <1>4, <1>6 DEF TypeOK
<1>8. LoopInv'
  BY <1>1, <1>5 DEF LoopInv
<1>9. TableInv'
  <2>1. \A a \in AcceptedSlots : table'[a] = IF a = left THEN NoSocket ELSE table[a]
    BY <1>1, <1>3
  <2>2. \A y \in Sockets : life'[y] = IF y = x THEN "destroyed" ELSE life[y]
    BY <1>1, <1>3
  <2>3. \A a \in AcceptedSlots : table'[a] # NoSocket =>
          life'[table'[a]] \in {"open", "closed"} /\ slot'[table'[a]] = a
    BY <1>1, <1>2, <1>3, <1>4, <2>1, <2>2 DEF TableInv
  <2>4. \A y \in wants' : life'[y] # "new"
    BY <1>1, <1>2, <1>3, <2>2 DEF TableInv
  <2>5. QED
    BY <2>3, <2>4 DEF TableInv
<1>10. InterestInv'
  BY <1>1, <1>2, <1>3, <1>5 DEF InterestInv, Settled
<1>11. QED
  BY <1>6, <1>7, <1>8, <1>9, <1>10 DEF Inv

\* close() and the network change the driver's variables and, at most, an
\* open socket to a closed one.
LEMMA SettleInv ==
  ASSUME Inv, NEW rdy \in SUBSET Sockets, Settle(rdy, life', polls, out),
         \/ UNCHANGED life
         \/ \E x \in Sockets : life[x] = "open" /\ life' = [life EXCEPT ![x] = "closed"],
         UNCHANGED <<slot, table, interest, number, wants, loop, serving, stale>>
  PROVE  Inv'
<1>1. TypeOK /\ SizeInv /\ LoopInv /\ TableInv /\ InterestInv
  BY DEF Inv
<1>2. /\ ready' \in SUBSET Sockets
      /\ polls' \in [PollIds -> Seq(Entries)]
      /\ iocp' \in SUBSET PollIds
      /\ out' \in Seq(Entries)
      /\ SizeInv'
  BY <1>1, SettleFacts DEF TypeOK, SizeInv
<1>3. /\ life' \in [Sockets -> {"new", "open", "closed", "destroyed"}]
      /\ \A x \in Sockets : /\ life'[x] \in {"open", "closed"} <=> life[x] \in {"open", "closed"}
                            /\ life[x] # "new" => life'[x] # "new"
  BY <1>1 DEF TypeOK
<1>4. TypeOK'
  BY <1>1, <1>2, <1>3 DEF TypeOK
<1>5. LoopInv'
  BY <1>1, <1>3 DEF LoopInv, TypeOK
<1>6. TableInv'
  BY <1>1, <1>3 DEF TableInv, TypeOK
<1>7. InterestInv'
  BY <1>1 DEF InterestInv, Settled
<1>8. QED
  BY <1>2, <1>4, <1>5, <1>6, <1>7 DEF Inv

LEMMA PollStepInv ==
  ASSUME Inv, NEW x \in Sockets, Poll(x)
  PROVE  Inv'
<1>1. /\ life[x] = "open"
      /\ wants' = wants \cup {x}
      /\ interest' = interest \cup {slot[x]}
      /\ stale' = StaleAfter(x)
      /\ UNCHANGED <<life, slot, table, number, loop, serving>>
  BY DEF Poll
<1>2. TypeOK /\ SizeInv /\ LoopInv /\ TableInv /\ InterestInv
  BY DEF Inv
<1>3. /\ slot[x] \in AcceptedSlots
      /\ \A a \in AcceptedSlots : table[a] = x => a = slot[x]
      /\ stale' = IF table[slot[x]] = x THEN stale \ {slot[x]} ELSE stale \cup {slot[x]}
  BY <1>1, <1>2, SystemAssumption DEF TableInv, TypeOK, StaleAfter, Registered
<1>4. /\ ready' \in SUBSET Sockets
      /\ polls' \in [PollIds -> Seq(Entries)]
      /\ iocp' \in SUBSET PollIds
      /\ out' \in Seq(Entries)
      /\ SizeInv'
  <2>1. CASE ~Accepts(number)
    <3>1. out' = <<>> /\ UNCHANGED <<ready, polls, iocp>>
      BY <2>1 DEF Poll
    <3>2. <<>> \in Seq(Entries) /\ Len(<<>>) = 0 /\ NumSlots \in Nat
      BY EmptySeq, SystemAssumption
    <3>3. QED
      BY <1>2, <3>1, <3>2 DEF TypeOK, SizeInv
  <2>2. CASE Accepts(number)
    <3> DEFINE request == [k \in 1..number |->
                             [sock |-> table[k - 1], asks |-> k - 1 \in interest']]
    <3>1. PICK i \in PollIds \ iocp :
             Settle(ready, life, [polls EXCEPT ![i] = request], <<>>)
      BY <2>2 DEF Poll
    <3>2. number \in Nat /\ number <= NumSlots /\ NumSlots \in Nat
      BY <1>2, <2>2, SystemAssumption DEF TypeOK, Accepts
    <3>3. \A k \in 1..number : table[k - 1] \in Sockets
      <4>1. ASSUME NEW k \in 1..number PROVE k - 1 \in 0..number - 1 /\ k - 1 \in AcceptedSlots
        BY <3>2, SlotsFacts
      <4>2. QED
        BY <1>2, <2>2, <4>1 DEF TypeOK, Accepts
    <3>4. request \in [1..number -> Entries]
      BY <3>3 DEF Entries
    <3> HIDE DEF request
    <3>5. request \in Seq(Entries) /\ Len(request) = number
      BY <3>2, <3>4, LenOfFunction
    <3> DEFINE pend == [polls EXCEPT ![i] = request]
    <3>6. /\ pend \in [PollIds -> Seq(Entries)]
          /\ \A j \in PollIds : Len(pend[j]) <= NumSlots
      BY <1>2, <3>2, <3>5 DEF TypeOK, SizeInv
    <3>7. Settle(ready, life, pend, <<>>)
      BY <3>1
    <3> HIDE DEF pend
    <3>8. <<>> \in Seq(Entries) /\ Len(<<>>) <= NumSlots
      BY <3>2, EmptySeq
    <3>9. ready \in SUBSET Sockets /\ iocp \in SUBSET PollIds
      BY <1>2 DEF TypeOK
    <3>10. QED
      BY <3>6, <3>7, <3>8, <3>9, SettleFacts DEF SizeInv
  <2>3. QED
    BY <2>1, <2>2
<1>5. TypeOK'
  BY <1>1, <1>2, <1>3, <1>4 DEF TypeOK
<1>6. LoopInv'
  BY <1>1, <1>2 DEF LoopInv
<1>7. TableInv'
  BY <1>1, <1>2 DEF TableInv
<1>8. InterestInv'
  BY <1>1, <1>2, <1>3 DEF InterestInv, Settled
<1>9. QED
  BY <1>4, <1>5, <1>6, <1>7, <1>8 DEF Inv

LEMMA ServeInv ==
  ASSUME Inv, Serve
  PROVE  Inv'
<1> USE DEF driver
<1>1. /\ loop > 0 /\ serving = NoSocket /\ loop <= Len(out)
      /\ serving' = table[loop - 1]
      /\ loop' = IF serving' = NoSocket THEN loop + 1 ELSE loop
      /\ wants' = wants \ {serving'}
      /\ UNCHANGED <<life, slot, table, interest, number, ready, polls, iocp, out, stale>>
  BY DEF Serve
<1>2. TypeOK /\ SizeInv /\ LoopInv /\ TableInv /\ InterestInv
  BY DEF Inv
<1>3. loop \in 1..NumSlots /\ loop - 1 \in AcceptedSlots /\ loop + 1 \in 0..NumSlots + 1
  <2>1. Len(out) \in Nat /\ loop \in Nat /\ NumSlots \in Nat /\ Len(out) <= NumSlots
    BY <1>2, LenProperties, SystemAssumption DEF TypeOK, SizeInv
  <2>2. loop \in 1..NumSlots
    BY <1>1, <2>1
  <2>3. QED
    BY <2>1, <2>2, SlotsFacts
<1>4. serving' \in Sockets \cup {NoSocket}
  BY <1>1, <1>2, <1>3 DEF TypeOK
<1>5. TypeOK'
  BY <1>1, <1>2, <1>3, <1>4 DEF TypeOK
<1>6. SizeInv'
  BY <1>1, <1>2 DEF SizeInv
<1>7. LoopInv'
  BY <1>1, <1>2, <1>3 DEF LoopInv, TableInv
<1>8. TableInv'
  BY <1>1, <1>2 DEF TableInv
<1>9. InterestInv'
  <2>1. NoSocket \notin wants
    BY <1>2, SystemAssumption DEF TypeOK
  <2>2. ASSUME NEW a \in AcceptedSlots, Settled(a)'
        PROVE  a \in interest' <=> table'[a] \in wants'
    <3>1. Settled(a)
      BY <1>1, <2>2 DEF Settled
    <3>2. a \in interest <=> table[a] \in wants
      BY <1>2, <3>1 DEF InterestInv
    <3>3. table[a] = serving' => table[a] \notin wants
      <4>1. CASE serving' = NoSocket
        BY <2>1, <4>1
      <4>2. CASE serving' # NoSocket
        <5>1. a # loop - 1
          BY <1>1, <2>2, <4>2 DEF Settled
        <5>2. QED
          BY <1>1, <1>2, <1>3, <4>2, <5>1 DEF TableInv
      <4>3. QED
        BY <4>1, <4>2
    <3>4. QED
      BY <1>1, <3>2, <3>3
  <2>3. QED
    BY <2>2 DEF InterestInv
<1>10. QED
  BY <1>5, <1>6, <1>7, <1>8, <1>9 DEF Inv

LEMMA ServedInv ==
  ASSUME Inv, Served \/ Thrown
  PROVE  Inv'
<1> USE DEF driver
<1>1. /\ serving # NoSocket /\ serving' = NoSocket
      /\ UNCHANGED <<life, slot, table, number, wants, ready, polls, iocp, out>>
  BY DEF Served, Thrown
<1>2. TypeOK /\ SizeInv /\ LoopInv /\ TableInv /\ InterestInv
  BY DEF Inv
<1>3. /\ loop \in 1..NumSlots /\ slot[serving] = loop - 1
      /\ loop - 1 \in AcceptedSlots /\ loop + 1 \in 0..NumSlots + 1
      /\ 0 \in 0..NumSlots + 1
  <2>1. loop \in 1..NumSlots /\ slot[serving] = loop - 1 /\ NumSlots \in Nat
    BY <1>1, <1>2, SystemAssumption DEF LoopInv
  <2>2. QED
    BY <2>1, SlotsFacts
<1>4. SizeInv' /\ LoopInv' /\ TableInv'
  BY <1>1, <1>2 DEF SizeInv, LoopInv, TableInv
<1>5. TypeOK'
  BY <1>1, <1>2, <1>3 DEF Served, Thrown, TypeOK, StaleAfter
<1>6. InterestInv'
  <2>1. CASE Served
    <3>1. /\ interest' = IF serving \in wants THEN interest \cup {loop - 1}
                         ELSE interest \ {loop - 1}
          /\ stale' = IF table[loop - 1] = serving THEN stale \ {loop - 1}
                      ELSE stale \cup {loop - 1}
      BY <1>3, <2>1 DEF Served, StaleAfter, Registered
    <3>2. ASSUME NEW a \in AcceptedSlots, Settled(a)'
          PROVE  a \in interest' <=> table'[a] \in wants'
      <4>1. CASE a = loop - 1
        <5>1. table[loop - 1] = serving
          BY <3>1, <3>2, <4>1 DEF Settled
        <5>2. QED
          BY <1>1, <1>3, <3>1, <4>1, <5>1
      <4>2. CASE a # loop - 1
        <5>1. Settled(a)
          BY <3>1, <3>2, <4>2 DEF Settled
        <5>2. QED
          BY <1>1, <1>2, <3>1, <4>2, <5>1 DEF InterestInv
      <4>3. QED
        BY <4>1, <4>2
    <3>3. QED
      BY <3>2 DEF InterestInv
  <2>2. CASE Thrown
    <3>1. stale' = stale \cup {loop - 1} /\ UNCHANGED interest
      BY <2>2 DEF Thrown
    <3>2. \A a \in AcceptedSlots : Settled(a)' => Settled(a)
      BY <3>1 DEF Settled
    <3>3. QED
      BY <1>1, <1>2, <3>1, <3>2 DEF InterestInv
  <2>3. QED
    BY <2>1, <2>2
<1>7. QED
  BY <1>4, <1>5, <1>6 DEF Inv

LEMMA NextInv ==
  ASSUME Inv, [Next]_vars
  PROVE  Inv'
<1> USE DEF driver
<1>1. ASSUME NEW x \in Sockets, NEW k \in AcceptedSlots, Associate(x, k)
      PROVE  Inv'
  BY <1>1, AssociateInv
<1>2. ASSUME NEW x \in Sockets, Disassociate(x)
      PROVE  Inv'
  BY <1>2, DisassociateInv
<1>3. ASSUME NEW x \in Sockets, Close(x)
      PROVE  Inv'
  <2>1. ready \in SUBSET Sockets
    BY DEF Inv, TypeOK
  <2>2. QED
    BY <1>3, <2>1, SettleInv DEF Close
<1>4. ASSUME NEW x \in Sockets, Poll(x)
      PROVE  Inv'
  BY <1>4, PollStepInv
<1>5. CASE Dispatch
  <2>1. PICK i \in iocp : iocp' = iocp \ {i}
    BY <1>5 DEF Dispatch
  <2>2. /\ loop = 0 /\ loop' = 1
        /\ UNCHANGED <<life, slot, table, interest, number, wants, ready, polls, out,
                       serving, stale>>
    BY <1>5 DEF Dispatch
  <2>3. serving = NoSocket
    BY <2>2 DEF Inv, LoopInv
  <2>4. 1 \in 0..NumSlots + 1
    BY SystemAssumption
  <2>5. TypeOK'
    BY <2>1, <2>2, <2>4 DEF Inv, TypeOK
  <2>6. QED
    BY <2>2, <2>3, <2>5 DEF Inv, SizeInv, LoopInv, TableInv, InterestInv, Settled
<1>6. CASE Serve
  BY <1>6, ServeInv
<1>7. CASE Served \/ Thrown
  BY <1>7, ServedInv
<1>8. CASE LoopEnds
  <2>1. /\ serving = NoSocket /\ loop' = 0
        /\ UNCHANGED <<life, slot, table, interest, number, wants, ready, polls, iocp,
                       out, serving, stale>>
    BY <1>8 DEF LoopEnds
  <2>2. 0 \in 0..NumSlots + 1
    BY SystemAssumption
  <2>3. TypeOK'
    BY <2>1, <2>2 DEF Inv, TypeOK
  <2>4. QED
    BY <2>1, <2>3 DEF Inv, SizeInv, LoopInv, TableInv, InterestInv, Settled
<1>9. CASE Network
  <2>1. PICK x \in Sockets :
          /\ \/ Settle(ready \cup {x}, life, polls, out)
             \/ Settle(ready \ {x}, life, polls, out)
          /\ UNCHANGED <<life, slot, table, interest, number, wants, loop, serving, stale>>
    BY <1>9 DEF Network
  <2>2. /\ ready \cup {x} \in SUBSET Sockets /\ ready \ {x} \in SUBSET Sockets
    BY DEF Inv, TypeOK
  <2>3. \E rdy \in SUBSET Sockets : Settle(rdy, life', polls, out)
    BY <2>1, <2>2
  <2>4. QED
    BY <2>1, <2>3, SettleInv
<1>10. CASE UNCHANGED vars
  BY <1>10 DEF vars, Inv, TypeOK, SizeInv, LoopInv, TableInv, InterestInv, Settled
<1>11. QED
  BY <1>1, <1>2, <1>3, <1>4, <1>5, <1>6, <1>7, <1>8, <1>9, <1>10 DEF Next

LEMMA InvHolds == Spec => []Inv
  BY InitInv, NextInv, PTL DEF Spec

----------------------------------------------------------------------------
(* The theorems                                                            *)

\* The table, the structures and the loop of the system stay within their
\* declared ranges, for every number of slots.
THEOREM SystemTypeCorrect == Spec => []TypeOK
<1>1. Inv => TypeOK
  BY DEF Inv
<1>2. QED
  BY <1>1, InvHolds, PTL

\* However late a packet is dispatched and whatever the callbacks of the
\* sockets before it in the report did, handle_events only ever calls into
\* a socket that still exists.
THEOREM LiveSocketsServed == Spec => []ServesLiveSockets
<1>1. Inv => ServesLiveSockets
  <2> SUFFICES ASSUME Inv, serving # NoSocket
               PROVE  life[serving] \in {"open", "closed"}
    BY DEF ServesLiveSockets
  <2> QED
    BY DEF Inv, LoopInv
<1>2. QED
  BY <1>1, InvHolds, PTL

\* The checks of a slot accept one behind the end of the arrays, and yet
\* handle_events never reads there, whatever number of slots there is.
THEOREM DispatchStaysInBounds == Spec => []DispatchInBounds
<1>1. Inv => DispatchInBounds
  <2> SUFFICES ASSUME Inv, loop > 0, loop <= Len(out)
               PROVE  loop <= NumSlots
    BY DEF DispatchInBounds
  <2>1. /\ loop \in Nat /\ Len(out) \in Nat /\ NumSlots \in Nat
        /\ Len(out) <= NumSlots
    BY LenProperties, SystemAssumption DEF Inv, TypeOK, SizeInv
  <2>2. QED
    BY <2>1
<1>2. QED
  BY <1>1, InvHolds, PTL

\* What the shared input structure asks on behalf of a socket is what the
\* socket wants, except in a slot that was left or taken over, or whose
\* callback threw.
THEOREM InterestIsCurrent == Spec => []InterestCurrent
<1>1. Inv => InterestCurrent
  <2> SUFFICES ASSUME Inv, loop = 0, NEW k \in AcceptedSlots \ stale
               PROVE  k \in interest <=> table[k] \in wants
    BY DEF InterestCurrent
  <2>1. serving = NoSocket
    BY DEF Inv, LoopInv
  <2>2. Settled(k)
    BY <2>1 DEF Settled
  <2>3. QED
    BY <2>2 DEF Inv, InterestInv
<1>2. QED
  BY <1>1, InvHolds, PTL

============================================================================
