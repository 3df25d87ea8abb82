-------------------------- MODULE PollObservations --------------------------
(***************************************************************************)
(* The experiments of the repository, run against AfdPoll, the contract of *)
(* the driver that all the other modules use: understand/understand.cpp,   *)
(* socket_without_device_afd/explore.cpp and the two explore programs.     *)
(* Each test is a sequence of statements with the result it asserts; a     *)
(* statement is an action that changes the sockets, the pending polls and  *)
(* the ports, and the model's result is compared with the asserted one.    *)
(***************************************************************************)
EXTENDS AfdPoll, SequencesExt

\* The socket that is polled and the one that listens.
Sockets == {"data", "listening"}

AllEvents == Events
AllEventsExceptSend == AllEvents \ {"SEND"}

----------------------------------------------------------------------------
(* Statements.  A result is a set: the conditions of a poll, the error of  *)
(* a completion or what a call of the socket reports.                      *)

Statement(op, device, sock, events, result) ==
  [op |-> op, device |-> device, sock |-> sock, events |-> events, result |-> result]

Pending == {"pending"}
Completed == {"completed"}
Aborted == {"data", "ERROR_OPERATION_ABORTED"}
Timeout == {"WAIT_TIMEOUT"}
NoResult == {}

Call(op) == Statement(op, "afd", "data", {}, NoResult)
Poll(events, result) == Statement("poll", "afd", "data", events, result)
PollListening(result) == Statement("poll", "afd", "listening", AllEvents, result)
PollBase(events, result) == Statement("poll", "base", "data", events, result)
PollAlone(events, result) == Statement("poll alone", "base", "data", events, result)
\* GetCompletionAs, which returns the socket that was polled; its PollData
\* then holds the events
GetNow(result) == Statement("get", "afd", "data", {}, result)
GetFrom(device, result) == Statement("get", device, "data", {}, result)
GetForever(device, result) == Statement("get forever", device, "data", {}, result)
Report(events) == {"data"} \cup events
Read(result) == Statement("read", "afd", "data", {}, result)
ReadOOB(result) == Statement("read oob", "afd", "data", {}, result)

Up == {"CONNECT", "SEND"}

\* A poll for everything that completes at once, and its packet.
PollReports(events) == <<Poll(AllEvents, Completed), GetNow(Report(events))>>

\* How most tests begin: the socket is polled and then connects.
Connects == <<Poll(AllEvents, Pending), Call("connect"), GetNow(Report(Up))>>
ConnectsAndAccepts == Connects \o <<Call("accept")>>

----------------------------------------------------------------------------
(* understand/understand.cpp                                               *)

TestConnectFail ==
  <<Poll(AllEvents, Pending), Call("connect to nobody"),
    GetForever("afd", Report({"CONNECT_FAIL"}))>>

TestConnectCancel ==
  <<Poll(AllEvents, Pending), Call("connect to nobody"), Call("cancel"),
    GetForever("afd", Aborted)>>

TestConnectCancelAll ==
  <<Poll(AllEvents, Pending), Call("connect to nobody"), Call("cancel"),
    GetForever("afd", Aborted)>>

TestConnect ==
  ConnectsAndAccepts
  \o <<Call("remote close")>> \o PollReports(Up \cup {"DISCONNECT"})
  \o <<Read({"closed"})>>

TestConnectAndRemoteShutdownSend ==
  ConnectsAndAccepts
  \o <<Call("remote shutdown send")>> \o PollReports(Up \cup {"DISCONNECT"})
  \o <<Read({"closed"}), Call("remote close")>>
  \o PollReports(Up \cup {"DISCONNECT"}) \o <<Read({"closed"})>>

TestConnectAndRemoteShutdownRecv ==
  ConnectsAndAccepts
  \o <<Call("remote shutdown receive")>> \o PollReports(Up)
  \o <<Call("remote close")>> \o PollReports(Up \cup {"DISCONNECT"})
  \o <<Read({"closed"})>>

TestConnectAndRemoteRST ==
  ConnectsAndAccepts
  \o <<Call("remote shutdown receive")>> \o PollReports(Up)
  \o <<Call("remote abort")>> \o PollReports(Up \cup {"ABORT"})
  \o <<Read({"WSAECONNRESET"})>>

TestConnectAndRemoteSend ==
  ConnectsAndAccepts
  \o <<Call("remote send")>> \o PollReports(Up \cup {"RECEIVE"})
  \o <<Read({"all"})>> \o PollReports(Up)

TestConnectAndRemoteSendOOB ==
  ConnectsAndAccepts
  \o <<Call("remote send oob")>> \o PollReports(Up \cup {"RECEIVE_EXPEDITED"})
  \o <<Read({"nothing"})>> \o PollReports(Up \cup {"RECEIVE_EXPEDITED"})
  \o <<ReadOOB({"all"})>> \o PollReports(Up)

TestConnectAndRemoteSendOOBAndNormalData ==
  ConnectsAndAccepts
  \o <<Call("remote send oob"), Call("remote send")>>
  \o PollReports(Up \cup {"RECEIVE", "RECEIVE_EXPEDITED"})
  \o <<Read({"all"})>> \o PollReports(Up \cup {"RECEIVE_EXPEDITED"})
  \o <<ReadOOB({"all"})>> \o PollReports(Up)

\* The loop ends with a write that is taken as a whole and leaves no room.
\* For a write that falls short the test asserts that a poll for everything
\* stays pending, although CONNECT holds: that branch is left out.
TestConnectAndLocalSend ==
  ConnectsAndAccepts \o PollReports(Up) \o <<Call("send")>> \o PollReports(Up)
  \o <<Call("send until full")>> \o PollReports({"CONNECT"})
  \o <<Call("remote read")>> \o PollReports(Up)

TestConnectAndLocalSend2 ==
  ConnectsAndAccepts \o PollReports(Up)
  \o <<Call("send"), Call("send until full"),
       Poll(AllEvents \ {"CONNECT"}, Pending), Call("remote read"),
       Poll(AllEvents \ {"CONNECT"}, Completed), GetNow(Report({"SEND"}))>>

TestConnectAndLocalClose ==
  ConnectsAndAccepts
  \o <<Poll(AllEventsExceptSend \ {"CONNECT"}, Pending), Call("close"),
       GetNow(Report({"LOCAL_CLOSE"}))>>

TestConnectAndLocalShutdownSend ==
  ConnectsAndAccepts
  \o <<Poll(AllEventsExceptSend \ {"CONNECT"}, Pending), Call("shutdown"),
       GetNow(Timeout)>>

TestConnectAndLocalShutdownRecv ==
  ConnectsAndAccepts
  \o <<Poll(AllEventsExceptSend \ {"CONNECT"}, Pending), Call("shutdown"),
       GetNow(Timeout)>>

TestAccept ==
  <<PollListening(Pending), Call("connect"), GetNow({"listening", "ACCEPT"}),
    Call("accept"), PollListening(Pending), Call("remote close"), GetNow(Timeout)>>

TestPollIsLevelTriggered == Connects \o PollReports(Up) \o PollReports(Up)

TestPollCompletionReportsStateAtTimeOfPoll ==
  ConnectsAndAccepts \o PollReports(Up)
  \o <<Poll(AllEvents \ Up, Pending), Call("remote close"),
       GetNow(Report({"DISCONNECT"})),
       Poll(AllEvents \ Up, Completed), GetNow(Report({"DISCONNECT"})),
       Read({"closed"})>>

TestSkipCompletionPortOnSuccess ==
  <<Call("skip port on success")>> \o Connects
  \o <<Statement("poll and get", "afd", "data", AllEvents, Report(Up)), GetNow(Timeout)>>

TestPollOnceGivesOneCompletion ==
  <<Poll(AllEvents, Pending), Call("connect to nobody"), Call("cancel"),
    GetNow(Aborted), GetNow(Timeout), GetNow(Timeout)>>

TestPollTwiceSameDataGivesTwoCompletions ==
  <<Poll(AllEvents, Pending), Poll(AllEvents, Pending), Call("connect to nobody"),
    Call("cancel"), GetNow(Aborted), GetNow(Aborted), GetNow(Timeout)>>

TestPollTwiceSameDataDifferentEvents ==
  <<Poll({"SEND"}, Pending), Poll({"ABORT"}, Pending), Call("connect"),
    GetNow(Report({"SEND"})), GetNow(Timeout), Call("accept"),
    Call("remote abort"), GetNow(Timeout)>>

TestInputSmallerThanOutput ==
  <<Poll(AllEvents, Pending), Call("connect to nobody"), Call("cancel"),
    GetNow(Aborted), GetNow(Timeout), GetNow(Timeout)>>

TestDuplicateNameAssociateSocket ==
  Connects
  \o <<GetFrom("afd2", Timeout),
       Statement("poll", "afd2", "data", AllEvents, Completed),
       GetFrom("afd2", Report(Up)), GetNow(Timeout)>>

TestMoveSocketBetweenAfdHandles ==
  Connects
  \o <<Statement("poll", "afd2", "data", AllEvents, Completed),
       GetFrom("afd2", Report(Up))>>

----------------------------------------------------------------------------
(* socket_without_device_afd/explore.cpp and the explore programs          *)

ExploreEvents == AllEvents \ {"CONNECT"}
BaseTimeout == GetFrom("base", Timeout)
BaseAborted == GetFrom("base", Aborted)

TestSinglePoll ==
  <<PollBase(ExploreEvents, Pending), BaseTimeout, Call("cancel"), BaseAborted>>

TestMultiplPollsExclusiveFalse ==
  <<PollBase(ExploreEvents, Pending), BaseTimeout,
    PollBase(ExploreEvents, Pending), BaseTimeout,
    Call("cancel"), BaseAborted, BaseAborted>>

TestMultiplPollsExclusiveTrue ==
  <<PollAlone(ExploreEvents, Pending), BaseTimeout,
    PollAlone(ExploreEvents, Pending), GetFrom("base", Report({})),
    Call("cancel"), BaseAborted, BaseTimeout>>

Explore ==
  <<Poll(ExploreEvents, Pending), GetNow(Timeout), Call("connect to nobody"),
    GetForever("afd", Report({"CONNECT_FAIL"}))>>

ExploreWithoutDeviceAfd ==
  <<PollBase(ExploreEvents, Pending), BaseTimeout, Call("connect to nobody"),
    GetForever("base", Report({"CONNECT_FAIL"}))>>

Tests ==
  <<TestConnectFail, TestConnectCancel, TestConnectCancelAll, TestConnect,
    TestConnectAndRemoteShutdownSend, TestConnectAndRemoteShutdownRecv,
    TestConnectAndRemoteRST, TestConnectAndRemoteSend,
    TestConnectAndRemoteSendOOB, TestConnectAndRemoteSendOOBAndNormalData,
    TestConnectAndLocalSend, TestConnectAndLocalSend2, TestConnectAndLocalClose,
    TestConnectAndLocalShutdownSend, TestConnectAndLocalShutdownRecv,
    TestAccept, TestPollIsLevelTriggered,
    TestPollCompletionReportsStateAtTimeOfPoll, TestSkipCompletionPortOnSuccess,
    TestPollOnceGivesOneCompletion, TestPollTwiceSameDataGivesTwoCompletions,
    TestPollTwiceSameDataDifferentEvents, TestInputSmallerThanOutput,
    TestDuplicateNameAssociateSocket, TestMoveSocketBetweenAfdHandles,
    TestSinglePoll, TestMultiplPollsExclusiveFalse,
    TestMultiplPollsExclusiveTrue, Explore, ExploreWithoutDeviceAfd>>

----------------------------------------------------------------------------

VARIABLES
  test,        \* the test that runs
  pc,          \* its next statement
  result,      \* what the statement before it has returned
  net,         \* the sockets as the driver sees them
  requests,    \* the pending polls, oldest first
  packets,     \* the packets queued on the devices' ports, oldest first
  skip         \* the devices with FILE_SKIP_COMPLETION_PORT_ON_SUCCESS

vars == <<test, pc, result, net, requests, packets, skip>>

At == Tests[test][pc]

\* The statement at pc is op.
Executes(op) ==
  /\ pc <= Len(Tests[test])
  /\ At.op = op
  /\ pc' = pc + 1
  /\ UNCHANGED test

\* It returns r.
Runs(op, r) == Executes(op) /\ result' = r

Packet(r, events) == [device |-> r.device, report |-> {r.sock} \cup events]

\* The packets of the pending polls that Chosen selects.
Packets(Chosen(_), Reported(_)) ==
  LET done == SelectSeq(requests, Chosen)
  IN [i \in DOMAIN done |-> Packet(done[i], Reported(done[i]))]

----------------------------------------------------------------------------
(* The driver (external)                                                   *)

\* mutant: a poll that stays pending when another one completes is kept
SettleKeepingPolls(sockets) ==
  LET Holding(r) == r.events \cap Ready(sockets[r.sock])
      Satisfied(r) == Holding(r) # {}
      Kept(r) == ~Satisfied(r)
  IN /\ net' = sockets
     /\ packets' = packets \o Packets(Satisfied, Holding)
     /\ requests' = SelectSeq(requests, Kept)

\* The condition of the sockets changes: the polls that now are satisfied
\* complete, and the other polls of the same socket are dropped with them.
Settle(sockets) ==
  LET Holding(r) == r.events \cap Ready(sockets[r.sock])
      Satisfied(r) == Holding(r) # {}
      Kept(r) == \A i \in DOMAIN requests :
                   Satisfied(requests[i]) => requests[i].sock # r.sock
  IN /\ net' = sockets
     /\ packets' = packets \o Packets(Satisfied, Holding)
     /\ requests' = SelectSeq(requests, Kept)

\* The network refuses the connection, seconds later.
Refuse ==
  /\ pc <= Len(Tests[test]) /\ At.op = "get forever"
  /\ net["data"].link = "connecting"
  /\ Settle([net EXCEPT !["data"].link = "refused"])
  /\ UNCHANGED <<test, pc, result, skip>>

----------------------------------------------------------------------------
(* shared/afd.h                                                            *)

\* What a new poll reports at once.
AtOnce(r) == r.events \cap Ready(net[r.sock])

Request == [device |-> At.device, sock |-> At.sock, events |-> At.events]

\* A poll that completes at once queues a packet all the same, unless its
\* device skips the port; otherwise it is pending.
Submit(r) ==
  /\ requests' = IF AtOnce(r) = {} THEN Append(requests, r) ELSE requests
  /\ packets' = IF AtOnce(r) = {} \/ r.device \in skip THEN packets
                ELSE Append(packets, Packet(r, AtOnce(r)))
  /\ UNCHANGED <<net, skip>>

SetupPollForSocketEvents ==
  /\ Runs("poll", IF AtOnce(Request) = {} THEN Pending ELSE Completed)
  /\ Submit(Request)

PollForSocketEvents ==
  /\ Runs("poll and get", {At.sock} \cup AtOnce(Request))
  /\ Submit(Request)

\* An exclusive poll ends the one that is pending, with a report of nothing.
PollExclusively ==
  LET Rival(r) == r.sock = At.sock
      Kept(r) == ~Rival(r)
      Nothing(r) == {}
  IN /\ Runs("poll alone", Pending)
     /\ packets' = packets \o Packets(Rival, Nothing)
     /\ requests' = Append(SelectSeq(requests, Kept), Request)
     /\ UNCHANGED <<net, skip>>

\* CancelPoll, CancelAllPolling, NtCancelIoFileEx: all the polls with the
\* status block are cancelled.
Cancel ==
  LET All(r) == TRUE
      Error(r) == {"ERROR_OPERATION_ABORTED"}
  IN /\ Runs("cancel", NoResult)
     /\ packets' = packets \o Packets(All, Error)
     /\ requests' = <<>>
     /\ UNCHANGED <<net, skip>>

\* The packets on the statement's port, and the first of them.
Queued == {i \in DOMAIN packets : packets[i].device = At.device}
Take ==
  LET i == CHOOSE i \in Queued : \A j \in Queued : i <= j
  IN /\ result' = packets[i].report
     /\ packets' = RemoveAt(packets, i)

\* GetCompletionAs; the time-out passes before another statement runs.
GetCompletion ==
  /\ Executes("get")
  /\ IF Queued # {} THEN Take ELSE result' = Timeout /\ UNCHANGED packets
  /\ UNCHANGED <<net, requests, skip>>

\* The time-out is INFINITE.
GetCompletionInfinite ==
  /\ Executes("get forever")
  /\ Queued # {} /\ Take
  /\ UNCHANGED <<net, requests, skip>>

SkipCompletionPort ==
  /\ Runs("skip port on success", NoResult)
  /\ skip' = skip \cup {At.device}
  /\ UNCHANGED <<net, requests, packets>>

----------------------------------------------------------------------------
(* shared/socket.h                                                         *)

\* The connection is established at once, before anybody accepts it: the
\* listening socket has one more to accept and the connecting one is up.
Connect ==
  /\ Runs("connect", NoResult)
  /\ Settle([net EXCEPT !["data"].link = "up", !["listening"].inbox = @ + 1])
  /\ UNCHANGED skip

\* A call that changes nothing but the condition of a socket.
Changes(op, x, e) ==
  Runs(op, NoResult) /\ Settle([net EXCEPT ![x] = e]) /\ UNCHANGED skip

ConnectToNobody ==
  Changes("connect to nobody", "data", [net["data"] EXCEPT !.link = "connecting"])

Accept ==
  Changes("accept", "listening", [net["listening"] EXCEPT !.inbox = @ - 1])

Close == Changes("close", "data", ClosedEndpoint)

RemoteClose == Changes("remote close", "data", [net["data"] EXCEPT !.fin = TRUE])
RemoteShutdownSend ==
  Changes("remote shutdown send", "data", [net["data"] EXCEPT !.fin = TRUE])
RemoteAbort == Changes("remote abort", "data", ResetEndpoint(net["data"]))
RemoteSend == Changes("remote send", "data", [net["data"] EXCEPT !.inbox = 1])
RemoteSendOOB == Changes("remote send oob", "data", [net["data"] EXCEPT !.urgent = TRUE])
RemoteRead == Changes("remote read", "data", [net["data"] EXCEPT !.room = TRUE])
SendUntilFull == Changes("send until full", "data", [net["data"] EXCEPT !.room = FALSE])

\* Nothing the driver reports changes: a send that leaves room, a shutdown
\* of either direction by this side, or of receiving by the other.
NoChange ==
  /\ \E op \in {"send", "shutdown", "remote shutdown receive"} : Runs(op, NoResult)
  /\ UNCHANGED <<net, requests, packets, skip>>

\* ReadClientClose, ReadFails, ReadAndDiscardAllAvailable.
Recv ==
  LET e == net["data"] IN
  /\ Runs("read", IF e.link = "reset" THEN {"WSAECONNRESET"}
                  ELSE IF e.inbox > 0 THEN {"all"}
                  ELSE IF e.fin THEN {"closed"} ELSE {"nothing"})
  /\ net' = [net EXCEPT !["data"].inbox = 0]
  /\ UNCHANGED <<requests, packets, skip>>

RecvOOB ==
  /\ Runs("read oob", IF net["data"].urgent THEN {"all"} ELSE {"nothing"})
  /\ net' = [net EXCEPT !["data"].urgent = FALSE]
  /\ UNCHANGED <<requests, packets, skip>>

----------------------------------------------------------------------------

Init ==
  /\ test \in DOMAIN Tests
  /\ pc = 1
  /\ result = NoResult
  /\ net = [data |-> NewEndpoint,
            listening |-> [NewEndpoint EXCEPT !.link = "listening"]]
  /\ requests = <<>>
  /\ packets = <<>>
  /\ skip = {}

Next ==
  \/ Refuse
  \/ SetupPollForSocketEvents \/ PollForSocketEvents
  \/ PollExclusively \/ Cancel
  \/ GetCompletion \/ GetCompletionInfinite \/ SkipCompletionPort
  \/ Connect \/ ConnectToNobody \/ Accept \/ Close \/ SendUntilFull
  \/ RemoteClose \/ RemoteShutdownSend \/ RemoteAbort \/ RemoteSend
  \/ RemoteSendOOB \/ RemoteRead \/ NoChange \/ Recv \/ RecvOOB

Spec == Init /\ [][Next]_vars /\ WF_vars(Next)

----------------------------------------------------------------------------

\* Every test ends: no completion that a test waits for without a time-out
\* stays away (understand.cpp:69, explore.cpp:219).  And every result it
\* asserts is the one that AfdPoll's contract gives: level triggering, the one
\* completion of each poll, what a completion reports and which polls are
\* lost (understand.cpp:42-1251, explore.cpp:73-494).
TestsPass ==
  /\ [](pc > 1 => result = Tests[test][pc - 1].result)
  /\ <>(pc > Len(Tests[test]))

============================================================================
