-------------------------- MODULE ConnectionEvents --------------------------
(***************************************************************************)
(* What a tcp_socket promises the tcp_socket_callbacks it calls, in either *)
(* design: the order in which the events of one connection are told.       *)
(* TcpSocket and DirectSocket implement it.  It knows nothing of polls,    *)
(* packets or the driver.                                                  *)
(***************************************************************************)
EXTENDS Sequences, Naturals

VARIABLES
  phase,     \* how far the application has been told the connection is:
             \* "new", "connecting", "open" or "ended"
  closed,    \* the application has closed the socket or deleted it
  deleted,   \* the application has deleted the socket
  calling    \* the callbacks in progress, innermost last

vars == <<phase, closed, deleted, calling>>

News == {"on_writable", "on_readable", "on_readable_oob"}
Ends == {"on_connection_reset", "on_client_close"}

Init == phase = "new" /\ closed = FALSE /\ deleted = FALSE /\ calling = <<>>

\* c is called by the main loop, by the call of connect() or accepted(), or
\* as the callback before it returns.
Calls(c) ==
  /\ ~deleted
  /\ \/ calling = <<>> /\ calling' = <<c>>
     \/ calling # <<>> /\ calling' = [calling EXCEPT ![Len(calling)] = c]

\* connect() or accepted()
Begin == phase = "new" /\ phase' = "connecting" /\ UNCHANGED <<closed, deleted, calling>>

OnConnected ==
  /\ phase = "connecting" /\ phase' = "open"
  /\ Calls("on_connected")
  /\ UNCHANGED <<closed, deleted>>

OnConnectionFailed ==
  /\ phase = "connecting" /\ phase' = "ended"
  /\ Calls("on_connection_failed")
  /\ UNCHANGED <<closed, deleted>>

\* Data and room may still be told of when the connection has ended.
OnNews ==
  /\ phase \in {"open", "ended"}
  /\ \E c \in News : Calls(c)
  /\ UNCHANGED <<phase, closed, deleted>>

OnEnd ==
  /\ phase \in {"open", "ended"} /\ phase' = "ended"
  /\ \E c \in Ends : Calls(c)
  /\ UNCHANGED <<closed, deleted>>

Close == closed' = TRUE /\ UNCHANGED <<phase, deleted, calling>>

\* Only a socket that is closed is disconnected; close() itself may say so,
\* and then inside the callback that has called it.
OnDisconnected ==
  /\ closed' = TRUE /\ phase' = "ended"
  /\ \/ closed /\ Calls("on_disconnected")
     \/ ~closed /\ calling' = Append(calling, "on_disconnected")
  /\ UNCHANGED deleted

OnConnectionComplete ==
  /\ closed
  /\ Calls("on_connection_complete")
  /\ UNCHANGED <<phase, closed, deleted>>

Delete ==
  /\ calling \in {<<>>, <<"on_connection_complete">>}
  /\ deleted' = TRUE /\ closed' = TRUE
  /\ UNCHANGED <<phase, calling>>

\* The innermost callback returns or throws.
Return ==
  /\ calling # <<>> /\ calling' = SubSeq(calling, 1, Len(calling) - 1)
  /\ UNCHANGED <<phase, closed, deleted>>

Next ==
  \/ Begin \/ OnConnected \/ OnConnectionFailed \/ OnNews \/ OnEnd
  \/ Close \/ OnDisconnected \/ OnConnectionComplete \/ Delete \/ Return

Spec == Init /\ [][Next]_vars

============================================================================
