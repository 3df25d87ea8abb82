------------------------------ MODULE AfdPoll ------------------------------
(***************************************************************************)
(* The contract of IOCTL_AFD_POLL on \Device\Afd as the code in src/ uses  *)
(* it and as understand/understand.cpp observes it.  The driver itself is  *)
(* not part of the repository, so everything here is external: a poll is   *)
(* level triggered, it completes at once when the socket already is in a   *)
(* state it asks for, otherwise when the socket next enters one, and it    *)
(* then reports the asked-for conditions that hold at that moment.         *)
(***************************************************************************)
EXTENDS Naturals

Events ==      \* the AFD_POLL_* bits the code asks for or tests
  {"RECEIVE", "RECEIVE_EXPEDITED", "SEND", "DISCONNECT", "ABORT",
   "LOCAL_CLOSE", "CONNECT", "ACCEPT", "CONNECT_FAIL"}

(***************************************************************************)
(* One socket as the driver sees it: how far its link is, how much         *)
(* received data is unread (connections not yet accepted, if it listens),  *)
(* whether urgent data is unread, whether the peer's FIN has been          *)
(* received, and whether the send buffer has room.                         *)
(***************************************************************************)
Links == {"idle", "connecting", "up", "refused", "reset", "closed", "listening"}

Endpoints(maxInbox) ==
  [link : Links, inbox : 0..maxInbox, urgent : BOOLEAN, fin : BOOLEAN,
   room : BOOLEAN]

NewEndpoint ==
  [link |-> "idle", inbox |-> 0, urgent |-> FALSE, fin |-> FALSE, room |-> TRUE]

\* closesocket: whatever the connection was, only the local close is left
ClosedEndpoint == [NewEndpoint EXCEPT !.link = "closed"]

\* an RST: received data is discarded and nothing more is buffered
ResetEndpoint(e) ==
  [link |-> "reset", inbox |-> 0, urgent |-> FALSE, fin |-> e.fin, room |-> TRUE]

If(b, event) == IF b THEN {event} ELSE {}

\* The conditions that hold on an endpoint, whether or not anyone asks.
Ready(e) ==
  CASE e.link = "up" ->
         {"CONNECT"} \cup If(e.room, "SEND") \cup If(e.inbox > 0, "RECEIVE")
                     \cup If(e.urgent, "RECEIVE_EXPEDITED") \cup If(e.fin, "DISCONNECT")
    [] e.link = "reset" ->
         {"CONNECT", "SEND", "ABORT"} \cup If(e.fin, "DISCONNECT")
    [] e.link = "refused" -> {"CONNECT_FAIL"}
    [] e.link = "closed"  -> {"LOCAL_CLOSE"}
    [] e.link = "listening" -> If(e.inbox > 0, "ACCEPT")
    [] OTHER -> {}

\* The pending polls that must complete when the conditions in ready hold.
\* pend[i] is the set of events poll i asks for, {} when i is not pending.
Completing(pend, ready) == {i \in DOMAIN pend : pend[i] \cap ready # {}}

============================================================================
