------------------------- MODULE EchoClientProgram -------------------------
(***************************************************************************)
(* The echo_client class of both designs, without its socket: it sends     *)
(* number_of_messages messages, each after the one before has come back.   *)
(* write_data and read_data call each other; every call of the socket is   *)
(* one step here, which EchoClient and DirectEchoClient combine with what  *)
(* the socket does.                                                        *)
(***************************************************************************)
EXTENDS Naturals

CONSTANTS
  number_of_messages,
  MessageSize         \* units of data in a message

ASSUME ProgramAssumption ==
  number_of_messages \in Nat /\ MessageSize \in Nat \ {0}

VARIABLES
  at,                       \* what the running callback does next
  bytes_read,
  number_of_messages_sent,
  is_done,
  thrown                    \* the exception that has left a callback

program == <<at, bytes_read, number_of_messages_sent, is_done, thrown>>

\* What each callback does first.
Entry ==
  [none |-> "none", on_connected |-> "write_data", on_readable |-> "read_data",
   on_client_close |-> "shutdown", on_connection_reset |-> "close",
   on_disconnected |-> "done", on_connection_failed |-> "throw",
   on_readable_oob |-> "throw", on_writable |-> "throw",
   on_connection_complete |-> "return"]

\* Callback run is called.
Called(run) ==
  /\ at' = Entry[run]
  /\ thrown' = CASE run = "on_connection_failed" -> "connection failed"
                 [] run \in {"on_readable_oob", "on_writable"} -> "unexpected"
                 [] OTHER -> thrown
  /\ is_done' = (is_done \/ run = "on_connection_failed")
  /\ UNCHANGED <<bytes_read, number_of_messages_sent>>

Throws(exception) ==
  /\ at' = "throw" /\ thrown' = exception
  /\ UNCHANGED <<bytes_read, number_of_messages_sent, is_done>>

MoreToSend == number_of_messages_sent < number_of_messages

\* write_data: write() took the whole message.
MessageSent ==
  /\ at = "write_data" /\ MoreToSend
  /\ number_of_messages_sent' = number_of_messages_sent + 1
  /\ at' = "read_data"
  /\ UNCHANGED <<bytes_read, is_done, thrown>>

\* mutant: a write that falls short is taken for a complete one
MessageNotSentIgnored ==
  /\ at = "write_data" /\ MoreToSend
  /\ number_of_messages_sent' = number_of_messages_sent + 1
  /\ at' = "read_data"
  /\ UNCHANGED <<bytes_read, is_done, thrown>>

\* write_data: write() took less.
MessageNotSent ==
  /\ at = "write_data" /\ MoreToSend
  /\ Throws("failed to send all data")

\* write_data: every message has come back.
LastMessageBack ==
  /\ at = "write_data" /\ ~MoreToSend
  /\ at' = "close"
  /\ UNCHANGED <<bytes_read, number_of_messages_sent, is_done, thrown>>

\* mutant: whatever arrives is taken for the whole message
AnyDataRead(n) ==
  /\ at = "read_data"
  /\ bytes_read' = 0
  /\ at' = "write_data"
  /\ UNCHANGED <<number_of_messages_sent, is_done, thrown>>

\* read_data: read() returned n units of data.
DataRead(n) ==
  /\ at = "read_data"
  /\ bytes_read + n <= MessageSize
  /\ IF bytes_read + n = MessageSize
     THEN bytes_read' = 0 /\ at' = "write_data"
     ELSE bytes_read' = bytes_read + n /\ at' = at
  /\ UNCHANGED <<number_of_messages_sent, is_done, thrown>>

\* read_data: read() returned 0, the callback returns.
NothingRead ==
  /\ at = "read_data"
  /\ at' = "return"
  /\ UNCHANGED <<bytes_read, number_of_messages_sent, is_done, thrown>>

\* The last statement of a callback that ends the program.
Finishes(statement) ==
  /\ at = statement
  /\ is_done' = TRUE
  /\ at' = "return"
  /\ UNCHANGED <<bytes_read, number_of_messages_sent, thrown>>

Looping == ~is_done /\ thrown = "none"

ProgramInit ==
  /\ at = "none"
  /\ bytes_read = 0
  /\ number_of_messages_sent = 0
  /\ is_done = FALSE
  /\ thrown = "none"

============================================================================
