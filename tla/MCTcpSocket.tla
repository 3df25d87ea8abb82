---------------------------- MODULE MCTcpSocket ----------------------------
(* TcpSocket with small values for its constants; the poll requests are    *)
(* alike, which the safety runs use.                                       *)
EXTENDS TcpSocket, TLC

PollSymmetry == Permutations(PollIds)

============================================================================
