---------------------------- MODULE MCTcpStream ----------------------------
(* Five packets, three of them ticks, cut into segments that end inside
   packets; sequence numbers wrap after the fifth byte. *)
EXTENDS TcpStream

Starts    == {0, 2, 5, 7, 9}
Sizes     == [p \in Starts |-> CASE p = 2 -> 3 [] p = 9 -> 4 [] OTHER -> 2]
Ticks     == [p \in Starts |-> CASE p = 0 -> 1 [] p = 5 -> 2 [] p = 7 -> 3 [] OTHER -> 0]
Keys      == [p \in Starts \cup {13} |-> CASE p = 0 -> 0 [] p = 2 -> 1 [] p = 5 -> 3
                                          [] p = 7 -> 4 [] p = 9 -> 5 [] OTHER -> 8]
Segments  == {[pos |-> 0, len |-> 2], [pos |-> 2, len |-> 2], [pos |-> 4, len |-> 2],
              [pos |-> 6, len |-> 3], [pos |-> 9, len |-> 2], [pos |-> 11, len |-> 2]}
=============================================================================
