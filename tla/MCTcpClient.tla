---------------------------- MODULE MCTcpClient ----------------------------
(* A ring of four bytes; packets that fit into it, one that does not, and  *)
(* a chain of two pbufs.                                                   *)
EXTENDS TcpClient

OneCpu == [sameCpu |-> TRUE, ordered |-> TRUE]
TwoCpus == [sameCpu |-> FALSE, ordered |-> TRUE]
Unordered == [sameCpu |-> FALSE, ordered |-> FALSE]

MCPackets == {<<1>>, <<4>>, <<1, 2>>}

AllApps == {OneCpu, TwoCpus, Unordered}
=============================================================================
