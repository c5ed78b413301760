---------------------------- MODULE MCReceivePath ----------------------------
(***************************************************************************)
(* Instances of ReceivePath for TLC.                                       *)
(***************************************************************************)
EXTENDS ReceivePathInv

AllSizes == 0 .. 5
P(s, n)  == [size |-> s, len |-> n, exit |-> FALSE]
Exit     == [size |-> 3, len |-> 3, exit |-> TRUE]

(* Every well-formed length, an exit, sizes below and above what Pop       *)
(* accepts, and a packet that declares more bytes than it has.             *)
AnyPackets  == {P(2, 2), P(3, 3), P(4, 4), Exit, P(1, 2), P(5, 5), P(4, 2)}
=============================================================================
