---------------------------- MODULE MCIocpServer ----------------------------
(***************************************************************************)
(* Instances of IocpServer for TLC.                                        *)
(***************************************************************************)
EXTENDS IocpServerInv, TLC

(* What one receive may complete: nothing (a packet is still partial), a   *)
(* single packet, or an exit with a packet behind it.                      *)
BurstsAll    == {<<>>, <<"chat">>, <<"exit">>, <<"query">>, <<"junk">>, <<"bad">>,
                 <<"exit", "query">>}
BurstsTalk   == {<<"chat">>, <<"query", "query">>}
BurstsLeave  == {<<"exit">>, <<"chat">>, <<"query">>}
BurstsQuery  == {<<"query">>}

WorkerSymmetry  == Permutations(Workers)
Symmetry == Permutations(Workers) \cup Permutations(Conns) \cup Permutations(Sessions)
=============================================================================
