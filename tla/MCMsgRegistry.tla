---------------------------- MODULE MCMsgRegistry ----------------------------
(* A small instance of MsgRegistry: the clients are interchangeable, and so  *)
(* are the names.                                                            *)
EXTENDS MsgRegistry, TLC

Symmetry == Permutations(Holders) \cup Permutations(Names)
=============================================================================
