---------------------------- MODULE MCPluginUnload ----------------------------
(* Small instances of PluginUnload, with interchangeable messages.            *)
EXTENDS PluginUnload, TLC

Symmetry == Permutations(Names)
=============================================================================
