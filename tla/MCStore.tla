------------------------------ MODULE MCStore ------------------------------
(* The instances of both modes: who may call what, and from which trie. *)
EXTENDS Store, MCMvccStore, MCSubtree
=============================================================================
