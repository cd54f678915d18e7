---------------------------- MODULE MCPasteStore ----------------------------
(* Instances of PasteStore for model checking.  Requests of one kind are       *)
(* interchangeable.                                                            *)
EXTENDS PasteStore, TLC

Symmetric == Permutations(Creators) \cup Permutations(Readers)
=============================================================================
