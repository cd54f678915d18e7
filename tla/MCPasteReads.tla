---------------------------- MODULE MCPasteReads ----------------------------
(* Instances of PasteReads for model checking.                                 *)
EXTENDS PasteReads, TLC

Symmetric == Permutations(Creators) \cup Permutations(Readers)
=============================================================================
