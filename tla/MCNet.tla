-------------------------------- MODULE MCNet --------------------------------
(***************************************************************************)
(* Net with rings of two entries: the names of pbufs do not matter.        *)
(***************************************************************************)
EXTENDS Net, TLC

Renaming == Permutations(RxPbuf) \union Permutations(TxPbuf)
=============================================================================
