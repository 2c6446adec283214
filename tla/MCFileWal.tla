----------------------------- MODULE MCFileWal -----------------------------
(* Instances of FileWal for TLC: three transactions, so that a flush covers *)
(* records of several of them; two-record segments, so that one transaction *)
(* spans segments.                                                          *)
EXTENDS FileWal, TLC

CONSTANTS x1, x2, x3

TxnSymmetry == Permutations(Txns)
=============================================================================
