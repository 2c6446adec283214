------------------------------ MODULE MCIndex ------------------------------
(* Instances of Index for TLC                                              *)
EXTENDS Index
=============================================================================
