------------------------------ MODULE MC_Buffer ------------------------------
(* Model-checking instance of Buffer.                                      *)
EXTENDS Buffer
=============================================================================
