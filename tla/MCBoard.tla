------------------------------- MODULE MCBoard -------------------------------
(* Board with the code as it is, with one of its two steps repaired and    *)
(* with both.                                                              *)
EXTENDS Board
=============================================================================
