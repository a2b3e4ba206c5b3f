----------------------------- MODULE MCSequence -----------------------------
(* Sequence with a kind that is replaced and a kind that is appended, two  *)
(* ids, pages of one id or two, and two turns.                             *)
EXTENDS Sequence
=============================================================================
