------------------------------ MODULE MCServer ------------------------------
(* Server with a client that sends anything at any opportunity, and a      *)
(* server that answers with one or two frames and may send one unasked.    *)
EXTENDS Server
=============================================================================
