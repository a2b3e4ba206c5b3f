--------------------------- MODULE MCServerStream ---------------------------
(* ServerStream on a small instance: headers of two bytes and payloads of  *)
(* none, one or two, so that the network can cut a header, a payload and a *)
(* frame boundary, and a server that may send an empty payload or a header *)
(* the client does not know.                                               *)
EXTENDS ServerStream
=============================================================================
