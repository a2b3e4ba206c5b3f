---------------------------- MODULE FrameChannel ----------------------------
(***************************************************************************)
(* What server.c promises to the rest of the client about one connection:  *)
(* the frames the game server writes reach server_handle_packet() whole,   *)
(* once each and in the order they were written, up to the first frame the *)
(* client cannot take, if there is one.  How TCP cuts the byte stream into *)
(* pieces does not show here; ServerStream is the detailed specification.  *)
(***************************************************************************)
EXTENDS Naturals, Sequences

CONSTANTS
  Frame,                    \* what a server may write
  Good(_)                   \* the frames the client can take

VARIABLES
  sent,                     \* the frames written, oldest first
  handled,                  \* the frames given to server_handle_packet()
  broken                    \* the client has given up on the connection

vars == <<sent, handled, broken>>

Init ==
  /\ sent = <<>>
  /\ handled = <<>>
  /\ broken = FALSE

NextFrame == sent[Len(handled) + 1]
Pending == Len(handled) < Len(sent)

(* The server writes one more frame. *)
Write ==
  /\ sent' \in Seq(Frame)
  /\ Len(sent') = Len(sent) + 1
  /\ SubSeq(sent', 1, Len(sent)) = sent
  /\ UNCHANGED <<handled, broken>>

(* The oldest frame that has not been handled is handled. *)
Handle ==
  /\ ~broken
  /\ Pending
  /\ Good(NextFrame)
  /\ handled' = Append(handled, NextFrame)
  /\ UNCHANGED <<sent, broken>>

(* The client gives up, and only over a frame it cannot take. *)
Break ==
  /\ ~broken
  /\ Pending
  /\ ~Good(NextFrame)
  /\ broken' = TRUE
  /\ UNCHANGED <<sent, handled>>

Next == Write \/ Handle \/ Break

Spec ==
  /\ Init
  /\ [][Next]_vars

(* No good frame waits for ever. *)
FairSpec ==
  /\ Spec
  /\ WF_vars(Handle)
=============================================================================
