---------------------------- MODULE ServerStream ----------------------------
(***************************************************************************)
(* The receive path of server.c: server_receive() is called by Ecore with  *)
(* whatever piece of the TCP stream has arrived, puts it behind the bytes  *)
(* saved by the previous call, cuts off complete frames and hands them to  *)
(* server_handle_packet(), and saves the rest for the next call.           *)
(*                                                                         *)
(* A byte is represented by its offset in the stream: that is all the code *)
(* can get wrong.  A frame is where it starts, how long its payload is and *)
(* whether its header begins with the magic number of protocol 3 or 4.     *)
(* The program exits when it finds no magic number where it looks for a    *)
(* header; the payload of a frame is assumed not to look like one.         *)
(***************************************************************************)
EXTENDS Naturals, Sequences

CONSTANTS
  HeaderSize,     \* 16 in the code
  Lens,           \* payload lengths the server uses
  Magics,         \* {TRUE}: a Thousand Parsec server; FALSE: other magic
  MaxFrames       \* bound: frames written in a behaviour

ASSUME HeaderSizeAssumption == HeaderSize \in Nat \ {0}
ASSUME LensAssumption == Lens \subseteq Nat
ASSUME MagicsAssumption == Magics \subseteq BOOLEAN
ASSUME MaxFramesAssumption == MaxFrames \in Nat

VARIABLES
  sent,           \* frames the server has written, a Frame each
  arrived,        \* number of bytes Ecore has passed to server_receive()
  held,           \* server->buf: the bytes saved between two calls
  work,           \* start and remaining: the bytes of the call in progress
  handled,        \* frames given to server_handle_packet()
  pc              \* "idle", "parse", "exited" or "aborted"

vars == <<sent, arrived, held, work, handled, pc>>

Frame == [at : Nat, len : Lens, magic : Magics]

(* The offset just behind a frame. *)
End(f) == f.at + HeaderSize + f.len

(* The number of bytes the first n frames of s take. *)
Extent(s, n) == IF n = 0 THEN 0 ELSE End(s[n])

Written == Extent(sent, Len(sent))

(* The stream from offset a up to offset b, b excluded. *)
Bytes(a, b) == [i \in 1..(b - a) |-> a + i - 1]

(* A header with a known magic number is found at offset b. *)
MagicAt(b) == \E k \in 1..Len(sent) : sent[k].at = b /\ sent[k].magic

HeaderAt(b) == sent[CHOOSE k \in 1..Len(sent) : sent[k].at = b]

Init ==
  /\ sent = <<>>
  /\ arrived = 0
  /\ held = <<>>
  /\ work = <<>>
  /\ handled = <<>>
  /\ pc = "idle"

-----------------------------------------------------------------------------

(* The game server writes a frame. *)
WriteFrame(len, magic) ==
  /\ Len(sent) < MaxFrames
  /\ sent' = Append(sent, [at |-> Written, len |-> len, magic |-> magic])
  /\ UNCHANGED <<arrived, held, work, handled, pc>>

(* Mutant: the bytes of the previous call are not put in front. *)
ReceiveForgetsHeld(n) ==
  /\ pc = "idle"
  /\ arrived' = arrived + n
  /\ work' = Bytes(arrived, arrived + n)
  /\ held' = <<>>
  /\ pc' = "parse"
  /\ UNCHANGED <<sent, handled>>

(* Mutant: the saved bytes are used and stay saved. *)
ReceiveKeepsHeld(n) ==
  /\ pc = "idle"
  /\ arrived' = arrived + n
  /\ work' = held \o Bytes(arrived, arrived + n)
  /\ pc' = "parse"
  /\ UNCHANGED <<sent, held, handled>>

(* Ecore reports n more bytes: the call starts by joining them to the      *)
(* saved ones.                                                             *)
Receive(n) ==
  /\ pc = "idle"
  /\ arrived' = arrived + n
  /\ work' = held \o Bytes(arrived, arrived + n)
  /\ held' = <<>>
  /\ pc' = "parse"
  /\ UNCHANGED <<sent, handled>>

(* The loop goes round only with more than a header's worth of bytes. *)
HeaderReady == Len(work) > HeaderSize

(* Mutant: a frame must be followed by another byte to be complete. *)
FrameReadyStrict ==
  /\ HeaderReady
  /\ MagicAt(work[1])
  /\ HeaderSize + HeaderAt(work[1]).len < Len(work)

(* The header in front belongs to a frame that is here to its last byte. *)
FrameReady ==
  /\ HeaderReady
  /\ MagicAt(work[1])
  /\ HeaderSize + HeaderAt(work[1]).len <= Len(work)

(* Mutant: start moves over the payload and not over the header. *)
HandlePacketKeepsHeader ==
  /\ pc = "parse"
  /\ FrameReady
  /\ LET f == HeaderAt(work[1])
     IN  /\ handled' = Append(handled, f)
         /\ work' = SubSeq(work, f.len + 1, Len(work))
  /\ UNCHANGED <<sent, arrived, held, pc>>

(* Mutant: start does not move. *)
HandlePacketNoAdvance ==
  /\ pc = "parse"
  /\ FrameReady
  /\ handled' = Append(handled, HeaderAt(work[1]))
  /\ UNCHANGED <<sent, arrived, held, work, pc>>

(* Mutant: one frame a call, an if where the loop is. *)
HandlePacketOnce ==
  /\ pc = "parse"
  /\ FrameReady
  /\ LET f == HeaderAt(work[1])
     IN  /\ handled' = Append(handled, f)
         /\ held' = SubSeq(work, HeaderSize + f.len + 1, Len(work))
  /\ work' = <<>>
  /\ pc' = "idle"
  /\ UNCHANGED <<sent, arrived>>

(* A frame is handed over and cut off.  The assertion at the start of      *)
(* server_handle_packet() stops the program when the payload is empty: the *)
(* data pointer it is given is never NULL.                                 *)
HandlePacket ==
  /\ pc = "parse"
  /\ FrameReady
  /\ LET f == HeaderAt(work[1])
     IN  IF f.len = 0
         THEN /\ pc' = "aborted"
              /\ UNCHANGED <<handled, work>>
         ELSE /\ handled' = Append(handled, f)
              /\ work' = SubSeq(work, HeaderSize + f.len + 1, Len(work))
              /\ UNCHANGED pc
  /\ UNCHANGED <<sent, arrived, held>>

(* The front of the buffer is not a header: "Invalid magic". *)
BadMagic ==
  /\ pc = "parse"
  /\ HeaderReady
  /\ ~MagicAt(work[1])
  /\ pc' = "exited"
  /\ UNCHANGED <<sent, arrived, held, work, handled>>

(* No complete frame is left: what remains is saved and the call returns. *)
SaveRest ==
  /\ pc = "parse"
  /\ ~FrameReady
  /\ (HeaderReady => MagicAt(work[1]))
  /\ held' = work
  /\ work' = <<>>
  /\ pc' = "idle"
  /\ UNCHANGED <<sent, arrived, handled>>

Arrival == \E n \in 1..(Written - arrived) : Receive(n)

Parse == HandlePacket \/ BadMagic \/ SaveRest

Next ==
  \/ \E len \in Lens, magic \in Magics : WriteFrame(len, magic)
  \/ Arrival
  \/ Parse

Spec ==
  /\ Init
  /\ [][Next]_vars

(* The network delivers what was written, in pieces of its choosing, and a *)
(* call that has begun goes on.                                            *)
Fairness ==
  /\ WF_vars(Arrival)
  /\ WF_vars(Parse)

FairSpec == Spec /\ Fairness

-----------------------------------------------------------------------------

(* The types; between two calls all bytes are in held, and during a call   *)
(* all of them are in work.                                                *)
TypeOK ==
  /\ sent \in Seq(Frame)
  /\ arrived \in Nat
  /\ held \in Seq(Nat)
  /\ work \in Seq(Nat)
  /\ handled \in Seq(Frame)
  /\ pc \in {"idle", "parse", "exited", "aborted"}
  /\ pc = "idle" => work = <<>>
  /\ pc # "idle" => held = <<>>

(* Whatever the pieces, server_handle_packet() has seen the first frames   *)
(* of the stream, each whole and once, in the order they were written.     *)
InOrder ==
  /\ Len(handled) <= Len(sent)
  /\ handled = SubSeq(sent, 1, Len(handled))

(* "Invalid magic" is the server's fault: the program exits only at a      *)
(* frame whose own header is wrong, the first one not handled, and never   *)
(* because it looked for a header in the middle of a good frame.           *)
ExitIsJustified ==
  pc = "exited" =>
    /\ Len(handled) < Len(sent)
    /\ ~sent[Len(handled) + 1].magic

(* When server_receive() returns, no frame with a payload that has arrived *)
(* to its last byte is left in the buffer for a later piece to reveal.     *)
NothingWaits ==
  pc = "idle" =>
    \A k \in 1..Len(sent) :
      End(sent[k]) <= arrived /\ sent[k].len > 0 => k <= Len(handled)

(* Every byte that has arrived is in a handled frame or still in the       *)
(* buffer: none is lost between two calls and none is duplicated.          *)
NoByteLost ==
  held \o work = Bytes(Extent(handled, Len(handled)), arrived)

(* The strengthening that makes them inductive: frames lie in the stream   *)
(* one behind the other, and the bytes that have arrived reach at least to *)
(* the end of the last handled frame and at most to what was written.      *)
Layout ==
  /\ \A k \in 1..Len(sent) : sent[k].at = Extent(sent, k - 1)
  /\ \A j, k \in 1..Len(sent) : j < k => End(sent[j]) <= sent[k].at
  /\ Extent(sent, Len(handled)) <= arrived
  /\ arrived <= Written

IInv ==
  /\ TypeOK
  /\ Layout
  /\ InOrder
  /\ NoByteLost
  /\ NothingWaits
  /\ ExitIsJustified

(* The receive path implements the frame channel, including its promise    *)
(* that every frame the client can take is handled in the end.             *)
Acceptable(f) == f.magic /\ f.len > 0

Channel == INSTANCE FrameChannel
             WITH Good <- Acceptable, broken <- pc \in {"exited", "aborted"}
ChannelSpec == Channel!FairSpec
=============================================================================
