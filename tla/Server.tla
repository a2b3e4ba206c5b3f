------------------------------- MODULE Server -------------------------------
(***************************************************************************)
(* The request and dispatch half of server.c, and the event queue of       *)
(* tpe_event.c and Ecore behind it.                                        *)
(*                                                                         *)
(* server_send() numbers a request, writes it and enters a callback, which *)
(* may be NULL, under the number.  server_handle_packet() gives a frame to *)
(* the callback entered under the frame's number, removes the entry, and   *)
(* then sends the frame as an event: those who listen for its type see it  *)
(* when the main loop comes to it, later and in order.  Callbacks and      *)
(* event handlers send requests themselves.  Everything runs on one thread *)
(* between two returns to the main loop, so a callback with all it sends   *)
(* is part of the step that dispatches its frame.                          *)
(*                                                                         *)
(* Frames arrive whole and in order: that is what FrameChannel promises    *)
(* and ServerStream implements.  The list of callbacks is a set here: the  *)
(* walk serves every entry that matches, whatever its place, and an entry  *)
(* made during the walk carries a number no frame has had yet.             *)
(*                                                                         *)
(* The actions take what a callback or handler sends as parameters, the    *)
(* requests rs and the events es.  Comm and Sequence supply those the code *)
(* sends; Next lets any client send any requests.                          *)
(***************************************************************************)
EXTENDS Naturals, Sequences

CONSTANTS
  Body,           \* what a request says
  Reply,          \* what a frame from the server says
  Callback,       \* the callbacks a request can be sent with
  NoCallback,     \* sent with a NULL callback
  Heard,          \* the replies of a type some handler listens for
  MaxSeq,         \* bound: last sequence number used
  MaxSends,       \* bound: requests sent in one step
  MaxReply,       \* bound: frames in the answer to one request
  MaxPush         \* bound: frames the server sends unasked

ASSUME HeardAssumption == Heard \subseteq Reply
ASSUME NoCallbackAssumption == NoCallback \notin Callback
ASSUME BoundAssumption ==
  /\ MaxSeq \in Nat \ {0}
  /\ {MaxSends, MaxReply, MaxPush} \subseteq Nat

VARIABLES
  conncb,         \* TRUE until the connection callback has been called
  seq,            \* server->seq, the number of the last request
  cbs,            \* server->cbs
  toServer,       \* requests the server has not answered, oldest first
  fromServer,     \* frames not handled yet, oldest first
  events,         \* frames waiting as events in Ecore's queue
  pushed          \* number of frames the server sent unasked

serverVars == <<conncb, seq, cbs, toServer, fromServer, events, pushed>>

Request == [body : Body, cb : Callback \cup {NoCallback}]

(* first marks the frame an answer begins with; the code does not see it.  *)
Frame == [seq : Nat, body : Reply, first : BOOLEAN]

RequestLists == UNION {[1..n -> Request] : n \in 0..MaxSends}
ReplyLists == UNION {[1..n -> Reply] : n \in 1..MaxReply}

ServerInit ==
  /\ conncb = TRUE
  /\ seq = 1
  /\ cbs = {}
  /\ toServer = <<>>
  /\ fromServer = <<>>
  /\ events = <<>>
  /\ pushed = 0

-----------------------------------------------------------------------------

(* Mutant: the entry is made under the number before the increment. *)
EntriesEarly(rs) ==
  {[seq |-> seq + i - 1, cb |-> rs[i].cb] : i \in 1..Len(rs)}

(* Mutant: no entry without a callback. *)
EntriesWithCallback(rs) ==
  {[seq |-> seq + i, cb |-> rs[i].cb] :
     i \in {j \in 1..Len(rs) : rs[j].cb # NoCallback}}

(* server_cb_add() for the requests rs, numbered from seq + 1. *)
Entries(rs) ==
  {[seq |-> seq + i, cb |-> rs[i].cb] : i \in 1..Len(rs)}

(* Mutant: the number is not advanced. *)
SendAllSameNumber(rs) ==
  /\ UNCHANGED seq
  /\ toServer' = toServer \o
       [i \in 1..Len(rs) |-> [seq |-> seq + i, body |-> rs[i].body]]

(* server_send() for each of rs in turn, onto the wire. *)
SendAll(rs) ==
  /\ seq' = seq + Len(rs)
  /\ toServer' = toServer \o
       [i \in 1..Len(rs) |-> [seq |-> seq + i, body |-> rs[i].body]]

(* Ecore has connected: the connection callback is called, once. *)
ServerAdd(rs) ==
  /\ conncb
  /\ conncb' = FALSE
  /\ SendAll(rs)
  /\ cbs' = cbs \cup Entries(rs)
  /\ UNCHANGED <<fromServer, events, pushed>>

(* Something other than a frame makes the client send rs: a timer. *)
ClientSends(rs) ==
  /\ ~conncb
  /\ rs # <<>>
  /\ SendAll(rs)
  /\ cbs' = cbs \cup Entries(rs)
  /\ UNCHANGED <<conncb, fromServer, events, pushed>>

(* The entries under a frame's number.  0 is the number of frames that     *)
(* answer nothing.                                                         *)
Matching(f) == IF f.seq = 0 THEN {} ELSE {c \in cbs : c.seq = f.seq}

Called(f) == {c.cb : c \in Matching(f)} \ {NoCallback}

(* tpe_event_send() for a frame: queued if anyone listens, otherwise freed *)
(* at once.                                                                *)
Posted(f) == IF f.body \in Heard THEN <<[seq |-> f.seq, body |-> f.body]>> ELSE <<>>

(* Mutant: only entries with a callback are marked for deletion. *)
HandlePacketLeaks(rs, es) ==
  /\ fromServer # <<>>
  /\ LET f == Head(fromServer)
     IN  /\ Called(f) = {} => rs = <<>> /\ es = <<>>
         /\ SendAll(rs)
         /\ cbs' = (cbs \ {c \in Matching(f) : c.cb # NoCallback}) \cup Entries(rs)
         /\ events' = events \o es \o Posted(f)
  /\ fromServer' = Tail(fromServer)
  /\ UNCHANGED <<conncb, pushed>>

(* Mutant: the event is sent, and the callbacks are left for later. *)
HandlePacketEventFirst(rs, es) ==
  /\ fromServer # <<>>
  /\ LET f == Head(fromServer)
     IN  IF Matching(f) # {} /\ f.body \in Heard /\ events = <<>>
         THEN /\ rs = <<>>
              /\ events' = Posted(f)
              /\ UNCHANGED <<cbs, seq, toServer, fromServer>>
         ELSE /\ Called(f) = {} => rs = <<>>
              /\ SendAll(rs)
              /\ cbs' = (cbs \ Matching(f)) \cup Entries(rs)
              /\ fromServer' = Tail(fromServer)
              /\ UNCHANGED events
  /\ UNCHANGED <<conncb, pushed>>

(* server_handle_packet(): the callbacks that match are called and send    *)
(* rs and es, the entries that match are removed, the event is sent.       *)
HandlePacket(rs, es) ==
  /\ fromServer # <<>>
  /\ LET f == Head(fromServer)
     IN  /\ Called(f) = {} => rs = <<>> /\ es = <<>>
         /\ SendAll(rs)
         /\ cbs' = (cbs \ Matching(f)) \cup Entries(rs)
         /\ events' = events \o es \o Posted(f)
  /\ fromServer' = Tail(fromServer)
  /\ UNCHANGED <<conncb, pushed>>

(* The main loop gives the oldest event to its handlers, which send rs and *)
(* es.                                                                     *)
HandleEvent(rs, es) ==
  /\ events # <<>>
  /\ events' = Tail(events) \o es
  /\ SendAll(rs)
  /\ cbs' = cbs \cup Entries(rs)
  /\ UNCHANGED <<conncb, fromServer, pushed>>

-----------------------------------------------------------------------------
(* The game server, outside this program: it answers requests in the order *)
(* they reach it, each with one frame or with a MsgSEQUENCE header and the *)
(* frames it announces, all under the request's number.                    *)

Answer(bodies) ==
  /\ toServer # <<>>
  /\ toServer' = Tail(toServer)
  /\ fromServer' = fromServer \o
       [i \in 1..Len(bodies) |->
          [seq |-> Head(toServer).seq, body |-> bodies[i], first |-> i = 1]]
  /\ UNCHANGED <<conncb, seq, cbs, events, pushed>>

(* A frame nobody asked for, such as the start of a turn. *)
Push(body) ==
  /\ pushed < MaxPush
  /\ pushed' = pushed + 1
  /\ fromServer' = Append(fromServer, [seq |-> 0, body |-> body, first |-> FALSE])
  /\ UNCHANGED <<conncb, seq, cbs, toServer, events>>

-----------------------------------------------------------------------------

Within(rs) == seq + Len(rs) <= MaxSeq

AnyServerAdd == \E rs \in RequestLists : Within(rs) /\ ServerAdd(rs)
AnyClientSends == \E rs \in RequestLists : Within(rs) /\ ClientSends(rs)
AnyHandlePacket == \E rs \in RequestLists : Within(rs) /\ HandlePacket(rs, <<>>)
AnyHandleEvent == \E rs \in RequestLists : Within(rs) /\ HandleEvent(rs, <<>>)
AnyAnswer == \E bodies \in ReplyLists : Answer(bodies)
AnyPush == \E body \in Reply : Push(body)

Next ==
  \/ AnyServerAdd
  \/ AnyClientSends
  \/ AnyHandlePacket
  \/ AnyHandleEvent
  \/ AnyAnswer
  \/ AnyPush

Spec ==
  /\ ServerInit
  /\ [][Next]_serverVars

(* The main loop runs on: it reads what has arrived and works through the  *)
(* event queue.  The server answers.                                       *)
Fairness ==
  /\ WF_serverVars(AnyHandlePacket)
  /\ WF_serverVars(AnyHandleEvent)
  /\ WF_serverVars(AnyAnswer)

FairSpec == Spec /\ Fairness

-----------------------------------------------------------------------------

TypeOK ==
  /\ conncb \in BOOLEAN
  /\ seq \in Nat \ {0}
  /\ cbs \subseteq [seq : 2..seq, cb : Callback \cup {NoCallback}]
  /\ toServer \in Seq([seq : 2..seq, body : Body])
  /\ fromServer \in Seq(Frame)
  /\ events \in Seq([seq : Nat, body : Reply])
  /\ pushed \in Nat

NumbersOf(s) == {s[i].seq : i \in 1..Len(s)}

(* The frames answers begin with.                                          *)
Firsts == {i \in 1..Len(fromServer) : fromServer[i].first}

FirstNumbers == {fromServer[i].seq : i \in Firsts}

Open == {c.seq : c \in cbs}

(* The callback table holds an entry for a request exactly as long as the  *)
(* first frame of its answer has not been handled: no answer finds its     *)
(* entry gone, and no entry is left behind when its answer has passed.     *)
TableMatchesWire ==
  Open = NumbersOf(toServer) \cup FirstNumbers

(* A number stands for one request, so a frame never calls two callbacks.  *)
OneEntryPerNumber ==
  \A c, d \in cbs : c.seq = d.seq => c = d

(* A handler finds the work of its frame's callback done: no entry for the *)
(* frame is in the table any more when its event is in the queue.          *)
EventAfterCallback ==
  \A i \in 1..Len(events) :
    events[i].seq # 0 => events[i].seq \notin Open

(* What makes these inductive.  Nothing carries a number that was not used,*)
(* requests and the beginnings of answers are in the order of numbers, and *)
(* the rest of an answer is behind its beginning.                          *)
NumbersUsed ==
  /\ \A i \in 1..Len(fromServer) : fromServer[i].seq \in 0..seq
  /\ \A i \in Firsts : fromServer[i].seq # 0
  /\ \A i \in 1..Len(events) : events[i].seq \in 0..seq

WireInOrder ==
  /\ \A i, j \in 1..Len(toServer) : i < j => toServer[i].seq < toServer[j].seq
  /\ \A i, j \in Firsts : i < j => fromServer[i].seq < fromServer[j].seq
  /\ \A i \in Firsts, j \in 1..Len(toServer) : fromServer[i].seq < toServer[j].seq

RestBehindFirst ==
  \A j \in (1..Len(fromServer)) \ Firsts :
    fromServer[j].seq \in Open =>
      \E i \in Firsts : i < j /\ fromServer[i].seq = fromServer[j].seq

IInv ==
  /\ TypeOK
  /\ TableMatchesWire
  /\ OneEntryPerNumber
  /\ EventAfterCallback
  /\ NumbersUsed
  /\ WireInOrder
  /\ RestBehindFirst

(* Requests are answered once each, in the order they were sent, and all   *)
(* of them in the end.                                                     *)
R == INSTANCE Requests WITH Limit <- MaxSeq, asked <- seq, open <- Open
RequestsSpec == R!FairSpec
=============================================================================
