----------------------------- MODULE BoardProofs -----------------------------
(***************************************************************************)
(* Proofs about Board, for any boards, messages, refusals, boxes and       *)
(* number of turns, with the code as it is and repaired.                   *)
(***************************************************************************)
EXTENDS Board, QueueLemmas

(* What is proved about Server holds of the server.c Board runs on.        *)
SP == INSTANCE ServerProofs
        WITH Body <- Requests, Reply <- Replies, Callback <- {}, NoCallback <- "none",
             Heard <- Replies \ Unheard,
             MaxSeq <- 1, MaxSends <- 0, MaxReply <- 0, MaxPush <- MaxTurns

-----------------------------------------------------------------------------
(* The inductive invariant                                                 *)

(* What is said on the wire, in the frames and in the events.              *)
Wire == Bodies(toServer)
Arriving == Bodies(fromServer)
Waiting == Bodies(events)
Passing == ToSet(Arriving) \cup ToSet(Waiting)

(* Messages and boards                                                     *)
MessageType == [turn : Nat, unread : BOOLEAN]

(* A message that the server has, on a board whose slots reach that far.   *)
SlotKnown(b, s) ==
  /\ b \in Boards /\ s \in Slots(Len(posted[b]))
  /\ "list" \in repaired => b \in DOMAIN boards /\ s \in Slots(boards[b].nalloced)

(* How many messages a board had at a time.                                *)
Described(b, n, updated) ==
  /\ b \in Boards /\ n \in 0..Len(posted[b])
  /\ updated \in 1..changed[b]
  /\ updated = changed[b] => n = Len(posted[b])

Posted ==
  /\ serverTurn \in Nat
  /\ DOMAIN posted = Boards /\ changed \in [Boards -> 1..serverTurn]
  /\ \A b \in Boards :
       /\ posted[b] \in Seq(1..serverTurn)
       /\ \A i, j \in 1..Len(posted[b]) : i <= j => posted[b][i] <= posted[b][j]

(* What passes is said of what the server has.                             *)
RequestMeant(r) ==
  r.type = "MessageGet" =>
    /\ \A i, j \in 1..Len(r.slots) : r.slots[i] = r.slots[j] => i = j
    /\ \A s \in ToSet(r.slots) : SlotKnown(r.id, s)

ReplyMeant(r) ==
  /\ r.type = "ListOfBoards" => r.ids = Ascending(Boards)
  /\ r.type = "Board" => Described(r.id, r.nmessages, r.updated)
  /\ r.type = "Message" => SlotKnown(r.id, r.slot) /\ r.turn = posted[r.id][r.slot + 1]

Meant ==
  /\ \A r \in ToSet(Wire) : RequestMeant(r)
  /\ \A r \in Passing : ReplyMeant(r)
  /\ \A r \in ToSet(Arriving) : r.type \notin {"BoardUpdate", "Connected"}

(* A board as it was described, with the messages it holds.                *)
BoardType ==
  [nmessages : Nat, updated : Nat, nalloced : Nat, unread : Nat, received : Nat,
   messages : UNION {[Slots(n) -> MessageType] : n \in Nat}]

BoardOK(b) ==
  /\ boards[b] \in BoardType
  /\ boards[b].nmessages = boards[b].nalloced
  /\ Described(b, boards[b].nalloced, boards[b].updated)
  /\ DOMAIN boards[b].messages = Slots(boards[b].nalloced)
  /\ \A s \in Held(b) : TurnAt(b, s) = posted[b][s + 1]

BoardsKept ==
  /\ repaired \subseteq {"list", "block"}
  /\ DOMAIN boards \subseteq Boards
  /\ "list" \notin repaired => DOMAIN boards = {}
  /\ \A b \in DOMAIN boards : BoardOK(b)

(* A board grows.                                                          *)
Growing == {p \in Replies \X Replies :
              p[1].type = "Board" /\ p[2].type = "Board" /\ p[1].id = p[2].id
                => p[1].nmessages <= p[2].nmessages}

BoardsGrow ==
  /\ Chain(Waiting, Arriving, Growing)
  /\ \A r \in Passing : r.type = "Board" /\ r.id \in DOMAIN boards =>
                          boards[r.id].nalloced <= r.nmessages

(* Where a message is.                                                     *)
AskedAs(b, s) == {r \in Requests : r.type = "MessageGet" /\ r.id = b /\ s \in ToSet(r.slots)}
SentAs(b, s) == {r \in Replies : r.type = "Message" /\ r.id = b /\ r.slot = s}
IsHeld(b, s) == b \in DOMAIN boards /\ s \in Held(b)
Whereabouts(b, s) ==
  Cardinality(Places(Wire, AskedAs(b, s))) + Cardinality(Places(Arriving, SentAs(b, s)))
    + Cardinality(Places(Waiting, SentAs(b, s))) + (IF IsHeld(b, s) THEN 1 ELSE 0)

Both == repaired = {"list", "block"}

InOnePlace ==
  /\ "list" \in repaired => \A b \in Boards, s \in Nat : Whereabouts(b, s) <= 1
  /\ Both => \A b \in DOMAIN boards : \A s \in Slots(boards[b].nalloced) :
               Place(b, s) \in refused \/ Whereabouts(b, s) >= 1

(* A board that lacks slots is on its way.                                 *)
AskedFor(r, b) == r.type = "GetBoardIDs" \/ (r.type = "GetBoards" /\ b \in ToSet(r.ids))
Brings(r, b) ==
  \/ r.type \in {"Connected", "NewTurn"}
  \/ r.type = "ListOfBoards" /\ r.updated[b] = changed[b]
  \/ r.type = "Board" /\ r.id = b /\ r.nmessages = Len(posted[b])

BoardsCome ==
  "list" \in repaired =>
    \A b \in Boards :
      \/ b \in DOMAIN boards /\ boards[b].nalloced = Len(posted[b])
      \/ \E r \in ToSet(Wire) : AskedFor(r, b)
      \/ \E r \in Passing : Brings(r, b)

(* The icons follow.                                                       *)
Age(received, unread) == received + received - unread
UpdateAge(r) == Age(r.messages, r.unread)
BoardAge(b) == Age(boards[b].received, boards[b].unread)
Newer == {p \in Replies \X Replies :
            p[1].type = "BoardUpdate" /\ p[2].type = "BoardUpdate" /\ p[1].id = p[2].id
              => UpdateAge(p[1]) < UpdateAge(p[2])}
Shown(r) == [unread |-> r.unread, messages |-> r.messages, lit |-> r.unread # 0]
IconsFollow ==
  /\ DOMAIN icons \subseteq Boards
  /\ \A b \in DOMAIN icons : /\ icons[b] \in [unread : Int, messages : Int, lit : BOOLEAN]
                             /\ b \in DOMAIN boards /\ UpdateAge(icons[b]) <= BoardAge(b)
  /\ Ordered(Waiting, Newer)
  /\ \A r \in ToSet(Waiting) : r.type = "BoardUpdate" =>
       /\ r.id \in DOMAIN boards
       /\ UpdateAge(r) <= BoardAge(r.id)
       /\ r.id \in DOMAIN icons => UpdateAge(icons[r.id]) < UpdateAge(r)
  /\ \A b \in DOMAIN boards : boards[b].received > 0 =>
       \/ BoardUpdate(b, boards[b]) \in ToSet(Waiting)
       \/ b \in DOMAIN icons /\ icons[b] = Shown(BoardUpdate(b, boards[b]))

(* A box shows a message that is held, or nothing.                         *)
Spots == {NoPlace} \cup [board : Boards, slot : Nat]
BoxesHold ==
  /\ boxes \in Seq(Spots)
  /\ \A i \in 1..Len(boxes) :
       boxes[i] # NoPlace => IsHeld(boxes[i].board, boxes[i].slot)

IInv ==
  /\ Srv!IInv
  /\ Posted
  /\ Meant
  /\ BoardsKept
  /\ CountsAgree
  /\ BoardsGrow
  /\ InOnePlace
  /\ BoardsCome
  /\ IconsFollow
  /\ BoxesHold

-----------------------------------------------------------------------------
(* Board's server.c is the one the theorems are about                      *)

LEMMA ServerAssumptions ==
  SP!HeardAssumption /\ SP!NoCallbackAssumption /\ SP!BoundAssumption
BY BoundAssumption

LEMMA SameInvariant == Srv!IInv <=> SP!IInv
<1>1. Srv!TypeOK <=> SP!TypeOK
  BY DEF Srv!TypeOK, SP!TypeOK, Srv!Frame, SP!Frame
<1>2. /\ Srv!Firsts = SP!Firsts
      /\ Srv!Open = SP!Open
      /\ Srv!FirstNumbers = SP!FirstNumbers
  BY DEF Srv!Firsts, SP!Firsts, Srv!Open, SP!Open, Srv!FirstNumbers, SP!FirstNumbers
<1>3. Srv!TableMatchesWire <=> SP!TableMatchesWire
  BY <1>2 DEF Srv!TableMatchesWire, SP!TableMatchesWire, Srv!NumbersOf, SP!NumbersOf
<1>4. Srv!OneEntryPerNumber <=> SP!OneEntryPerNumber
  BY DEF Srv!OneEntryPerNumber, SP!OneEntryPerNumber
<1>5. Srv!EventAfterCallback <=> SP!EventAfterCallback
  BY <1>2 DEF Srv!EventAfterCallback, SP!EventAfterCallback
<1>6. Srv!NumbersUsed <=> SP!NumbersUsed
  BY <1>2 DEF Srv!NumbersUsed, SP!NumbersUsed
<1>7. Srv!WireInOrder <=> SP!WireInOrder
  BY <1>2 DEF Srv!WireInOrder, SP!WireInOrder
<1>8. Srv!RestBehindFirst <=> SP!RestBehindFirst
  BY <1>2 DEF Srv!RestBehindFirst, SP!RestBehindFirst
<1> QED BY <1>1, <1>3, <1>4, <1>5, <1>6, <1>7, <1>8 DEF Srv!IInv, SP!IInv

LEMMA SameInvariantNext == Srv!IInv' <=> SP!IInv'
BY SameInvariant, PTL

LEMMA SameSteps ==
  ASSUME NEW rs, NEW es, NEW bodies, NEW body
  PROVE  /\ Srv!HandlePacket(rs, es) <=> SP!HandlePacket(rs, es)
         /\ Srv!HandleEvent(rs, es) <=> SP!HandleEvent(rs, es)
         /\ Srv!Answer(bodies) <=> SP!Answer(bodies)
         /\ Srv!Push(body) <=> SP!Push(body)
<1>1. /\ Srv!SendAll(rs) <=> SP!SendAll(rs)
      /\ Srv!Entries(rs) = SP!Entries(rs)
  BY DEF Srv!SendAll, SP!SendAll, Srv!Entries, SP!Entries
<1>2. Srv!HandlePacket(rs, es) <=> SP!HandlePacket(rs, es)
  BY <1>1 DEF Srv!HandlePacket, SP!HandlePacket, Srv!Called, SP!Called,
              Srv!Matching, SP!Matching, Srv!Posted, SP!Posted
<1>3. Srv!HandleEvent(rs, es) <=> SP!HandleEvent(rs, es)
  BY <1>1 DEF Srv!HandleEvent, SP!HandleEvent
<1>4. /\ Srv!Answer(bodies) <=> SP!Answer(bodies)
      /\ Srv!Push(body) <=> SP!Push(body)
  BY DEF Srv!Answer, SP!Answer, Srv!Push, SP!Push
<1> QED BY <1>2, <1>3, <1>4

(* Each of Server's steps keeps its invariant, whatever is sent in it.     *)
LEMMA ServerStep ==
  ASSUME Srv!IInv, NEW rs \in Seq(Srv!Request), NEW es \in Seq(SP!OwnEvent),
         NEW bodies \in Seq(Replies) \ {<<>>}, NEW body \in Replies,
         \/ Srv!HandlePacket(rs, es) \/ Srv!HandleEvent(rs, es)
         \/ Srv!Answer(bodies) \/ Srv!Push(body)
  PROVE  Srv!IInv'
<1>1. SP!IInv /\ rs \in Seq(SP!Request)
  BY SameInvariant DEF Srv!Request, SP!Request
<1>2. SP!IInv'
  <2>1. CASE Srv!HandlePacket(rs, es)
    BY <1>1, <2>1, SameSteps, ServerAssumptions, SP!HandlePacketInv
  <2>2. CASE Srv!HandleEvent(rs, es)
    BY <1>1, <2>2, SameSteps, ServerAssumptions, SP!HandleEventInv
  <2>3. CASE Srv!Answer(bodies)
    BY <1>1, <2>3, SameSteps, ServerAssumptions, SP!AnswerInv
  <2>4. CASE Srv!Push(body)
    BY <1>1, <2>4, SameSteps, ServerAssumptions, SP!PushInv
  <2> QED BY <2>1, <2>2, <2>3, <2>4
<1>3. Srv!IInv' <=> SP!IInv'
  BY SameInvariantNext
<1> QED BY <1>2, <1>3

-----------------------------------------------------------------------------
(* What the steps do to what is said                                       *)

LEMMA Queues ==
  ASSUME Srv!IInv
  PROVE  /\ toServer \in Seq([seq : Nat, body : Requests])
         /\ fromServer \in Seq([seq : Nat, body : Replies, first : BOOLEAN])
         /\ events \in Seq([seq : Nat, body : Replies])
         /\ Wire \in Seq(Requests) /\ Arriving \in Seq(Replies) /\ Waiting \in Seq(Replies)
         /\ toServer = <<>> <=> Wire = <<>>
         /\ fromServer = <<>> <=> Arriving = <<>>
         /\ events = <<>> <=> Waiting = <<>>
         /\ events # <<>> => Content = Head(Waiting)
         /\ toServer # <<>> => Question = Head(Wire)
         /\ fromServer # <<>> => Head(fromServer).body = Head(Arriving)
<1>1. /\ toServer \in Seq([seq : 2..seq, body : Requests]) /\ seq \in Nat
      /\ fromServer \in Seq([seq : Nat, body : Replies, first : BOOLEAN])
      /\ events \in Seq([seq : Nat, body : Replies])
  BY DEF Srv!IInv, Srv!TypeOK, Srv!Frame
<1>2. toServer \in Seq([seq : Nat, body : Requests])
  <2> DEFINE Q == [seq : 2..seq, body : Requests]
             T == [seq : Nat, body : Requests]
  <2>1. Q \subseteq T
    BY <1>1
  <2>2. toServer \in Seq(Q)
    BY <1>1
  <2> HIDE DEF Q, T
  <2>3. toServer \in Seq(T)
    BY <2>1, <2>2, SeqMonotonic
  <2> QED BY <2>3 DEF T
<1>3. /\ \A x \in [seq : Nat, body : Requests] : x.body \in Requests
      /\ \A x \in [seq : Nat, body : Replies, first : BOOLEAN] : x.body \in Replies
      /\ \A x \in [seq : Nat, body : Replies] : x.body \in Replies
  OBVIOUS
<1>4. /\ Wire \in Seq(Requests) /\ (toServer = <<>> <=> Wire = <<>>)
      /\ toServer # <<>> => Question = Head(Wire)
  BY <1>2, <1>3, BodiesOf, BodiesTail DEF Wire, Question
<1>5. /\ Arriving \in Seq(Replies) /\ (fromServer = <<>> <=> Arriving = <<>>)
      /\ fromServer # <<>> => Head(fromServer).body = Head(Arriving)
  BY <1>1, <1>3, BodiesOf, BodiesTail DEF Arriving
<1>6. /\ Waiting \in Seq(Replies) /\ (events = <<>> <=> Waiting = <<>>)
      /\ events # <<>> => Content = Head(Waiting)
  BY <1>1, <1>3, BodiesOf, BodiesTail DEF Waiting, Content
<1> QED BY <1>1, <1>2, <1>4, <1>5, <1>6

QueuesSaid ==
  Wire \in Seq(Requests) /\ Arriving \in Seq(Replies) /\ Waiting \in Seq(Replies)

LEMMA QueuesNext ==
  Srv!IInv' => /\ Wire' \in Seq(Requests)
               /\ Arriving' \in Seq(Replies) /\ Waiting' \in Seq(Replies)
<1>1. Srv!IInv => QueuesSaid
  BY Queues DEF QueuesSaid
<1>2. Srv!IInv' => QueuesSaid'
  BY <1>1, PTL
<1> QED BY <1>2 DEF QueuesSaid

(* What is sent without a callback.                                        *)
Asks(bs) == [i \in 1..Len(bs) |-> Ask(bs[i])]
Events(bs) == [i \in 1..Len(bs) |-> Event(bs[i])]

LEMMA Sent ==
  /\ \A bs \in Seq(Requests) : Asks(bs) \in Seq(Srv!Request) /\ Bodies(Asks(bs)) = bs
  /\ \A bs \in Seq(Replies) : Events(bs) \in Seq(SP!OwnEvent) /\ Bodies(Events(bs)) = bs
<1>1. ASSUME NEW bs \in Seq(Requests)
      PROVE  Asks(bs) \in Seq(Srv!Request) /\ Bodies(Asks(bs)) = bs
  <2>1. Len(bs) \in Nat /\ \A i \in 1..Len(bs) : bs[i] \in Requests
    OBVIOUS
  <2>2. \A i \in 1..Len(bs) : Ask(bs[i]) \in Srv!Request /\ Ask(bs[i]).body = bs[i]
    BY <2>1 DEF Ask, Srv!Request
  <2>3. /\ Asks(bs) \in [1..Len(bs) -> Srv!Request]
        /\ \A i \in 1..Len(bs) : Asks(bs)[i].body = bs[i]
    BY <2>2 DEF Asks
  <2>4. Asks(bs) \in Seq(Srv!Request) /\ Len(Asks(bs)) = Len(bs)
    BY <2>1, <2>3
  <2>5. Bodies(Asks(bs)) = [i \in 1..Len(bs) |-> bs[i]]
    BY <2>3, <2>4 DEF Bodies
  <2>6. bs = [i \in 1..Len(bs) |-> bs[i]]
    OBVIOUS
  <2> QED BY <2>4, <2>5, <2>6
<1>2. ASSUME NEW bs \in Seq(Replies)
      PROVE  Events(bs) \in Seq(SP!OwnEvent) /\ Bodies(Events(bs)) = bs
  <2>1. Len(bs) \in Nat /\ \A i \in 1..Len(bs) : bs[i] \in Replies
    OBVIOUS
  <2>2. \A i \in 1..Len(bs) : Event(bs[i]) \in SP!OwnEvent /\ Event(bs[i]).body = bs[i]
    BY <2>1 DEF Event, SP!OwnEvent
  <2>3. /\ Events(bs) \in [1..Len(bs) -> SP!OwnEvent]
        /\ \A i \in 1..Len(bs) : Events(bs)[i].body = bs[i]
    BY <2>2 DEF Events
  <2>4. Events(bs) \in Seq(SP!OwnEvent) /\ Len(Events(bs)) = Len(bs)
    BY <2>1, <2>3
  <2>5. Bodies(Events(bs)) = [i \in 1..Len(bs) |-> bs[i]]
    BY <2>3, <2>4 DEF Bodies
  <2>6. bs = [i \in 1..Len(bs) |-> bs[i]]
    OBVIOUS
  <2> QED BY <2>4, <2>5, <2>6
<1> QED BY <1>1, <1>2

LEMMA FrameMoves ==
  ASSUME Srv!IInv, fromServer # <<>>, Srv!HandlePacket(<<>>, <<>>)
  PROVE  /\ Srv!IInv'
         /\ Arriving # <<>> /\ Head(Arriving) \in Replies
         /\ Arriving' = Tail(Arriving)
         /\ Waiting' = Waiting \o (IF Head(Arriving) \in Unheard THEN <<>> ELSE <<Head(Arriving)>>)
         /\ Wire' = Wire
<1> DEFINE f == Head(fromServer)
           e == [seq |-> f.seq, body |-> f.body]
<1>1. Srv!IInv'
  <2>1. <<>> \in Seq(Srv!Request) /\ <<>> \in Seq(SP!OwnEvent)
    OBVIOUS
  <2>2. PICK bodies \in Seq(Replies) \ {<<>>} : TRUE
    <3>1. Msg("SEQUENCE") \in Replies
      BY DEF Replies, Unheard
    <3>2. <<Msg("SEQUENCE")>> \in Seq(Replies) \ {<<>>}
      BY <3>1
    <3> QED BY <3>2
  <2>3. Msg("SEQUENCE") \in Replies
    BY DEF Replies, Unheard
  <2> QED BY <2>1, <2>2, <2>3, ServerStep
<1>2. /\ fromServer' = Tail(fromServer)
      /\ events' = (events \o <<>>) \o Srv!Posted(f)
      /\ Srv!SendAll(<<>>)
  BY DEF Srv!HandlePacket
<1>3. toServer' = toServer
  <2>1. toServer' = toServer \o [i \in 1..Len(<<>>) |-> [seq |-> seq + i, body |-> <<>>[i].body]]
    BY <1>2 DEF Srv!SendAll
  <2>2. [i \in 1..Len(<<>>) |-> [seq |-> seq + i, body |-> <<>>[i].body]] = <<>>
    OBVIOUS
  <2> QED BY <2>1, <2>2, Queues, ConcatEmptySeq
<1>4. f \in [seq : Nat, body : Replies, first : BOOLEAN] /\ f.body = Head(Arriving)
      /\ Arriving # <<>> /\ Arriving \in Seq(Replies)
  BY Queues, HeadAndTail
<1>5. Arriving' = Tail(Arriving)
  BY <1>2, Queues, BodiesTail DEF Arriving
<1>6. Waiting' = Waiting \o (IF Head(Arriving) \in Unheard THEN <<>> ELSE <<Head(Arriving)>>)
  <2>1. events' = events \o Srv!Posted(f)
    BY <1>2, Queues, ConcatEmptySeq
  <2>2. CASE f.body \in Unheard
    <3>1. Srv!Posted(f) = <<>>
      BY <2>2 DEF Srv!Posted
    <3>2. events' = events
      BY <2>1, <3>1, Queues, ConcatEmptySeq
    <3>3. Waiting \o <<>> = Waiting
      BY Queues, ConcatEmptySeq
    <3> QED BY <1>4, <2>2, <3>2, <3>3 DEF Waiting
  <2>3. CASE f.body \notin Unheard
    <3>1. Srv!Posted(f) = <<e>> /\ e \in [seq : Nat, body : Replies] /\ e.body = f.body
      BY <1>4, <2>3 DEF Srv!Posted
    <3> HIDE DEF e
    <3>2. <<e>> \in Seq([seq : Nat, body : Replies]) /\ Bodies(<<e>>) = <<f.body>>
      BY <3>1 DEF Bodies
    <3>3. Bodies(events \o <<e>>) = Bodies(events) \o Bodies(<<e>>)
      BY <3>2, Queues, BodiesConcat
    <3> QED BY <1>4, <2>1, <2>3, <3>1, <3>2, <3>3 DEF Waiting
  <2> QED BY <2>2, <2>3
<1> QED BY <1>1, <1>3, <1>4, <1>5, <1>6, HeadAndTail DEF Wire

LEMMA EventMoves ==
  ASSUME Srv!IInv, NEW rs \in Seq(Srv!Request), NEW es \in Seq(SP!OwnEvent),
         Srv!HandleEvent(rs, es)
  PROVE  /\ Srv!IInv'
         /\ Waiting # <<>> /\ Content = Head(Waiting)
         /\ Waiting' = Tail(Waiting) \o Bodies(es)
         /\ Wire' = Wire \o Bodies(rs)
         /\ Arriving' = Arriving
<1>1. Srv!IInv'
  <2>2. PICK bodies \in Seq(Replies) \ {<<>>} : TRUE
    <3>1. Msg("SEQUENCE") \in Replies
      BY DEF Replies, Unheard
    <3>2. <<Msg("SEQUENCE")>> \in Seq(Replies) \ {<<>>}
      BY <3>1
    <3> QED BY <3>2
  <2>3. Msg("SEQUENCE") \in Replies
    BY DEF Replies, Unheard
  <2> QED BY <2>2, <2>3, ServerStep
<1>2. /\ events # <<>> /\ events' = Tail(events) \o es
      /\ toServer' = toServer \o Numbered(seq, rs)
      /\ fromServer' = fromServer
  BY DEF Srv!HandleEvent, Srv!SendAll, Numbered
<1>3. Waiting # <<>> /\ Content = Head(Waiting) /\ Arriving' = Arriving
  BY <1>2, Queues DEF Arriving
<1>4. Waiting' = Tail(Waiting) \o Bodies(es)
  <2> DEFINE Q == [seq : Nat, body : Replies]
             t == Tail(events)
  <2>1. t \in Seq(Q) /\ es \in Seq(Q) /\ Bodies(t) = Tail(Waiting)
    <3>1. SP!OwnEvent \subseteq Q
      BY DEF SP!OwnEvent
    <3>2. es \in Seq(Q)
      BY <3>1, SeqMonotonic
    <3>3. t \in Seq(Q)
      BY <1>2, Queues, HeadAndTail
    <3>4. Bodies(t) = Tail(Waiting)
      BY <1>2, Queues, BodiesTail DEF Waiting
    <3> QED BY <3>2, <3>3, <3>4
  <2> HIDE DEF t, Q
  <2>2. Bodies(t \o es) = Bodies(t) \o Bodies(es)
    BY <2>1, BodiesConcat
  <2> QED BY <1>2, <2>1, <2>2 DEF Waiting, t
<1>5. Wire' = Wire \o Bodies(rs)
  <2> DEFINE Q == [seq : Nat, body : Requests]
             t == Numbered(seq, rs)
  <2>1. t \in Seq(Q) /\ Bodies(t) = Bodies(rs)
    <3>1. seq \in Nat
      BY DEF Srv!IInv, Srv!TypeOK
    <3>2. Len(rs) \in Nat /\ \A i \in 1..Len(rs) : rs[i].body \in Requests
      <4>1. Len(rs) \in Nat /\ \A i \in 1..Len(rs) : rs[i] \in Srv!Request
        OBVIOUS
      <4>2. \A x \in Srv!Request : x.body \in Requests
        BY DEF Srv!Request
      <4> QED BY <4>1, <4>2
    <3>3. t \in [1..Len(rs) -> Q]
      BY <3>1, <3>2 DEF Numbered
    <3>4. t \in Seq(Q)
      <4> HIDE DEF t, Q
      <4> QED BY <3>2, <3>3
    <3> QED BY <3>4, BodiesNumbered
  <2>2. toServer \in Seq(Q) /\ toServer' = toServer \o t
    BY <1>2, Queues
  <2> HIDE DEF t, Q
  <2>3. Bodies(toServer \o t) = Bodies(toServer) \o Bodies(t)
    BY <2>1, <2>2, BodiesConcat
  <2> QED BY <2>1, <2>2, <2>3 DEF Wire
<1> QED BY <1>1, <1>3, <1>4, <1>5

LEMMA AnswerMoves ==
  ASSUME Srv!IInv, NEW bodies \in Seq(Replies) \ {<<>>}, Srv!Answer(bodies)
  PROVE  /\ Srv!IInv'
         /\ Wire # <<>> /\ Question = Head(Wire)
         /\ Wire' = Tail(Wire)
         /\ Arriving' = Arriving \o bodies
         /\ Waiting' = Waiting
<1> DEFINE F == [seq : Nat, body : Replies, first : BOOLEAN]
           new == [i \in 1..Len(bodies) |->
                     [seq |-> Head(toServer).seq, body |-> bodies[i], first |-> i = 1]]
<1>1. Srv!IInv'
  <2>1. <<>> \in Seq(Srv!Request) /\ <<>> \in Seq(SP!OwnEvent)
    OBVIOUS
  <2>2. Msg("SEQUENCE") \in Replies
    BY DEF Replies, Unheard
  <2> QED BY <2>1, <2>2, ServerStep
<1>2. /\ toServer # <<>> /\ toServer' = Tail(toServer)
      /\ fromServer' = fromServer \o new
      /\ events' = events
  BY DEF Srv!Answer
<1>3. Wire # <<>> /\ Question = Head(Wire) /\ Wire' = Tail(Wire) /\ Waiting' = Waiting
  BY <1>2, Queues, BodiesTail DEF Wire, Waiting
<1>4. new \in Seq(F) /\ Bodies(new) = bodies
  <2>1. Head(toServer).seq \in Nat
    <3>1. Head(toServer) \in [seq : Nat, body : Requests]
      BY <1>2, Queues, HeadAndTail
    <3> QED BY <3>1
  <2>2. Len(bodies) \in Nat /\ \A i \in 1..Len(bodies) : bodies[i] \in Replies
    OBVIOUS
  <2>3. new \in [1..Len(bodies) -> F] /\ \A i \in 1..Len(bodies) : new[i].body = bodies[i]
    BY <2>1, <2>2
  <2> HIDE DEF new, F
  <2>4. new \in Seq(F) /\ Len(new) = Len(bodies)
    BY <2>2, <2>3
  <2>5. Bodies(new) = [i \in 1..Len(bodies) |-> bodies[i]]
    BY <2>3, <2>4 DEF Bodies
  <2>6. bodies = [i \in 1..Len(bodies) |-> bodies[i]]
    OBVIOUS
  <2> QED BY <2>4, <2>5, <2>6
<1>5. fromServer \in Seq(F)
  BY Queues
<1> HIDE DEF new, F
<1>6. Bodies(fromServer \o new) = Bodies(fromServer) \o Bodies(new)
  BY <1>4, <1>5, BodiesConcat
<1> QED BY <1>1, <1>2, <1>3, <1>4, <1>6 DEF Arriving

LEMMA PushMoves ==
  ASSUME Srv!IInv, NEW body \in Replies, Srv!Push(body)
  PROVE  /\ Srv!IInv'
         /\ Wire' = Wire
         /\ Arriving' = Arriving \o <<body>>
         /\ Waiting' = Waiting
<1> DEFINE F == [seq : Nat, body : Replies, first : BOOLEAN]
           f == [seq |-> 0, body |-> body, first |-> FALSE]
<1>1. Srv!IInv'
  <2>1. <<>> \in Seq(Srv!Request) /\ <<>> \in Seq(SP!OwnEvent)
    OBVIOUS
  <2>2. <<body>> \in Seq(Replies) \ {<<>>}
    OBVIOUS
  <2> QED BY <2>1, <2>2, ServerStep
<1>2. fromServer' = Append(fromServer, f) /\ toServer' = toServer /\ events' = events
  BY DEF Srv!Push
<1>3. fromServer \in Seq(F) /\ f \in F /\ f.body = body
  BY Queues
<1> HIDE DEF f, F
<1>4. <<f>> \in Seq(F) /\ Append(fromServer, f) = fromServer \o <<f>> /\ Bodies(<<f>>) = <<body>>
  BY <1>3, AppendContents DEF Bodies
<1>5. Bodies(fromServer \o <<f>>) = Bodies(fromServer) \o Bodies(<<f>>)
  BY <1>3, <1>4, BodiesConcat
<1> QED BY <1>1, <1>2, <1>4, <1>5 DEF Arriving, Wire, Waiting
LEMMA OwnEventMoves ==
  ASSUME Srv!IInv, NEW body \in Replies,
         UNCHANGED <<conncb, seq, cbs, toServer, fromServer, pushed>>,
         events' = Append(events, Event(body))
  PROVE  /\ Srv!IInv'
         /\ Wire' = Wire
         /\ Arriving' = Arriving
         /\ Waiting' = Waiting \o <<body>>
<1> DEFINE Q == [seq : Nat, body : Replies]
           e == Event(body)
<1>1. /\ events \in Seq(Q) /\ e \in Q /\ e.seq = 0 /\ e.body = body
  BY Queues DEF Event
<1> HIDE DEF Q, e
<1>2. /\ events' \in Seq(Q) /\ Len(events') = Len(events) + 1 /\ Len(events) \in Nat
      /\ \A i \in 1..Len(events) : events'[i] = events[i]
      /\ events'[Len(events) + 1] = e
  BY <1>1, AppendProperties DEF e
<1>3. Srv!TypeOK'
  <2>1. Srv!TypeOK
    BY DEF Srv!IInv
  <2>2. events' \in Seq([seq : Nat, body : Replies])
    BY <1>2 DEF Q
  <2> QED BY <2>1, <2>2 DEF Srv!TypeOK, Srv!Frame
<1>4. /\ Srv!Firsts' = Srv!Firsts /\ Srv!Open' = Srv!Open
      /\ Srv!FirstNumbers' = Srv!FirstNumbers
  BY DEF Srv!Firsts, Srv!Open, Srv!FirstNumbers
<1>5. /\ Srv!TableMatchesWire' /\ Srv!OneEntryPerNumber'
      /\ Srv!WireInOrder' /\ Srv!RestBehindFirst'
  BY <1>4 DEF Srv!IInv, Srv!TableMatchesWire, Srv!OneEntryPerNumber, Srv!WireInOrder,
              Srv!RestBehindFirst, Srv!NumbersOf
<1>6. \A i \in 1..Len(events') : i \in 1..Len(events) \/ events'[i].seq = 0
  BY <1>1, <1>2
<1>7. Srv!EventAfterCallback'
  BY <1>2, <1>4, <1>6 DEF Srv!IInv, Srv!EventAfterCallback
<1>8. Srv!NumbersUsed'
  <2>1. seq \in Nat
    BY DEF Srv!IInv, Srv!TypeOK
  <2>2. \A i \in 1..Len(events') : events'[i].seq \in 0..seq
    BY <1>2, <1>6, <2>1 DEF Srv!IInv, Srv!NumbersUsed
  <2> QED BY <1>4, <2>2 DEF Srv!IInv, Srv!NumbersUsed
<1>9. Srv!IInv'
  BY <1>3, <1>5, <1>7, <1>8 DEF Srv!IInv
<1>10. Waiting' = Waiting \o <<body>>
  <2>1. <<e>> \in Seq(Q) /\ events' = events \o <<e>> /\ Bodies(<<e>>) = <<body>>
    BY <1>1, AppendContents DEF Bodies, e
  <2>2. Bodies(events \o <<e>>) = Bodies(events) \o Bodies(<<e>>)
    BY <1>1, <2>1, BodiesConcat
  <2> QED BY <2>1, <2>2 DEF Waiting
<1> QED BY <1>9, <1>10 DEF Wire, Arriving

-----------------------------------------------------------------------------
(* Requests, frames and events                                             *)

PlainTypes == {"SEQUENCE", "Connected", "NewTurn", "Fail"}

LEMMA SaidToServer ==
  \A r \in Requests :
    /\ r.type \in {"GetBoardIDs", "GetBoards", "MessageGet"}
    /\ r.type = "GetBoards" => r.ids \in Seq(Boards) /\ r = GetBoards(r.ids)
    /\ r.type = "MessageGet" => /\ r.id \in Boards /\ r.slots \in Seq(Int)
                                /\ r = MessageGet(r.id, r.slots)
<1> SUFFICES ASSUME NEW r \in Requests
             PROVE  /\ r.type \in {"GetBoardIDs", "GetBoards", "MessageGet"}
                    /\ r.type = "GetBoards" => r.ids \in Seq(Boards) /\ r = GetBoards(r.ids)
                    /\ r.type = "MessageGet" => /\ r.id \in Boards /\ r.slots \in Seq(Int)
                                                /\ r = MessageGet(r.id, r.slots)
  OBVIOUS
<1>1. CASE r = Msg("GetBoardIDs")
  BY <1>1 DEF Msg
<1>2. CASE r \in [type : {"GetBoards"}, ids : Seq(Boards)]
  BY <1>2 DEF GetBoards
<1>3. CASE r \in [type : {"MessageGet"}, id : Boards, slots : Seq(Counts)]
  BY <1>3 DEF MessageGet, Counts
<1> QED BY <1>1, <1>2, <1>3 DEF Requests

LEMMA SaidToClient ==
  \A r \in Replies :
    /\ r.type \in PlainTypes \cup {"ListOfBoards", "Board", "Message", "BoardUpdate"}
    /\ r.type \in PlainTypes => r = Msg(r.type)
    /\ r.type = "SEQUENCE" <=> r \in Unheard
    /\ r.type = "ListOfBoards" => r.ids \in Seq(Boards) /\ r.updated \in [Boards -> Nat]
    /\ r.type = "Board" => r.id \in Boards /\ r.nmessages \in Int /\ r.updated \in Nat
    /\ r.type = "Message" => /\ r.id \in Boards /\ r.slot \in Int /\ r.turn \in Nat
                             /\ r = Message(r.id, r.slot, r.turn)
    /\ r.type = "BoardUpdate" => r.id \in Boards /\ r.unread \in Int /\ r.messages \in Int
<1> SUFFICES ASSUME NEW r \in Replies
             PROVE
    /\ r.type \in PlainTypes \cup {"ListOfBoards", "Board", "Message", "BoardUpdate"}
    /\ r.type \in PlainTypes => r = Msg(r.type)
    /\ r.type = "SEQUENCE" <=> r \in Unheard
    /\ r.type = "ListOfBoards" => r.ids \in Seq(Boards) /\ r.updated \in [Boards -> Nat]
    /\ r.type = "Board" => r.id \in Boards /\ r.nmessages \in Int /\ r.updated \in Nat
    /\ r.type = "Message" => /\ r.id \in Boards /\ r.slot \in Int /\ r.turn \in Nat
                             /\ r = Message(r.id, r.slot, r.turn)
    /\ r.type = "BoardUpdate" => r.id \in Boards /\ r.unread \in Int /\ r.messages \in Int
  OBVIOUS
<1> USE DEF PlainTypes, Unheard
<1>1. CASE r \in {Msg("SEQUENCE"), Msg("Connected"), Msg("NewTurn"), Msg("Fail")}
  BY <1>1 DEF Msg
<1>2. CASE r \in [type : {"ListOfBoards"}, ids : Seq(Boards), updated : [Boards -> Nat]]
  BY <1>2 DEF Msg
<1>3. CASE r \in [type : {"Board"}, id : Boards, nmessages : Counts, updated : Nat]
  BY <1>3 DEF Msg, Counts
<1>4. CASE r \in [type : {"Message"}, id : Boards, slot : Counts, turn : Nat]
  BY <1>4 DEF Msg, Message, Counts
<1>5. CASE r \in [type : {"BoardUpdate"}, id : Boards, unread : Counts, messages : Counts]
  BY <1>5 DEF Msg, Counts
<1> QED BY <1>1, <1>2, <1>3, <1>4, <1>5 DEF Replies

LEMMA PlainSaid ==
  /\ Msg("GetBoardIDs") \in Requests /\ Msg("GetBoardIDs").type = "GetBoardIDs"
  /\ \A type \in PlainTypes : Msg(type) \in Replies /\ Msg(type).type = type
  /\ \A r \in Unheard : r.type = "SEQUENCE"
BY DEF Requests, Replies, Msg, PlainTypes, Unheard
-----------------------------------------------------------------------------
(* What the steps do to what is under way                                  *)

Count(s, X) == Cardinality(Places(s, X))

LEMMA FrameEffect ==
  ASSUME Srv!IInv, fromServer # <<>>, Srv!HandlePacket(<<>>, <<>>)
  PROVE  /\ Srv!IInv'
         /\ Wire' = Wire
         /\ ToSet(Arriving') \subseteq ToSet(Arriving)
         /\ \E t \in Seq(Replies) : Waiting' = Waiting \o t /\ ToSet(t) \subseteq ToSet(Arriving)
         /\ Passing' \subseteq Passing /\ Passing \ Unheard \subseteq Passing'
         /\ \A R : Chain(Waiting, Arriving, R) => Chain(Waiting', Arriving', R)
         /\ \A X : X \cap Unheard = {} =>
              Count(Arriving', X) + Count(Waiting', X) = Count(Arriving, X) + Count(Waiting, X)
<1> DEFINE h == Head(Arriving)
           t == IF h \in Unheard THEN <<>> ELSE <<h>>
<1>1. /\ Srv!IInv' /\ Wire' = Wire
      /\ Arriving # <<>> /\ Arriving' = Tail(Arriving)
      /\ Waiting' = Waiting \o t
  BY FrameMoves
<1>2. Arriving \in Seq(Replies) /\ Waiting \in Seq(Replies)
  BY Queues
<1>3. /\ h \in Replies /\ Tail(Arriving) \in Seq(Replies)
      /\ ToSet(Arriving) = {h} \cup ToSet(Tail(Arriving))
  BY <1>1, <1>2, HeadAndTail
<1>4. t \in Seq(Replies) /\ ToSet(t) = {h} \ Unheard
  <2>1. CASE h \in Unheard
    BY <2>1, EmptyContents
  <2>2. CASE h \notin Unheard
    BY <1>3, <2>2, SingleContents
  <2> QED BY <2>1, <2>2
<1>5. \A R : Chain(Waiting, Arriving, R) => Chain(Waiting', Arriving', R)
  <2> SUFFICES ASSUME NEW R, Chain(Waiting, Arriving, R) PROVE Chain(Waiting', Arriving', R)
    OBVIOUS
  <2>1. Chain(Waiting \o <<h>>, Tail(Arriving), R) /\ Chain(Waiting, Tail(Arriving), R)
    BY <1>1, <1>2, ChainPasses
  <2>2. Waiting \o <<>> = Waiting
    BY <1>2, ConcatEmptySeq
  <2> QED BY <1>1, <2>1, <2>2
<1> HIDE DEF t
<1>6. /\ ToSet(Waiting') = ToSet(Waiting) \cup ToSet(t)
      /\ \A X : Count(Waiting', X) = Count(Waiting, X) + Count(t, X)
  <2>1. ToSet(Waiting \o t) = ToSet(Waiting) \cup ToSet(t)
    BY <1>2, <1>4, ConcatContents
  <2>2. \A X : Count(Waiting \o t, X) = Count(Waiting, X) + Count(t, X)
    BY <1>2, <1>4, ConcatCount DEF Count
  <2> QED BY <1>1, <2>1, <2>2
<1>7. Passing' = ToSet(Arriving') \cup ToSet(Waiting')
  BY DEF Passing
<1>8. Passing' \subseteq Passing /\ Passing \ Unheard \subseteq Passing'
  BY <1>1, <1>3, <1>4, <1>6, <1>7 DEF Passing
<1>9. ASSUME NEW X, X \cap Unheard = {}
      PROVE  Count(Arriving', X) + Count(Waiting', X) = Count(Arriving, X) + Count(Waiting, X)
  <2>1. Count(Arriving, X) = (IF h \in X THEN 1 ELSE 0) + Count(Tail(Arriving), X)
    BY <1>1, <1>2, TailCount DEF Count
  <2>2. Count(t, X) = IF h \in X THEN 1 ELSE 0
    <3>1. CASE h \in Unheard
      BY <1>9, <3>1, EmptyContents, FS_EmptySet DEF t, Count
    <3>2. CASE h \notin Unheard
      BY <3>2, SingleCount DEF t, Count
    <3> QED BY <3>1, <3>2
  <2>3. Count(Waiting, X) \in Nat /\ Count(Tail(Arriving), X) \in Nat
    BY <1>2, <1>3, PlacesFinite DEF Count
  <2> QED BY <1>1, <1>6, <2>1, <2>2, <2>3
<1>10. \E u \in Seq(Replies) : Waiting' = Waiting \o u /\ ToSet(u) \subseteq ToSet(Arriving)
  BY <1>1, <1>3, <1>4
<1> QED BY <1>1, <1>3, <1>5, <1>8, <1>9, <1>10

LEMMA EventEffect ==
  ASSUME Srv!IInv, NEW bs \in Seq(Requests), NEW cs \in Seq(Replies),
         Srv!HandleEvent(Asks(bs), Events(cs))
  PROVE  /\ Srv!IInv'
         /\ Waiting # <<>> /\ Content = Head(Waiting)
         /\ Content \in Replies /\ Content \in ToSet(Waiting) /\ Content \in Passing
         /\ ToSet(Wire') = ToSet(Wire) \cup ToSet(bs)
         /\ Arriving' = Arriving
         /\ Waiting' = Tail(Waiting) \o cs
         /\ ToSet(Waiting) = {Content} \cup ToSet(Tail(Waiting))
         /\ ToSet(Waiting') = ToSet(Tail(Waiting)) \cup ToSet(cs)
         /\ Passing' \subseteq Passing \cup ToSet(cs)
         /\ Passing \subseteq Passing' \cup {Content} /\ ToSet(cs) \subseteq Passing'
<1>1. /\ Asks(bs) \in Seq(Srv!Request) /\ Bodies(Asks(bs)) = bs
      /\ Events(cs) \in Seq(SP!OwnEvent) /\ Bodies(Events(cs)) = cs
  BY Sent
<1>2. /\ Srv!IInv'
      /\ Waiting # <<>> /\ Content = Head(Waiting)
      /\ Waiting' = Tail(Waiting) \o cs
      /\ Wire' = Wire \o bs
      /\ Arriving' = Arriving
  BY <1>1, EventMoves
<1>3. Waiting \in Seq(Replies) /\ Wire \in Seq(Requests)
  BY Queues
<1>4. /\ ToSet(Waiting) = {Content} \cup ToSet(Tail(Waiting))
      /\ ToSet(Waiting') = ToSet(Tail(Waiting)) \cup ToSet(cs)
  BY <1>2, <1>3, StepCount
<1>5. ToSet(Wire') = ToSet(Wire) \cup ToSet(bs)
  BY <1>2, <1>3, ConcatContents
<1>6. Content \in Replies
  BY <1>2, <1>3, HeadAndTail
<1>7. Passing' = ToSet(Arriving) \cup ToSet(Waiting')
  BY <1>2 DEF Passing
<1>8. /\ Passing' \subseteq Passing \cup ToSet(cs) /\ Content \in Passing
      /\ Passing \subseteq Passing' \cup {Content} /\ ToSet(cs) \subseteq Passing'
  BY <1>4, <1>7 DEF Passing
<1> QED BY <1>2, <1>4, <1>5, <1>6, <1>8

LEMMA EventCounts ==
  ASSUME Srv!IInv, NEW bs \in Seq(Requests), NEW cs \in Seq(Replies),
         Srv!HandleEvent(Asks(bs), Events(cs)), NEW X
  PROVE  /\ Count(Wire', X) = Count(Wire, X) + Count(bs, X)
         /\ Count(Waiting', X) + (IF Content \in X THEN 1 ELSE 0)
              = Count(Waiting, X) + Count(cs, X)
         /\ Arriving' = Arriving
         /\ {Count(Wire, X), Count(Arriving, X), Count(Waiting, X), Count(Wire', X),
             Count(Waiting', X), Count(bs, X), Count(cs, X)} \subseteq Nat
<1>1. /\ Asks(bs) \in Seq(Srv!Request) /\ Bodies(Asks(bs)) = bs
      /\ Events(cs) \in Seq(SP!OwnEvent) /\ Bodies(Events(cs)) = cs
  BY Sent
<1>2. /\ Srv!IInv'
      /\ Waiting # <<>> /\ Content = Head(Waiting)
      /\ Waiting' = Tail(Waiting) \o cs
      /\ Wire' = Wire \o bs
      /\ Arriving' = Arriving
  BY <1>1, EventMoves
<1>3. Wire \in Seq(Requests) /\ Arriving \in Seq(Replies) /\ Waiting \in Seq(Replies)
  BY Queues
<1>4. Wire' \in Seq(Requests) /\ Waiting' \in Seq(Replies)
  BY <1>2, <1>3, StepCount, ConcatContents
<1>5. {Count(Wire, X), Count(Arriving, X), Count(Waiting, X), Count(Wire', X),
       Count(Waiting', X), Count(bs, X), Count(cs, X)} \subseteq Nat
  BY <1>3, <1>4, PlacesFinite DEF Count
<1>6. /\ Count(Wire', X) = Count(Wire, X) + Count(bs, X)
      /\ Count(Waiting', X) + (IF Content \in X THEN 1 ELSE 0)
           = Count(Waiting, X) + Count(cs, X)
  <2>1. Count(Wire \o bs, X) = Count(Wire, X) + Count(bs, X)
    BY <1>3, ConcatCount DEF Count
  <2>2. Count(Tail(Waiting) \o cs, X) + (IF Head(Waiting) \in X THEN 1 ELSE 0)
          = Count(Waiting, X) + Count(cs, X)
    <3>1. PICK q \in Seq(Replies) : q = Waiting /\ q # <<>>
      BY <1>2, <1>3
    <3>2. cs \in Seq(Replies)
      OBVIOUS
    <3>3. Count(Tail(q) \o cs, X) + (IF Head(q) \in X THEN 1 ELSE 0) = Count(q, X) + Count(cs, X)
      BY ONLY <3>1, <3>2, StepCount DEF Count
    <3> QED BY ONLY <3>1, <3>3
  <2> QED BY ONLY <1>2, <2>1, <2>2
<1> QED BY <1>2, <1>5, <1>6

LEMMA AnswerEffect ==
  ASSUME Srv!IInv, NEW bodies \in Seq(Replies) \ {<<>>}, Srv!Answer(bodies)
  PROVE  /\ Srv!IInv'
         /\ Question \in Requests /\ Question \in ToSet(Wire)
         /\ ToSet(Wire) = ToSet(Wire') \cup {Question}
         /\ Arriving' = Arriving \o bodies
         /\ ToSet(Arriving') = ToSet(Arriving) \cup ToSet(bodies)
         /\ Waiting' = Waiting
         /\ Passing' = Passing \cup ToSet(bodies)
<1>1. /\ Srv!IInv'
      /\ Wire # <<>> /\ Question = Head(Wire)
      /\ Wire' = Tail(Wire)
      /\ Arriving' = Arriving \o bodies
      /\ Waiting' = Waiting
  BY AnswerMoves
<1>2. Arriving \in Seq(Replies) /\ Wire \in Seq(Requests)
  BY Queues
<1>3. /\ Question \in Requests
      /\ ToSet(Wire) = ToSet(Wire') \cup {Question}
  BY <1>1, <1>2, HeadAndTail
<1>4. ToSet(Arriving') = ToSet(Arriving) \cup ToSet(bodies)
  BY <1>1, <1>2, ConcatContents
<1>5. Passing' = Passing \cup ToSet(bodies)
  BY <1>1, <1>4 DEF Passing
<1> QED BY <1>1, <1>3, <1>4, <1>5

LEMMA AnswerCounts ==
  ASSUME Srv!IInv, NEW bodies \in Seq(Replies) \ {<<>>}, Srv!Answer(bodies), NEW X
  PROVE  /\ Count(Wire', X) + (IF Question \in X THEN 1 ELSE 0) = Count(Wire, X)
         /\ Count(Arriving', X) = Count(Arriving, X) + Count(bodies, X)
         /\ Waiting' = Waiting
         /\ {Count(Wire, X), Count(Arriving, X), Count(Waiting, X), Count(Wire', X),
             Count(Arriving', X), Count(bodies, X)} \subseteq Nat
<1>1. /\ Wire # <<>> /\ Question = Head(Wire)
      /\ Wire' = Tail(Wire)
      /\ Arriving' = Arriving \o bodies
      /\ Waiting' = Waiting
  BY AnswerMoves
<1>2. Arriving \in Seq(Replies) /\ Wire \in Seq(Requests) /\ Waiting \in Seq(Replies)
  BY Queues
<1>3. Wire' \in Seq(Requests) /\ Arriving' \in Seq(Replies)
  BY <1>1, <1>2, HeadAndTail, ConcatContents
<1>4. {Count(Wire, X), Count(Arriving, X), Count(Waiting, X), Count(Wire', X),
       Count(Arriving', X), Count(bodies, X)} \subseteq Nat
  BY <1>2, <1>3, PlacesFinite DEF Count
<1>5. Count(Wire, X) = (IF Question \in X THEN 1 ELSE 0) + Count(Wire', X)
  BY <1>1, <1>2, TailCount DEF Count
<1>6. Count(Arriving', X) = Count(Arriving, X) + Count(bodies, X)
  BY <1>1, <1>2, ConcatCount DEF Count
<1> QED BY <1>1, <1>4, <1>5, <1>6

LEMMA PushEffect ==
  ASSUME Srv!IInv, Srv!Push(Msg("NewTurn"))
  PROVE  /\ Srv!IInv'
         /\ Wire' = Wire
         /\ Arriving' = Arriving \o <<Msg("NewTurn")>>
         /\ ToSet(Arriving') = ToSet(Arriving) \cup {Msg("NewTurn")}
         /\ Waiting' = Waiting
         /\ Passing' = Passing \cup {Msg("NewTurn")}
         /\ \A X : Count(Arriving', X) = Count(Arriving, X) + (IF Msg("NewTurn") \in X THEN 1 ELSE 0)
<1> DEFINE t == <<Msg("NewTurn")>>
<1>1. Msg("NewTurn") \in Replies
  BY PlainSaid DEF PlainTypes
<1>2. /\ Srv!IInv' /\ Wire' = Wire /\ Waiting' = Waiting
      /\ Arriving' = Arriving \o t
  BY <1>1, PushMoves
<1>3. t \in Seq(Replies) /\ ToSet(t) = {Msg("NewTurn")}
      /\ \A X : Count(t, X) = IF Msg("NewTurn") \in X THEN 1 ELSE 0
  BY <1>1, SingleContents, SingleCount DEF Count
<1>4. Arriving \in Seq(Replies)
  BY Queues
<1> HIDE DEF t
<1>5. ToSet(Arriving') = ToSet(Arriving) \cup {Msg("NewTurn")}
  BY <1>2, <1>3, <1>4, ConcatContents
<1>6. \A X : Count(Arriving', X) = Count(Arriving, X) + Count(t, X)
  BY <1>2, <1>3, <1>4, ConcatCount DEF Count
<1>7. Passing' = Passing \cup {Msg("NewTurn")}
  BY <1>2, <1>5 DEF Passing
<1> QED BY <1>2, <1>3, <1>5, <1>6, <1>7 DEF t
(* Nothing to send: a name, where the provers see too much in <<>>.        *)
Nothing == <<>>

LEMMA NothingSent ==
  /\ Asks(Nothing) = <<>> /\ Events(Nothing) = <<>>
  /\ \A S : Nothing \in Seq(S)
  /\ ToSet(Nothing) = {}
  /\ \A X : Count(Nothing, X) = 0
<1>1. \A S : Nothing \in Seq(S)
  BY DEF Nothing
<1>2. \A X : Count(Nothing, X) = 0
  BY EmptyContents, FS_EmptySet DEF Nothing, Count
<1>3. Asks(Nothing) = <<>> /\ Events(Nothing) = <<>>
  BY DEF Nothing, Asks, Events
<1> QED BY <1>1, <1>2, <1>3, EmptyContents DEF Nothing

LEMMA OneSent ==
  /\ \A r \in Requests : <<r>> \in Seq(Requests)
  /\ \A r \in Replies : <<r>> \in Seq(Replies)
  /\ \A r : /\ Asks(<<r>>) = <<Ask(r)>> /\ Events(<<r>>) = <<Event(r)>>
            /\ ToSet(<<r>>) = {r}
            /\ \A X : Count(<<r>>, X) = IF r \in X THEN 1 ELSE 0
<1>1. ASSUME NEW r PROVE Asks(<<r>>) = <<Ask(r)>> /\ Events(<<r>>) = <<Event(r)>>
  BY DEF Asks, Events
<1>2. ASSUME NEW r
      PROVE  ToSet(<<r>>) = {r} /\ \A X : Count(<<r>>, X) = IF r \in X THEN 1 ELSE 0
  BY SingleContents, SingleCount DEF Count
<1>3. /\ \A r \in Requests : <<r>> \in Seq(Requests)
      /\ \A r \in Replies : <<r>> \in Seq(Replies)
  OBVIOUS
<1> QED BY <1>1, <1>2, <1>3, Zenon

-----------------------------------------------------------------------------
(* What was said stays true while boards grow                              *)

Grows ==
  /\ repaired' = repaired
  /\ \A b \in Boards :
       /\ {Len(posted[b]), Len(posted'[b]), changed[b], changed'[b]} \subseteq Nat
       /\ Len(posted[b]) <= Len(posted'[b])
       /\ \A i \in 1..Len(posted[b]) : posted'[b][i] = posted[b][i]
       /\ changed[b] <= changed'[b]
       /\ changed'[b] = changed[b] => Len(posted'[b]) = Len(posted[b])
  /\ DOMAIN boards \subseteq DOMAIN boards'
  /\ \A b \in DOMAIN boards :
       /\ {boards[b].nalloced, boards'[b].nalloced} \subseteq Nat
       /\ boards[b].nalloced <= boards'[b].nalloced

LEMMA MeantGrows ==
  ASSUME Grows
  PROVE  /\ \A b, s : SlotKnown(b, s) => SlotKnown(b, s)'
         /\ \A b, n, updated : Described(b, n, updated) => Described(b, n, updated)'
         /\ \A r : RequestMeant(r) => RequestMeant(r)'
         /\ \A r : ReplyMeant(r) => ReplyMeant(r)'
<1>1. ASSUME NEW b, NEW s, SlotKnown(b, s) PROVE SlotKnown(b, s)'
  BY <1>1 DEF SlotKnown, Grows, Slots
<1>2. ASSUME NEW b, NEW n, NEW updated, Described(b, n, updated)
      PROVE  Described(b, n, updated)'
  BY <1>2 DEF Described, Grows
<1>3. ASSUME NEW r, RequestMeant(r) PROVE RequestMeant(r)'
  <2>1. \A s : SlotKnown(r.id, s) => SlotKnown(r.id, s)'
    BY <1>1
  <2> QED BY <1>3, <2>1 DEF RequestMeant
<1>4. ASSUME NEW r, ReplyMeant(r) PROVE ReplyMeant(r)'
  <2>1. r.type = "Board" => Described(r.id, r.nmessages, r.updated)'
    BY <1>2, <1>4 DEF ReplyMeant
  <2>2. r.type = "Message" => SlotKnown(r.id, r.slot)' /\ r.turn = posted'[r.id][r.slot + 1]
    <3> SUFFICES ASSUME r.type = "Message"
                 PROVE  SlotKnown(r.id, r.slot)' /\ r.turn = posted'[r.id][r.slot + 1]
      OBVIOUS
    <3>1. SlotKnown(r.id, r.slot) /\ r.turn = posted[r.id][r.slot + 1]
      BY <1>4 DEF ReplyMeant
    <3>2. r.id \in Boards /\ r.slot + 1 \in 1..Len(posted[r.id])
      BY <3>1 DEF SlotKnown, Slots, Grows
    <3> QED BY <1>1, <3>1, <3>2 DEF Grows
  <2> QED BY <1>4, <2>1, <2>2 DEF ReplyMeant
<1> QED BY <1>1, <1>2, <1>3, <1>4

(* The fields of a board that is known.                                    *)
LEMMA BoardFields ==
  ASSUME BoardsKept, NEW b \in DOMAIN boards
  PROVE  /\ b \in Boards /\ "list" \in repaired
         /\ boards[b] \in BoardType
         /\ boards[b].nalloced \in Nat /\ boards[b].nmessages = boards[b].nalloced
         /\ boards[b].unread \in Nat /\ boards[b].received \in Nat
         /\ boards[b].messages \in [Slots(boards[b].nalloced) -> MessageType]
         /\ DOMAIN boards[b].messages = Slots(boards[b].nalloced)
         /\ Held(b) \subseteq Slots(boards[b].nalloced) /\ Held(b) \subseteq Nat
<1>1. /\ b \in Boards /\ "list" \in repaired /\ BoardOK(b)
  BY DEF BoardsKept
<1>2. /\ boards[b] \in BoardType
      /\ boards[b].nalloced \in Nat /\ boards[b].nmessages = boards[b].nalloced
      /\ boards[b].unread \in Nat /\ boards[b].received \in Nat
      /\ boards[b].messages \in UNION {[Slots(n) -> MessageType] : n \in Nat}
      /\ DOMAIN boards[b].messages = Slots(boards[b].nalloced)
  BY <1>1 DEF BoardOK, BoardType
<1>3. PICK n \in Nat : boards[b].messages \in [Slots(n) -> MessageType]
  BY <1>2
<1>4. boards[b].messages \in [Slots(boards[b].nalloced) -> MessageType]
  BY <1>2, <1>3
<1>5. Held(b) \subseteq Slots(boards[b].nalloced) /\ Slots(boards[b].nalloced) \subseteq Nat
  BY <1>2 DEF Held, Slots
<1> QED BY <1>1, <1>2, <1>4, <1>5

LEMMA PostedFields ==
  ASSUME Posted, NEW b \in Boards
  PROVE  /\ posted[b] \in Seq(Nat \ {0}) /\ Len(posted[b]) \in Nat
         /\ changed[b] \in Nat \ {0} /\ changed[b] <= serverTurn
         /\ \A i \in 1..Len(posted[b]) : posted[b][i] \in Nat \ {0} /\ posted[b][i] <= serverTurn
<1>1. serverTurn \in Nat /\ changed[b] \in 1..serverTurn /\ posted[b] \in Seq(1..serverTurn)
  BY DEF Posted
<1>2. Len(posted[b]) \in Nat /\ \A i \in 1..Len(posted[b]) : posted[b][i] \in 1..serverTurn
  BY <1>1
<1>3. 1..serverTurn \subseteq Nat \ {0}
  BY <1>1
<1>4. posted[b] \in Seq(Nat \ {0})
  BY <1>1, <1>3, SeqMonotonic
<1> QED BY <1>1, <1>2, <1>4

(* Steps that leave the boards alone.                                      *)
LEMMA StillGrows ==
  ASSUME Posted, BoardsKept, UNCHANGED <<repaired, boards, posted, changed>>
  PROVE  Grows
<1>1. \A b \in Boards : Len(posted[b]) \in Nat /\ changed[b] \in Nat
  BY PostedFields
<1>2. \A b \in DOMAIN boards : boards[b].nalloced \in Nat
  BY BoardFields
<1> QED BY <1>1, <1>2 DEF Grows

LEMMA StillHeld ==
  ASSUME boards' = boards
  PROVE  /\ \A b : Held(b)' = Held(b)
         /\ \A b, s : IsHeld(b, s)' <=> IsHeld(b, s)
         /\ \A b, s : TurnAt(b, s)' = TurnAt(b, s)
         /\ \A b : BoardAge(b)' = BoardAge(b)
         /\ CountsAgree => CountsAgree'
BY DEF Held, IsHeld, TurnAt, BoardAge, CountsAgree

LEMMA StillKept ==
  ASSUME Posted, BoardsKept, CountsAgree, BoxesHold,
         UNCHANGED <<repaired, boards, boxes, posted, changed, serverTurn>>
  PROVE  Posted' /\ BoardsKept' /\ CountsAgree' /\ BoxesHold'
<1>1. Posted'
  BY DEF Posted
<1>2. \A b : BoardOK(b) => BoardOK(b)'
  BY DEF BoardOK, Described, Held, TurnAt
<1>3. BoardsKept'
  BY <1>2 DEF BoardsKept
<1>4. BoxesHold'
  BY StillHeld DEF BoxesHold
<1> QED BY <1>1, <1>3, <1>4, StillHeld

LEMMA StillMeant ==
  ASSUME Grows, Meant,
         \A r \in ToSet(Wire') : r \in ToSet(Wire) \/ RequestMeant(r)',
         \A r \in Passing' : r \in Passing \/ ReplyMeant(r)',
         \A r \in ToSet(Arriving') : r \in ToSet(Arriving) \/ r.type \notin {"BoardUpdate", "Connected"}
  PROVE  Meant'
<1>1. /\ \A r : RequestMeant(r) => RequestMeant(r)'
      /\ \A r : ReplyMeant(r) => ReplyMeant(r)'
  BY MeantGrows
<1>2. \A r \in ToSet(Wire') : RequestMeant(r)'
  BY <1>1 DEF Meant
<1>3. \A r \in Passing' : ReplyMeant(r)'
  BY <1>1 DEF Meant
<1>4. \A r \in ToSet(Arriving') : r.type \notin {"BoardUpdate", "Connected"}
  BY DEF Meant
<1> QED BY <1>2, <1>3, <1>4 DEF Meant
LEMMA StillGrow ==
  ASSUME BoardsGrow, boards' = boards, Chain(Waiting', Arriving', Growing),
         \A r \in Passing' : r.type = "Board" => r \in Passing
  PROVE  BoardsGrow'
BY DEF BoardsGrow

SameSlots ==
  /\ DOMAIN boards' = DOMAIN boards
  /\ \A b \in DOMAIN boards : boards'[b].nalloced = boards[b].nalloced

LEMMA StillInPlace ==
  ASSUME InOnePlace, SameSlots, repaired' = repaired, refused \subseteq refused',
         BoardsKept,
         \A b \in Boards, s \in Nat :
           \/ Whereabouts(b, s)' = Whereabouts(b, s)
           \/ Place(b, s) \in refused' /\ Whereabouts(b, s)' <= 1
  PROVE  InOnePlace'
<1>1. "list" \in repaired' => \A b \in Boards, s \in Nat : Whereabouts(b, s)' <= 1
  BY DEF InOnePlace
<1>2. ASSUME Both', NEW b \in DOMAIN boards', NEW s \in Slots(boards'[b].nalloced)
      PROVE  Place(b, s) \in refused' \/ Whereabouts(b, s)' >= 1
  <2>1. Both /\ b \in DOMAIN boards /\ s \in Slots(boards[b].nalloced)
    BY <1>2 DEF Both, SameSlots
  <2>2. b \in Boards /\ s \in Nat
    BY <2>1, BoardFields DEF Slots
  <2> QED BY <2>1, <2>2 DEF InOnePlace
<1> QED BY <1>1, <1>2 DEF InOnePlace

LEMMA StillCome ==
  ASSUME BoardsCome, SameSlots, UNCHANGED <<repaired, posted, changed>>,
         \A b \in Boards, r \in ToSet(Wire) : AskedFor(r, b) =>
           (\E q \in ToSet(Wire') : AskedFor(q, b)) \/ (\E q \in Passing' : Brings(q, b)),
         \A b \in Boards, r \in Passing : Brings(r, b) =>
           \/ \E q \in ToSet(Wire') : AskedFor(q, b)
           \/ \E q \in Passing' : Brings(q, b)
           \/ b \in DOMAIN boards /\ boards[b].nalloced = Len(posted[b])
  PROVE  BoardsCome'
<1>1. \A r, b : AskedFor(r, b)' <=> AskedFor(r, b)
  BY DEF AskedFor
<1>2. \A r, b : Brings(r, b)' <=> Brings(r, b)
  BY DEF Brings
<1> QED BY <1>1, <1>2 DEF BoardsCome, SameSlots

LEMMA StillFollow ==
  ASSUME IconsFollow, boards' = boards, icons' = icons, Ordered(Waiting', Newer),
         \A r : r.type = "BoardUpdate" => (r \in ToSet(Waiting') <=> r \in ToSet(Waiting))
  PROVE  IconsFollow'
<1>1. \A b : BoardAge(b)' = BoardAge(b)
  BY DEF BoardAge
<1>2. \A b : BoardUpdate(b, boards[b]).type = "BoardUpdate"
  BY DEF BoardUpdate
<1>3. ASSUME NEW r \in ToSet(Waiting'), r.type = "BoardUpdate"
      PROVE  /\ r.id \in DOMAIN boards'
             /\ UpdateAge(r) <= BoardAge(r.id)'
             /\ r.id \in DOMAIN icons' => UpdateAge(icons'[r.id]) < UpdateAge(r)
  BY <1>1, <1>3 DEF IconsFollow
<1>4. ASSUME NEW b \in DOMAIN boards', boards'[b].received > 0
      PROVE  \/ BoardUpdate(b, boards'[b]) \in ToSet(Waiting')
             \/ b \in DOMAIN icons' /\ icons'[b] = Shown(BoardUpdate(b, boards'[b]))
  BY <1>2, <1>4 DEF IconsFollow
<1>5. \A b \in DOMAIN icons' : /\ icons'[b] \in [unread : Int, messages : Int, lit : BOOLEAN]
                               /\ b \in DOMAIN boards' /\ UpdateAge(icons'[b]) <= BoardAge(b)'
  BY <1>1 DEF IconsFollow
<1> QED BY <1>3, <1>4, <1>5 DEF IconsFollow

(* Nothing that comes in a frame is about an icon.                         *)
LEMMA NewerThrough ==
  ASSUME Srv!IInv, Meant, IconsFollow
  PROVE  Chain(Waiting, Arriving, Newer)
<1>1. Waiting \in Seq(Replies) /\ Arriving \in Seq(Replies)
  BY Queues
<1>2. /\ ToSet(Waiting) \subseteq Replies /\ ToSet(Arriving) \subseteq Replies
      /\ Len(Arriving) \in Nat
      /\ \A i \in 1..Len(Arriving) : Arriving[i] \in ToSet(Arriving)
  BY <1>1, Contents
<1>3. \A x \in Replies, y \in ToSet(Arriving) : <<x, y>> \in Newer
  BY <1>2 DEF Newer, Meant
<1>4. Ordered(Arriving, Newer)
  BY <1>2, <1>3 DEF Ordered
<1>5. Across(Waiting, Arriving, Newer)
  BY <1>2, <1>3 DEF Across
<1> QED BY <1>4, <1>5 DEF Chain, IconsFollow

LEMMA SaidAbout ==
  ASSUME NEW b, NEW s
  PROVE  /\ AskedAs(b, s) \subseteq Requests /\ SentAs(b, s) \subseteq Replies
         /\ SentAs(b, s) \cap Unheard = {}
         /\ \A r \in SentAs(b, s) : r.type = "Message"
         /\ \A r \in AskedAs(b, s) : r.type = "MessageGet"
BY PlainSaid DEF AskedAs, SentAs

LEMMA FrameKeeps ==
  ASSUME IInv, Frame
  PROVE  IInv'
<1>1. /\ Srv!IInv /\ Posted /\ Meant /\ BoardsKept /\ CountsAgree /\ BoardsGrow
      /\ InOnePlace /\ BoardsCome /\ IconsFollow /\ BoxesHold
  BY DEF IInv
<1>2. /\ fromServer # <<>> /\ Srv!HandlePacket(<<>>, <<>>)
      /\ UNCHANGED <<repaired, boards, icons, boxes, stopped, posted, changed, refused, serverTurn>>
  BY DEF Frame, playerVars, peerVars
<1>3. /\ Srv!IInv'
      /\ Wire' = Wire
      /\ ToSet(Arriving') \subseteq ToSet(Arriving)
      /\ \E t \in Seq(Replies) : Waiting' = Waiting \o t /\ ToSet(t) \subseteq ToSet(Arriving)
      /\ Passing' \subseteq Passing /\ Passing \ Unheard \subseteq Passing'
      /\ \A R : Chain(Waiting, Arriving, R) => Chain(Waiting', Arriving', R)
      /\ \A X : X \cap Unheard = {} =>
           Count(Arriving', X) + Count(Waiting', X) = Count(Arriving, X) + Count(Waiting, X)
  BY <1>1, <1>2, FrameEffect
<1>4. /\ Waiting \in Seq(Replies) /\ Arriving \in Seq(Replies)
      /\ Waiting' \in Seq(Replies) /\ Arriving' \in Seq(Replies)
      /\ Wire \in Seq(Requests)
  <2>1. Waiting' \in Seq(Replies) /\ Arriving' \in Seq(Replies)
    BY <1>3, QueuesNext
  <2> QED BY <1>1, <2>1, Queues
<1>5. Posted' /\ BoardsKept' /\ CountsAgree' /\ BoxesHold'
  BY <1>1, <1>2, StillKept
<1>6. Meant'
  BY <1>1, <1>2, <1>3, StillGrows, StillMeant
<1>7. BoardsGrow'
  BY <1>1, <1>2, <1>3, StillGrow DEF BoardsGrow
<1>8. InOnePlace'
  <2>1. ASSUME NEW b \in Boards, NEW s \in Nat PROVE Whereabouts(b, s)' = Whereabouts(b, s)
    <3> DEFINE A == AskedAs(b, s)
               X == SentAs(b, s)
    <3>1. Count(Arriving', X) + Count(Waiting', X) = Count(Arriving, X) + Count(Waiting, X)
      BY <1>3, SaidAbout
    <3>2. IsHeld(b, s)' <=> IsHeld(b, s)
      BY <1>2, StillHeld
    <3>3. {Count(Wire, A), Count(Arriving, X), Count(Waiting, X), Count(Arriving', X),
           Count(Waiting', X)} \subseteq Nat
      BY <1>4, PlacesFinite DEF Count
    <3>4. Whereabouts(b, s) = Count(Wire, A) + Count(Arriving, X) + Count(Waiting, X)
                                + (IF IsHeld(b, s) THEN 1 ELSE 0)
      BY DEF Whereabouts, Count
    <3>5. Whereabouts(b, s)' = Count(Wire, A) + Count(Arriving', X) + Count(Waiting', X)
                                 + (IF IsHeld(b, s) THEN 1 ELSE 0)
      BY <1>3, <3>2 DEF Whereabouts, Count, AskedAs, SentAs
    <3> HIDE DEF A, X
    <3> QED BY <3>1, <3>3, <3>4, <3>5
  <2> QED BY <1>1, <1>2, <2>1, StillInPlace DEF SameSlots
<1>9. BoardsCome'
  <2>1. ASSUME NEW b \in Boards, NEW r \in Passing, Brings(r, b) PROVE r \in Passing'
    <3>1. r.type # "SEQUENCE"
      BY <2>1 DEF Brings
    <3> QED BY <1>3, <3>1, PlainSaid
  <2> QED BY <1>1, <1>2, <1>3, <2>1, StillCome DEF SameSlots
<1>10. IconsFollow'
  <2>1. Ordered(Waiting', Newer)
    BY <1>1, <1>3, NewerThrough DEF Chain
  <2>2. PICK t \in Seq(Replies) : Waiting' = Waiting \o t /\ ToSet(t) \subseteq ToSet(Arriving)
    BY <1>3
  <2>3. ToSet(Waiting') = ToSet(Waiting) \cup ToSet(t)
    BY <1>4, <2>2, ConcatContents
  <2>4. \A r : r.type = "BoardUpdate" => (r \in ToSet(Waiting') <=> r \in ToSet(Waiting))
    BY <1>1, <2>2, <2>3 DEF Meant
  <2> QED BY <1>1, <1>2, <2>1, <2>4, StillFollow
<1> QED BY <1>3, <1>5, <1>6, <1>7, <1>8, <1>9, <1>10 DEF IInv
-----------------------------------------------------------------------------
(* Events that leave the boards alone                                      *)

(* What becomes of a message when an event is handled.                     *)
LEMMA EventWhereabouts ==
  ASSUME Srv!IInv, NEW bs \in Seq(Requests), NEW cs \in Seq(Replies),
         Srv!HandleEvent(Asks(bs), Events(cs)), \A r \in ToSet(cs) : r.type # "Message",
         NEW b, NEW s
  PROVE  /\ Whereabouts(b, s) \in Nat /\ Count(bs, AskedAs(b, s)) \in Nat
         /\ Whereabouts(b, s)' \in Nat
         /\ Whereabouts(b, s)' + (IF Content \in SentAs(b, s) THEN 1 ELSE 0)
                                + (IF IsHeld(b, s) THEN 1 ELSE 0)
              = Whereabouts(b, s) + Count(bs, AskedAs(b, s)) + (IF IsHeld(b, s)' THEN 1 ELSE 0)
         /\ Content \in SentAs(b, s) => Whereabouts(b, s) >= 1 + (IF IsHeld(b, s) THEN 1 ELSE 0)
<1> DEFINE A == AskedAs(b, s)
           X == SentAs(b, s)
<1>1. /\ Count(Wire', A) = Count(Wire, A) + Count(bs, A)
      /\ {Count(Wire, A), Count(Wire', A), Count(bs, A)} \subseteq Nat
  BY EventCounts
<1>2. /\ Count(Waiting', X) + (IF Content \in X THEN 1 ELSE 0) = Count(Waiting, X) + Count(cs, X)
      /\ Arriving' = Arriving
      /\ {Count(Arriving, X), Count(Waiting, X), Count(Waiting', X), Count(cs, X)} \subseteq Nat
  BY EventCounts
<1>3. Count(cs, X) = 0
  <2>1. ToSet(cs) \cap X = {}
    BY SaidAbout
  <2> QED BY <2>1, PlacesFinite DEF Count
<1>4. Whereabouts(b, s) = Count(Wire, A) + Count(Arriving, X) + Count(Waiting, X)
                            + (IF IsHeld(b, s) THEN 1 ELSE 0)
  BY DEF Whereabouts, Count
<1>5. Whereabouts(b, s)' = Count(Wire', A) + Count(Arriving', X) + Count(Waiting', X)
                             + (IF IsHeld(b, s)' THEN 1 ELSE 0)
  BY DEF Whereabouts, Count, AskedAs, SentAs
<1> HIDE DEF A, X
<1> PICK i \in Nat : i = IF Content \in X THEN 1 ELSE 0
  OBVIOUS
<1> PICK h \in Nat : h = IF IsHeld(b, s) THEN 1 ELSE 0
  OBVIOUS
<1> PICK k \in Nat : k = IF IsHeld(b, s)' THEN 1 ELSE 0
  OBVIOUS
<1>6. /\ Count(Wire, A) \in Nat /\ Count(Wire', A) \in Nat /\ Count(bs, A) \in Nat
      /\ Count(Arriving, X) \in Nat /\ Count(Waiting, X) \in Nat /\ Count(Waiting', X) \in Nat
  BY <1>1, <1>2
<1>7. /\ Count(Waiting', X) + i = Count(Waiting, X)
      /\ Whereabouts(b, s) = Count(Wire, A) + Count(Arriving, X) + Count(Waiting, X) + h
      /\ Whereabouts(b, s)' = Count(Wire', A) + Count(Arriving, X) + Count(Waiting', X) + k
  BY <1>2, <1>3, <1>4, <1>5, <1>6
<1> PICK w1 \in Nat : w1 = Count(Wire, A)
  BY <1>6
<1> PICK w2 \in Nat : w2 = Count(Wire', A)
  BY <1>6
<1> PICK a \in Nat : a = Count(Arriving, X)
  BY <1>6
<1> PICK e1 \in Nat : e1 = Count(Waiting, X)
  BY <1>6
<1> PICK e2 \in Nat : e2 = Count(Waiting', X)
  BY <1>6
<1> PICK n \in Nat : n = Count(bs, A)
  BY <1>6
<1>9. w2 = w1 + n /\ e2 + i = e1
  BY <1>1, <1>7
<1>10. PICK u, v : u = Whereabouts(b, s) /\ v = Whereabouts(b, s)'
  OBVIOUS
<1>11. u = w1 + a + e1 + h /\ v = w2 + a + e2 + k
  BY <1>7, <1>10
<1>12. /\ u \in Nat /\ v \in Nat
       /\ v + i + h = u + n + k
       /\ i = 1 => u >= 1 + h
  BY ONLY <1>9, <1>11, i \in Nat, h \in Nat, k \in Nat, w1 \in Nat, w2 \in Nat, a \in Nat,
          e1 \in Nat, e2 \in Nat, n \in Nat
<1>8. /\ Whereabouts(b, s) \in Nat /\ Whereabouts(b, s)' \in Nat
      /\ Whereabouts(b, s)' + i + h = Whereabouts(b, s) + Count(bs, A) + k
      /\ i = 1 => Whereabouts(b, s) >= 1 + h
  BY <1>10, <1>12
<1> QED BY <1>6, <1>8 DEF A, X

LEMMA PlainEventKeeps ==
  ASSUME IInv, NEW bs \in Seq(Requests), Srv!HandleEvent(Asks(bs), Events(Nothing)),
         UNCHANGED <<repaired, boards, playerVars, peerVars>>,
         Content.type # "BoardUpdate", \A r \in ToSet(bs) : RequestMeant(r)
  PROVE  /\ Srv!IInv' /\ Posted' /\ Meant' /\ BoardsKept' /\ CountsAgree'
         /\ BoardsGrow' /\ IconsFollow' /\ BoxesHold'
<1>1. /\ Srv!IInv /\ Posted /\ Meant /\ BoardsKept /\ CountsAgree /\ BoardsGrow
      /\ IconsFollow /\ BoxesHold
  BY DEF IInv
<1>2. UNCHANGED <<repaired, boards, icons, boxes, stopped, posted, changed, refused, serverTurn>>
  BY DEF playerVars, peerVars
<1>3. /\ Srv!IInv'
      /\ Waiting # <<>> /\ Content = Head(Waiting)
      /\ ToSet(Wire') = ToSet(Wire) \cup ToSet(bs)
      /\ Arriving' = Arriving
      /\ Waiting' = Tail(Waiting) \o Nothing
      /\ ToSet(Waiting) = {Content} \cup ToSet(Tail(Waiting))
      /\ ToSet(Waiting') = ToSet(Tail(Waiting)) \cup ToSet(Nothing)
      /\ Passing' \subseteq Passing \cup ToSet(Nothing)
  BY <1>1, NothingSent, EventEffect
<1>4. Waiting \in Seq(Replies) /\ Arriving \in Seq(Replies)
  BY <1>1, Queues
<1>5. Posted' /\ BoardsKept' /\ CountsAgree' /\ BoxesHold'
  BY <1>1, <1>2, StillKept
<1>6. Meant'
  <2>1. Grows
    BY <1>1, <1>2, StillGrows
  <2>2. \A r \in ToSet(bs) : RequestMeant(r)'
    BY <2>1, MeantGrows
  <2> QED BY <1>1, <1>3, <2>1, <2>2, NothingSent, StillMeant
<1>7. \A R : Chain(Waiting, Arriving, R) => Chain(Waiting', Arriving', R)
  BY <1>3, <1>4, NothingSent, ChainHandled
<1>8. BoardsGrow'
  BY <1>1, <1>2, <1>3, <1>7, NothingSent, StillGrow DEF BoardsGrow
<1>9. IconsFollow'
  <2>1. Ordered(Waiting', Newer)
    BY <1>1, <1>7, NewerThrough DEF Chain
  <2>2. \A r : r.type = "BoardUpdate" => (r \in ToSet(Waiting') <=> r \in ToSet(Waiting))
    BY <1>3, NothingSent
  <2> QED BY <1>1, <1>2, <2>1, <2>2, StillFollow
<1> QED BY <1>3, <1>5, <1>6, <1>8, <1>9

(* An event that is no message, and asks for none.                         *)
LEMMA PlainEventInPlace ==
  ASSUME IInv, NEW bs \in Seq(Requests), Srv!HandleEvent(Asks(bs), Events(Nothing)),
         UNCHANGED <<repaired, boards, refused>>,
         Content.type # "Message", \A r \in ToSet(bs) : r.type # "MessageGet"
  PROVE  InOnePlace'
<1>1. ASSUME NEW b \in Boards, NEW s \in Nat
      PROVE  Whereabouts(b, s)' = Whereabouts(b, s)
  <2>1. /\ Nothing \in Seq(Replies) /\ \A r \in ToSet(Nothing) : r.type # "Message"
    BY NothingSent
  <2>2. /\ Whereabouts(b, s) \in Nat /\ Whereabouts(b, s)' \in Nat
        /\ Whereabouts(b, s)' + (IF Content \in SentAs(b, s) THEN 1 ELSE 0)
                              + (IF IsHeld(b, s) THEN 1 ELSE 0)
             = Whereabouts(b, s) + Count(bs, AskedAs(b, s)) + (IF IsHeld(b, s)' THEN 1 ELSE 0)
    BY <2>1, EventWhereabouts DEF IInv
  <2>3. Content \notin SentAs(b, s)
    BY SaidAbout
  <2>4. Count(bs, AskedAs(b, s)) = 0
    <3>1. ToSet(bs) \cap AskedAs(b, s) = {}
      BY SaidAbout
    <3> QED BY <3>1, PlacesFinite DEF Count
  <2>5. IsHeld(b, s)' <=> IsHeld(b, s)
    BY StillHeld
  <2> QED BY <2>2, <2>3, <2>4, <2>5
<1> QED BY <1>1, StillInPlace DEF IInv, SameSlots

(* What the events send, in a form the lemmas take.                        *)
LEMMA EventSends ==
  /\ Start => /\ Srv!HandleEvent(Asks(<<Msg("GetBoardIDs")>>), Events(Nothing))
              /\ <<Msg("GetBoardIDs")>> \in Seq(Requests)
  /\ Fail => Srv!HandleEvent(Asks(Nothing), Events(Nothing))
  /\ IconUpdate => Srv!HandleEvent(Asks(Nothing), Events(Nothing))
  /\ Nothing \in Seq(Requests) /\ Nothing \in Seq(Replies)
BY NothingSent, OneSent, PlainSaid DEF Start, Fail, IconUpdate

LEMMA StartKeeps == IInv /\ Start => IInv'
<1> SUFFICES ASSUME IInv, Start PROVE IInv'
  OBVIOUS
<1> DEFINE bs == <<Msg("GetBoardIDs")>>
<1>1. /\ bs \in Seq(Requests) /\ ToSet(bs) = {Msg("GetBoardIDs")}
      /\ Srv!HandleEvent(Asks(bs), Events(Nothing)) /\ Nothing \in Seq(Replies)
  BY EventSends, OneSent
<1>2. /\ UNCHANGED <<repaired, boards, playerVars, peerVars>>
      /\ Content.type \in {"Connected", "NewTurn"}
  BY DEF Start, Arrives, Content
<1>3. UNCHANGED <<repaired, boards, icons, boxes, stopped, posted, changed, refused, serverTurn>>
  BY <1>2 DEF playerVars, peerVars
<1> HIDE DEF bs
<1>4. \A r \in ToSet(bs) : r.type = "GetBoardIDs" /\ RequestMeant(r)
  BY <1>1, PlainSaid DEF RequestMeant
<1>5. /\ Srv!IInv' /\ Posted' /\ Meant' /\ BoardsKept' /\ CountsAgree'
      /\ BoardsGrow' /\ IconsFollow' /\ BoxesHold'
  BY <1>1, <1>2, <1>4, PlainEventKeeps
<1>6. InOnePlace'
  BY <1>1, <1>2, <1>3, <1>4, PlainEventInPlace
<1>7. BoardsCome'
  <2>1. ToSet(Wire') = ToSet(Wire) \cup ToSet(bs)
    BY <1>1, EventEffect DEF IInv
  <2>2. \A b : \E q \in ToSet(Wire') : AskedFor(q, b)
    BY <1>1, <1>4, <2>1 DEF AskedFor
  <2> QED BY <1>3, <2>2, StillCome DEF IInv, SameSlots
<1> QED BY <1>5, <1>6, <1>7 DEF IInv

LEMMA FailKeeps == IInv /\ Fail => IInv'
<1> SUFFICES ASSUME IInv, Fail PROVE IInv'
  OBVIOUS
<1>1. /\ Srv!HandleEvent(Asks(Nothing), Events(Nothing))
      /\ Nothing \in Seq(Requests) /\ Nothing \in Seq(Replies) /\ ToSet(Nothing) = {}
  BY EventSends, NothingSent
<1>2. /\ UNCHANGED <<repaired, boards, playerVars, peerVars>>
      /\ Content.type = "Fail"
  BY DEF Fail, Arrives, Content
<1>3. UNCHANGED <<repaired, boards, icons, boxes, stopped, posted, changed, refused, serverTurn>>
  BY <1>2 DEF playerVars, peerVars
<1>5. /\ Srv!IInv' /\ Posted' /\ Meant' /\ BoardsKept' /\ CountsAgree'
      /\ BoardsGrow' /\ IconsFollow' /\ BoxesHold'
  BY <1>1, <1>2, PlainEventKeeps
<1>6. InOnePlace'
  BY <1>1, <1>2, <1>3, PlainEventInPlace
<1>7. BoardsCome'
  <2>1. ToSet(Wire') = ToSet(Wire) \cup ToSet(Nothing) /\ Passing \subseteq Passing' \cup {Content}
    BY <1>1, EventEffect DEF IInv
  <2>2. \A b : ~Brings(Content, b)
    BY <1>2 DEF Brings
  <2> QED BY <1>3, <2>1, <2>2, StillCome DEF IInv, SameSlots
<1> QED BY <1>5, <1>6, <1>7 DEF IInv
(* The boards that changed are asked for.                                  *)
ChangedBoards(r) == {id \in Boards : Updated(id) < r.updated[id]}
Fetched(r) == Selected(r.ids, ChangedBoards(r))
FetchAsked(r) == IF Fetched(r) = <<>> THEN Nothing ELSE <<GetBoards(Fetched(r))>>

LEMMA FetchedIs ==
  ASSUME Meant, NEW r \in Passing, r \in Replies, r.type = "ListOfBoards"
  PROVE  /\ Fetched(r) \in Seq(Boards)
         /\ ToSet(Fetched(r)) = ChangedBoards(r)
         /\ FetchAsked(r) \in Seq(Requests)
         /\ \A q \in ToSet(FetchAsked(r)) : q.type = "GetBoards"
         /\ \A b \in ChangedBoards(r) : \E q \in ToSet(FetchAsked(r)) : AskedFor(q, b)
<1>1. r.ids = Ascending(Boards) /\ r.ids \in Seq(Boards)
  BY SaidToClient DEF Meant, ReplyMeant
<1>2. ToSet(r.ids) = Boards
  BY <1>1, BoundAssumption, AscendingIs
<1>3. /\ Fetched(r) \in Seq(Boards \cap ChangedBoards(r))
      /\ ToSet(Fetched(r)) = ToSet(r.ids) \cap ChangedBoards(r)
  BY <1>1, SelectedIs DEF Fetched
<1>4. ToSet(Fetched(r)) = ChangedBoards(r)
  BY <1>2, <1>3 DEF ChangedBoards
<1>5. Fetched(r) \in Seq(Boards)
  <2>1. Boards \cap ChangedBoards(r) \subseteq Boards
    OBVIOUS
  <2> QED BY <1>3, <2>1, SeqMonotonic
<1> DEFINE q == GetBoards(Fetched(r))
<1>6. q \in Requests /\ q.type = "GetBoards" /\ q.ids = Fetched(r)
  BY <1>5 DEF GetBoards, Requests
<1> HIDE DEF q
<1>7. CASE Fetched(r) = <<>>
  <2>1. FetchAsked(r) = Nothing /\ ChangedBoards(r) = {}
    BY <1>4, <1>7, EmptyContents DEF FetchAsked
  <2> QED BY <1>4, <1>5, <2>1, NothingSent
<1>8. CASE Fetched(r) # <<>>
  <2>1. FetchAsked(r) = <<q>>
    BY <1>8 DEF FetchAsked, q
  <2>2. <<q>> \in Seq(Requests) /\ ToSet(<<q>>) = {q}
    BY <1>6, OneSent
  <2>3. \A b \in ChangedBoards(r) : AskedFor(q, b)
    BY <1>4, <1>6 DEF AskedFor
  <2> QED BY <1>4, <1>5, <1>6, <2>1, <2>2, <2>3
<1> QED BY <1>7, <1>8

LEMMA HandleOidsKeeps == IInv /\ HandleOids => IInv'
<1> SUFFICES ASSUME IInv, HandleOids PROVE IInv'
  OBVIOUS
<1>1. /\ events # <<>> /\ Content.type = "ListOfBoards"
      /\ UNCHANGED <<repaired, boards, playerVars, peerVars>>
      /\ Srv!IInv /\ Posted /\ Meant /\ BoardsKept
  BY DEF HandleOids, Arrives, Content, IInv
<1>2. UNCHANGED <<repaired, boards, icons, boxes, stopped, posted, changed, refused, serverTurn>>
  BY <1>1 DEF playerVars, peerVars
<1>3. PICK r : r = Content
  OBVIOUS
<1>4. r \in Passing /\ r \in Replies /\ r.type = "ListOfBoards"
  <2>1. Waiting # <<>> /\ Content = Head(Waiting) /\ Waiting \in Seq(Replies)
    BY <1>1, Queues
  <2> QED BY <1>1, <1>3, <2>1, HeadAndTail DEF Passing
<1>5. PICK bs : bs = FetchAsked(r)
  OBVIOUS
<1>6. Srv!HandleEvent(Asks(bs), Events(Nothing))
  <2>1. Srv!HandleEvent(IF Fetched(r) # <<>> THEN <<Ask(GetBoards(Fetched(r)))>> ELSE <<>>, <<>>)
    BY <1>3 DEF HandleOids, Fetched, ChangedBoards
  <2>2. Asks(bs) = IF Fetched(r) # <<>> THEN <<Ask(GetBoards(Fetched(r)))>> ELSE <<>>
    <3>1. CASE Fetched(r) = <<>>
      BY <1>5, <3>1, NothingSent DEF FetchAsked
    <3>2. CASE Fetched(r) # <<>>
      BY <1>5, <3>2, OneSent DEF FetchAsked
    <3> QED BY <3>1, <3>2
  <2> QED BY <2>1, <2>2, NothingSent
<1>7. /\ bs \in Seq(Requests) /\ \A q \in ToSet(bs) : q.type = "GetBoards" /\ RequestMeant(q)
      /\ \A b \in ChangedBoards(r) : \E q \in ToSet(bs) : AskedFor(q, b)
  BY <1>1, <1>4, <1>5, FetchedIs DEF RequestMeant
<1>8. /\ Srv!IInv' /\ Posted' /\ Meant' /\ BoardsKept' /\ CountsAgree'
      /\ BoardsGrow' /\ IconsFollow' /\ BoxesHold'
  BY <1>1, <1>6, <1>7, PlainEventKeeps
<1>9. InOnePlace'
  BY <1>1, <1>2, <1>6, <1>7, PlainEventInPlace
<1>10. BoardsCome'
  <2>1. /\ ToSet(Wire') = ToSet(Wire) \cup ToSet(bs)
        /\ Passing \subseteq Passing' \cup {Content}
    BY <1>1, <1>6, <1>7, NothingSent, EventEffect
  <2>2. ASSUME NEW b \in Boards, Brings(r, b)
        PROVE  \/ \E q \in ToSet(bs) : AskedFor(q, b)
               \/ b \in DOMAIN boards /\ boards[b].nalloced = Len(posted[b])
    <3>1. r.updated[b] = changed[b] /\ changed[b] \in Nat \ {0}
      BY <1>1, <1>4, <2>2, PostedFields DEF Brings
    <3>2. CASE Updated(b) < changed[b]
      BY <1>7, <3>1, <3>2 DEF ChangedBoards
    <3>3. CASE ~(Updated(b) < changed[b])
      <4>1. b \in DOMAIN boards
        BY <3>1, <3>3 DEF Updated
      <4>2. Described(b, boards[b].nalloced, boards[b].updated)
        BY <1>1, <4>1 DEF BoardsKept, BoardOK
      <4>3. boards[b].updated \in 1..changed[b] /\ ~(boards[b].updated < changed[b])
        BY <3>3, <4>1, <4>2 DEF Described, Updated
      <4>4. boards[b].updated = changed[b]
        BY <3>1, <4>3
      <4> QED BY <4>1, <4>2, <4>4 DEF Described
    <3> QED BY <3>2, <3>3
  <2> QED BY <1>2, <1>3, <2>1, <2>2, StillCome DEF IInv, SameSlots
<1> QED BY <1>8, <1>9, <1>10 DEF IInv

(* The icon shows what it is told, and what it is told in the end is how   *)
(* the board is.                                                           *)
LEMMA IconUpdateKeeps == IInv /\ IconUpdate => IInv'
<1> SUFFICES ASSUME IInv, IconUpdate PROVE IInv'
  OBVIOUS
<1>1. /\ Srv!IInv /\ Posted /\ Meant /\ BoardsKept /\ CountsAgree /\ BoardsGrow
      /\ IconsFollow /\ BoxesHold
  BY DEF IInv
<1>2. /\ Srv!HandleEvent(Asks(Nothing), Events(Nothing))
      /\ Nothing \in Seq(Requests) /\ Nothing \in Seq(Replies)
      /\ Content.type = "BoardUpdate"
      /\ UNCHANGED <<repaired, boards, boxes, stopped, posted, changed, refused, serverTurn>>
  BY EventSends DEF IconUpdate, Arrives, Content, peerVars
<1>3. /\ Srv!IInv'
      /\ Waiting # <<>> /\ Content = Head(Waiting) /\ Content \in Replies
      /\ ToSet(Wire') = ToSet(Wire) /\ Arriving' = Arriving
      /\ Waiting' = Tail(Waiting) \o Nothing
      /\ ToSet(Waiting) = {Content} \cup ToSet(Tail(Waiting))
      /\ ToSet(Waiting') = ToSet(Tail(Waiting))
      /\ Passing' \subseteq Passing /\ Passing \subseteq Passing' \cup {Content}
  BY <1>1, <1>2, NothingSent, EventEffect
<1>4. Waiting \in Seq(Replies) /\ Arriving \in Seq(Replies)
  BY <1>1, Queues
<1>5. Posted' /\ BoardsKept' /\ CountsAgree' /\ BoxesHold'
  BY <1>1, <1>2, StillKept
<1>6. Meant'
  BY <1>1, <1>2, <1>3, StillGrows, StillMeant
<1>7. \A R : Chain(Waiting, Arriving, R) => Chain(Waiting', Arriving', R)
  BY <1>3, <1>4, NothingSent, ChainHandled
<1>8. BoardsGrow'
  BY <1>1, <1>2, <1>3, <1>7, StillGrow DEF BoardsGrow
<1>9. InOnePlace'
  BY <1>2, NothingSent, PlainEventInPlace
<1>10. BoardsCome'
  <2>1. \A b : ~Brings(Content, b)
    BY <1>2 DEF Brings
  <2> QED BY <1>2, <1>3, <2>1, StillCome DEF IInv, SameSlots
<1>11. IconsFollow'
  <2>1. PICK e : e = Content
    OBVIOUS
  <2>2. /\ e \in Replies /\ e.type = "BoardUpdate" /\ e \in ToSet(Waiting)
        /\ e.id \in Boards /\ e.unread \in Int /\ e.messages \in Int
        /\ e.id \in DOMAIN boards
    BY <1>1, <1>2, <1>3, <2>1, SaidToClient DEF IconsFollow
  <2>3. /\ DOMAIN icons' = DOMAIN icons \cup {e.id}
        /\ icons'[e.id] = Shown(e)
        /\ \A b \in DOMAIN icons \ {e.id} : icons'[b] = icons[b]
    BY <2>1 DEF IconUpdate, Shown
  <2>4. Ordered(Waiting', Newer)
    BY <1>1, <1>7, NewerThrough DEF Chain
  <2>5. \A r \in ToSet(Waiting') : <<e, r>> \in Newer
    BY <1>1, <1>3, <1>4, <2>1, TailOrdered DEF IconsFollow
  <2>6. \A b : BoardAge(b)' = BoardAge(b)
    BY <1>2, StillHeld
  <2>7. /\ DOMAIN icons' \subseteq Boards
        /\ \A b \in DOMAIN icons' :
             /\ icons'[b] \in [unread : Int, messages : Int, lit : BOOLEAN]
             /\ b \in DOMAIN boards' /\ UpdateAge(icons'[b]) <= BoardAge(b)'
    <3>1. Shown(e) \in [unread : Int, messages : Int, lit : BOOLEAN]
      BY <2>2 DEF Shown
    <3>2. UpdateAge(Shown(e)) = UpdateAge(e) /\ UpdateAge(e) <= BoardAge(e.id)
      BY <1>1, <2>2 DEF IconsFollow, UpdateAge, Shown
    <3>3. ASSUME NEW b \in DOMAIN icons'
          PROVE  /\ icons'[b] \in [unread : Int, messages : Int, lit : BOOLEAN]
                 /\ b \in DOMAIN boards' /\ UpdateAge(icons'[b]) <= BoardAge(b)'
      <4>1. CASE b = e.id
        BY <1>2, <2>2, <2>3, <2>6, <3>1, <3>2, <4>1
      <4>2. CASE b # e.id
        BY <1>1, <1>2, <2>3, <2>6, <4>2 DEF IconsFollow
      <4> QED BY <4>1, <4>2
    <3> QED BY <1>1, <2>2, <2>3, <3>3 DEF IconsFollow
  <2>8. ASSUME NEW r \in ToSet(Waiting'), r.type = "BoardUpdate"
        PROVE  /\ r.id \in DOMAIN boards'
               /\ UpdateAge(r) <= BoardAge(r.id)'
               /\ r.id \in DOMAIN icons' => UpdateAge(icons'[r.id]) < UpdateAge(r)
    <3>1. /\ r \in ToSet(Waiting) /\ r.id \in DOMAIN boards
          /\ UpdateAge(r) <= BoardAge(r.id)
          /\ r.id \in DOMAIN icons => UpdateAge(icons[r.id]) < UpdateAge(r)
      BY <1>1, <1>3, <2>8 DEF IconsFollow
    <3>2. r.id = e.id => UpdateAge(e) < UpdateAge(r)
      BY <2>2, <2>5, <2>8 DEF Newer
    <3>3. UpdateAge(Shown(e)) = UpdateAge(e)
      BY DEF UpdateAge, Shown
    <3> QED BY <1>2, <2>3, <2>6, <3>1, <3>2, <3>3
  <2>9. ASSUME NEW b \in DOMAIN boards', boards'[b].received > 0
        PROVE  \/ BoardUpdate(b, boards'[b]) \in ToSet(Waiting')
               \/ b \in DOMAIN icons' /\ icons'[b] = Shown(BoardUpdate(b, boards'[b]))
    <3> DEFINE now == BoardUpdate(b, boards[b])
    <3>1. /\ b \in DOMAIN boards /\ boards' = boards
          /\ now \in ToSet(Waiting) \/ (b \in DOMAIN icons /\ icons[b] = Shown(now))
      BY <1>1, <1>2, <2>9 DEF IconsFollow
    <3>2. /\ now.id = b /\ UpdateAge(now) = BoardAge(b)
          /\ UpdateAge(Shown(now)) = UpdateAge(now)
      BY DEF BoardUpdate, UpdateAge, BoardAge, Shown
    <3>3. UpdateAge(now) \in Int
      <4>1. boards[b].unread \in Nat /\ boards[b].received \in Nat
        BY <1>1, <3>1, BoardFields
      <4> QED BY <3>2, <4>1 DEF BoardAge, Age
    <3> HIDE DEF now
    <3>4. CASE now \in ToSet(Waiting)
      BY <1>3, <2>1, <2>3, <3>1, <3>2, <3>4 DEF now
    <3>5. CASE b \in DOMAIN icons /\ icons[b] = Shown(now)
      <4>1. b # e.id
        <5>1. b = e.id => UpdateAge(now) < UpdateAge(e) /\ UpdateAge(e) <= UpdateAge(now)
          BY <1>1, <2>2, <3>2, <3>5 DEF IconsFollow
        <5>2. UpdateAge(e) \in Int
          BY <2>2 DEF UpdateAge, Age
        <5> QED BY <3>3, <5>1, <5>2
      <4> QED BY <2>3, <3>1, <3>5, <4>1 DEF now
    <3> QED BY <3>1, <3>4, <3>5
  <2> QED BY <2>4, <2>7, <2>8, <2>9 DEF IconsFollow
<1> QED BY <1>3, <1>5, <1>6, <1>8, <1>9, <1>10, <1>11 DEF IInv
-----------------------------------------------------------------------------
(* A board is received                                                     *)

HeldIn(messages) == {s \in DOMAIN messages : messages[s] # NoMessage}
UnreadIn(messages) == {s \in HeldIn(messages) : messages[s].unread}

LEMMA HeldByMessages ==
  ASSUME NEW b
  PROVE  /\ Held(b) = HeldIn(boards[b].messages)
         /\ Held(b)' = HeldIn(boards'[b].messages)
         /\ {s \in Held(b) : boards[b].messages[s].unread} = UnreadIn(boards[b].messages)
         /\ {s \in Held(b)' : boards'[b].messages[s].unread} = UnreadIn(boards'[b].messages)
BY DEF Held, HeldIn, UnreadIn

LEMMA BoardIs ==
  ASSUME NEW n \in Nat, NEW messages \in [Slots(n) -> MessageType],
         NEW updated \in Nat, NEW unread \in Nat, NEW received \in Nat
  PROVE  [nmessages |-> n, updated |-> updated, nalloced |-> n, unread |-> unread,
          received |-> received, messages |-> messages] \in BoardType
<1>1. messages \in UNION {[Slots(k) -> MessageType] : k \in Nat}
  OBVIOUS
<1> HIDE DEF MessageType
<1> QED BY <1>1 DEF BoardType

LEMMA FilledIs ==
  ASSUME NEW board \in BoardType, DOMAIN board.messages = Slots(board.nalloced),
         board.messages \in [Slots(board.nalloced) -> MessageType],
         NEW n \in Nat, NEW updated \in Nat, board.nalloced <= n
  PROVE  /\ Filled(board, n, updated) \in BoardType
         /\ Filled(board, n, updated).nmessages = n
         /\ Filled(board, n, updated).nalloced = n
         /\ Filled(board, n, updated).updated = updated
         /\ Filled(board, n, updated).unread = board.unread
         /\ Filled(board, n, updated).received = board.received
         /\ DOMAIN Filled(board, n, updated).messages = Slots(n)
         /\ \A s \in Slots(board.nalloced) :
              Filled(board, n, updated).messages[s] = board.messages[s]
         /\ HeldIn(Filled(board, n, updated).messages) = HeldIn(board.messages)
         /\ UnreadIn(Filled(board, n, updated).messages) = UnreadIn(board.messages)
<1> DEFINE messages == [s \in Slots(n) |-> IF s < board.nalloced THEN board.messages[s]
                                           ELSE NoMessage]
           f == Filled(board, n, updated)
<1>1. board.nalloced \in Nat /\ board.unread \in Nat /\ board.received \in Nat
  BY DEF BoardType
<1>2. PICK a, b, c, d, e, held :
        board = [nmessages |-> a, updated |-> b, nalloced |-> c, unread |-> d,
                 received |-> e, messages |-> held]
  BY DEF BoardType
<1>3. f = [nmessages |-> n, updated |-> updated, nalloced |-> n, unread |-> board.unread,
           received |-> board.received, messages |-> messages]
  <2>1. PICK m : m = messages
    OBVIOUS
  <2>2. f = [board EXCEPT !.nmessages = n, !.updated = updated, !.nalloced = n, !.messages = m]
    BY <2>1 DEF Filled
  <2>3. PICK f1 : f1 = [board EXCEPT !.nmessages = n]
    OBVIOUS
  <2>4. PICK f2 : f2 = [f1 EXCEPT !.updated = updated]
    OBVIOUS
  <2>5. PICK f3 : f3 = [f2 EXCEPT !.nalloced = n]
    OBVIOUS
  <2>6. f = [f3 EXCEPT !.messages = m]
    BY ONLY <2>2, <2>3, <2>4, <2>5
  <2> HIDE DEF f, messages
  <2>7. f1 = [nmessages |-> n, updated |-> b, nalloced |-> c, unread |-> d,
              received |-> e, messages |-> held]
    BY ONLY <1>2, <2>3
  <2>8. f2 = [nmessages |-> n, updated |-> updated, nalloced |-> c, unread |-> d,
              received |-> e, messages |-> held]
    BY ONLY <2>4, <2>7
  <2>9. f3 = [nmessages |-> n, updated |-> updated, nalloced |-> n, unread |-> d,
              received |-> e, messages |-> held]
    BY ONLY <2>5, <2>8
  <2>10. f = [nmessages |-> n, updated |-> updated, nalloced |-> n, unread |-> d,
              received |-> e, messages |-> m]
    BY ONLY <2>6, <2>9
  <2> QED BY <1>2, <2>1, <2>10
<1>4. NoMessage \in MessageType
  BY DEF NoMessage, MessageType
<1>5. /\ Slots(board.nalloced) \subseteq Slots(n)
      /\ \A s \in Slots(n) : s < board.nalloced <=> s \in Slots(board.nalloced)
  BY <1>1 DEF Slots
<1>6. messages \in [Slots(n) -> MessageType]
  BY <1>4, <1>5
<1>7. /\ DOMAIN messages = Slots(n)
      /\ \A s \in Slots(board.nalloced) : messages[s] = board.messages[s]
      /\ \A s \in Slots(n) \ Slots(board.nalloced) : messages[s] = NoMessage
  BY <1>5
<1> HIDE DEF messages, f
<1>8. HeldIn(messages) = HeldIn(board.messages)
  BY <1>5, <1>7 DEF HeldIn
<1>9. UnreadIn(messages) = UnreadIn(board.messages)
  <2>1. HeldIn(board.messages) \subseteq Slots(board.nalloced)
    BY DEF HeldIn
  <2> QED BY <1>7, <1>8, <2>1 DEF UnreadIn
<1>10. f \in BoardType
  BY <1>1, <1>3, <1>6, BoardIs
<1> QED BY <1>3, <1>7, <1>8, <1>9, <1>10 DEF f

LEMMA NewBoardIs ==
  /\ NewBoard \in BoardType
  /\ NewBoard.nalloced = 0 /\ NewBoard.unread = 0 /\ NewBoard.received = 0
  /\ DOMAIN NewBoard.messages = Slots(NewBoard.nalloced)
  /\ NewBoard.messages \in [Slots(NewBoard.nalloced) -> MessageType]
  /\ HeldIn(NewBoard.messages) = {} /\ UnreadIn(NewBoard.messages) = {}
<1> DEFINE messages == [s \in {} |-> NoMessage]
<1>1. NewBoard = [nmessages |-> 0, updated |-> 0, nalloced |-> 0, unread |-> 0,
                  received |-> 0, messages |-> messages]
  BY DEF NewBoard
<1>2. Slots(0) = {} /\ messages \in [Slots(0) -> MessageType]
  BY DEF Slots
<1>3. HeldIn(messages) = {} /\ UnreadIn(messages) = {}
  BY DEF HeldIn, UnreadIn
<1> HIDE DEF messages
<1>4. NewBoard \in BoardType
  BY <1>1, <1>2, BoardIs
<1>5. DOMAIN messages = Slots(0)
  BY <1>2
<1> QED BY <1>1, <1>2, <1>3, <1>4, <1>5

(* The slots a board is asked for when it has n.                           *)
BoardOf(id) == IF id \in DOMAIN boards THEN boards[id] ELSE NewBoard
NewSlots(id, n) == [i \in 1..(n - BoardOf(id).nalloced) |-> BoardOf(id).nalloced + i - 1]
SlotsAsked(id, n) ==
  IF NewSlots(id, n) = <<>> THEN Nothing ELSE <<MessageGet(id, NewSlots(id, n))>>

LEMMA NewSlotsAre ==
  ASSUME NEW id \in Boards, NEW n \in Nat, BoardOf(id).nalloced \in Nat,
         BoardOf(id).nalloced <= n
  PROVE  /\ NewSlots(id, n) \in Seq(Int)
         /\ \A i, j \in 1..Len(NewSlots(id, n)) :
              NewSlots(id, n)[i] = NewSlots(id, n)[j] => i = j
         /\ ToSet(NewSlots(id, n)) = Slots(n) \ Slots(BoardOf(id).nalloced)
         /\ SlotsAsked(id, n) \in Seq(Requests)
         /\ \A q \in ToSet(SlotsAsked(id, n)) : q = MessageGet(id, NewSlots(id, n))
         /\ \A b \in Boards, s \in Nat :
              Count(SlotsAsked(id, n), AskedAs(b, s))
                = IF b = id /\ s \in Slots(n) \ Slots(BoardOf(id).nalloced) THEN 1 ELSE 0
<1> DEFINE m == BoardOf(id).nalloced
           new == NewSlots(id, n)
           q == MessageGet(id, new)
<1>1. m \in Nat /\ n - m \in Nat
  OBVIOUS
<1>2. new = [i \in 1..(n - m) |-> m + i - 1]
  BY DEF NewSlots
<1> HIDE DEF m
<1>3. /\ new \in Seq(Int) /\ Len(new) = n - m
      /\ \A i \in 1..Len(new) : new[i] = m + i - 1
  BY <1>1, <1>2
<1> HIDE DEF new
<1>4. \A i, j \in 1..Len(new) : new[i] = new[j] => i = j
  BY <1>1, <1>3
<1>5. ToSet(new) = Slots(n) \ Slots(m)
  <2>1. ToSet(new) = {new[i] : i \in 1..(n - m)}
    BY <1>3, Contents
  <2>2. ASSUME NEW s \in Slots(n) \ Slots(m) PROVE s \in ToSet(new)
    <3>1. s \in Int /\ m <= s /\ s < n
      BY <1>1 DEF Slots
    <3>2. s - m + 1 \in 1..(n - m) /\ m + (s - m + 1) - 1 = s
      BY <1>1, <3>1
    <3>3. new[s - m + 1] = s
      BY <1>3, <3>2
    <3> QED BY <2>1, <3>2, <3>3
  <2>3. \A i \in 1..(n - m) : new[i] \in Slots(n) \ Slots(m)
    BY <1>1, <1>3 DEF Slots
  <2> QED BY <2>1, <2>2, <2>3
<1>6. /\ q \in Requests /\ q.type = "MessageGet" /\ q.id = id /\ q.slots = new
      /\ \A b \in Boards, s \in Nat : q \in AskedAs(b, s) <=> b = id /\ s \in ToSet(new)
  <2>1. q \in Requests /\ q.type = "MessageGet" /\ q.id = id /\ q.slots = new
    BY <1>3 DEF MessageGet, Requests, Counts
  <2> HIDE DEF q
  <2> QED BY <2>1 DEF AskedAs
<1> HIDE DEF q
<1>7. CASE new = <<>>
  <2>1. SlotsAsked(id, n) = Nothing
    BY <1>7 DEF SlotsAsked, new
  <2>2. Slots(n) \ Slots(m) = {}
    BY <1>5, <1>7, EmptyContents
  <2> QED BY <1>3, <1>4, <1>5, <2>1, <2>2, NothingSent DEF new, m
<1>8. CASE new # <<>>
  <2>1. SlotsAsked(id, n) = <<q>>
    BY <1>8 DEF SlotsAsked, new, q
  <2>2. /\ <<q>> \in Seq(Requests) /\ ToSet(<<q>>) = {q}
        /\ \A X : Count(<<q>>, X) = IF q \in X THEN 1 ELSE 0
    BY <1>6, OneSent
  <2>3. \A b \in Boards, s \in Nat : Count(<<q>>, AskedAs(b, s))
          = IF b = id /\ s \in Slots(n) \ Slots(m) THEN 1 ELSE 0
    BY <1>5, <1>6, <2>2
  <2>4. \A p \in ToSet(<<q>>) : p = MessageGet(id, new)
    BY <2>2 DEF q
  <2> QED BY <1>3, <1>4, <1>5, <2>1, <2>2, <2>3, <2>4 DEF new, m
<1> QED BY <1>7, <1>8

(* What is told of a board, and what the client makes of it.               *)
LEMMA BoardReceived ==
  ASSUME IInv, BoardReceive, NEW e, e = Content, NEW id, id = e.id, NEW n, n = e.nmessages
  PROVE  /\ e \in Passing /\ e \in Replies /\ e.type = "Board"
         /\ id \in Boards /\ n \in Nat /\ n <= Len(posted[id]) /\ e.updated \in Nat
         /\ Described(id, n, e.updated)
         /\ BoardOf(id) \in BoardType
         /\ BoardOf(id).nalloced \in Nat /\ BoardOf(id).nalloced <= n
         /\ DOMAIN BoardOf(id).messages = Slots(BoardOf(id).nalloced)
         /\ BoardOf(id).messages \in [Slots(BoardOf(id).nalloced) -> MessageType]
         /\ Srv!HandleEvent(Asks(SlotsAsked(id, n)), Events(Nothing))
         /\ UNCHANGED <<repaired, icons, boxes, stopped, posted, changed, refused, serverTurn>>
<1>1. /\ Srv!IInv /\ Posted /\ Meant /\ BoardsKept /\ BoardsGrow
  BY DEF IInv
<1>2. /\ UNCHANGED <<repaired, icons, boxes, stopped, posted, changed, refused, serverTurn>>
      /\ events # <<>> /\ e.type = "Board"
  BY DEF BoardReceive, Arrives, Content, playerVars, peerVars
<1>3. e \in Passing /\ e \in Replies
  <2>1. Waiting # <<>> /\ Content = Head(Waiting) /\ Waiting \in Seq(Replies)
    BY <1>1, <1>2, Queues
  <2> QED BY <2>1, HeadAndTail DEF Passing
<1>4. id \in Boards /\ e.updated \in Nat /\ Described(id, n, e.updated)
  BY <1>1, <1>2, <1>3, SaidToClient DEF Meant, ReplyMeant
<1>5. n \in Nat /\ n <= Len(posted[id])
  <2>1. Len(posted[id]) \in Nat
    BY <1>1, <1>4, PostedFields
  <2> QED BY <1>4, <2>1 DEF Described
<1>6. /\ BoardOf(id) \in BoardType
      /\ BoardOf(id).nalloced \in Nat /\ BoardOf(id).nalloced <= n
      /\ DOMAIN BoardOf(id).messages = Slots(BoardOf(id).nalloced)
      /\ BoardOf(id).messages \in [Slots(BoardOf(id).nalloced) -> MessageType]
  <2>1. CASE id \in DOMAIN boards
    <3>1. BoardOf(id) = boards[id]
      BY <2>1 DEF BoardOf
    <3>2. boards[id].nalloced <= n
      BY <1>1, <1>2, <1>3, <2>1 DEF BoardsGrow
    <3> QED BY <1>1, <2>1, <3>1, <3>2, BoardFields
  <2>2. CASE id \notin DOMAIN boards
    <3>1. BoardOf(id) = NewBoard
      BY <2>2 DEF BoardOf
    <3> QED BY <1>5, <3>1, NewBoardIs
  <2> QED BY <2>1, <2>2
<1>7. Srv!HandleEvent(Asks(SlotsAsked(id, n)), Events(Nothing))
  <2>1. Srv!HandleEvent(IF NewSlots(id, n) # <<>> THEN <<Ask(MessageGet(id, NewSlots(id, n)))>>
                        ELSE <<>>, <<>>)
    BY DEF BoardReceive, NewSlots, BoardOf
  <2>2. Asks(SlotsAsked(id, n))
          = IF NewSlots(id, n) # <<>> THEN <<Ask(MessageGet(id, NewSlots(id, n)))>> ELSE <<>>
    <3>1. CASE NewSlots(id, n) = <<>>
      BY <3>1, NothingSent DEF SlotsAsked
    <3>2. CASE NewSlots(id, n) # <<>>
      BY <3>2, OneSent DEF SlotsAsked
    <3> QED BY <3>1, <3>2
  <2> QED BY <2>1, <2>2, NothingSent
<1> QED BY <1>2, <1>3, <1>4, <1>5, <1>6, <1>7

LEMMA BoardsFilled ==
  ASSUME IInv, BoardReceive, NEW e, e = Content, NEW id, id = e.id, NEW n, n = e.nmessages,
         "list" \in repaired
  PROVE  /\ DOMAIN boards' = DOMAIN boards \cup {id}
         /\ \A b \in DOMAIN boards \ {id} : boards'[b] = boards[b]
         /\ boards'[id] \in BoardType
         /\ boards'[id].nmessages = n /\ boards'[id].nalloced = n
         /\ boards'[id].updated = e.updated
         /\ boards'[id].unread = BoardOf(id).unread
         /\ boards'[id].received = BoardOf(id).received
         /\ DOMAIN boards'[id].messages = Slots(n)
         /\ \A s \in Slots(BoardOf(id).nalloced) :
              boards'[id].messages[s] = BoardOf(id).messages[s]
         /\ HeldIn(boards'[id].messages) = HeldIn(BoardOf(id).messages)
         /\ UnreadIn(boards'[id].messages) = UnreadIn(BoardOf(id).messages)
<1>1. /\ n \in Nat /\ e.updated \in Nat
      /\ BoardOf(id) \in BoardType
      /\ BoardOf(id).nalloced \in Nat /\ BoardOf(id).nalloced <= n
      /\ DOMAIN BoardOf(id).messages = Slots(BoardOf(id).nalloced)
      /\ BoardOf(id).messages \in [Slots(BoardOf(id).nalloced) -> MessageType]
  BY BoardReceived
<1>2. boards' = [b \in DOMAIN boards \cup {id} |->
                   IF b = id THEN Filled(BoardOf(id), n, e.updated) ELSE boards[b]]
  BY DEF BoardReceive, BoardOf
<1>3. boards'[id] = Filled(BoardOf(id), n, e.updated)
  BY <1>2
<1>4. DOMAIN boards' = DOMAIN boards \cup {id} /\ \A b \in DOMAIN boards \ {id} : boards'[b] = boards[b]
  BY <1>2
<1>5. PICK board : board = BoardOf(id)
  OBVIOUS
<1>6. /\ Filled(board, n, e.updated) \in BoardType
      /\ Filled(board, n, e.updated).nmessages = n
      /\ Filled(board, n, e.updated).nalloced = n
      /\ Filled(board, n, e.updated).updated = e.updated
      /\ Filled(board, n, e.updated).unread = board.unread
      /\ Filled(board, n, e.updated).received = board.received
      /\ DOMAIN Filled(board, n, e.updated).messages = Slots(n)
      /\ \A s \in Slots(board.nalloced) :
           Filled(board, n, e.updated).messages[s] = board.messages[s]
      /\ HeldIn(Filled(board, n, e.updated).messages) = HeldIn(board.messages)
      /\ UnreadIn(Filled(board, n, e.updated).messages) = UnreadIn(board.messages)
  BY <1>1, <1>5, FilledIs
<1> QED BY <1>3, <1>4, <1>5, <1>6

(* What is held stays, and nothing else comes with a board.                *)
LEMMA BoardsFilledHold ==
  ASSUME IInv, BoardReceive, NEW e, e = Content, NEW id, id = e.id, NEW n, n = e.nmessages,
         "list" \in repaired
  PROVE  /\ Grows
         /\ \A b \in DOMAIN boards' : Held(b)' = HeldIn(BoardOf(b).messages)
         /\ \A b, s : IsHeld(b, s)' <=> IsHeld(b, s)
         /\ \A b \in DOMAIN boards' : \A s \in Held(b)' :
              /\ b \in DOMAIN boards /\ s \in Held(b)
              /\ boards'[b].messages[s] = boards[b].messages[s]
         /\ \A b \in DOMAIN boards' : boards'[b].unread = BoardOf(b).unread
                                      /\ boards'[b].received = BoardOf(b).received
<1>1. /\ Srv!IInv /\ Posted /\ Meant /\ BoardsKept /\ BoardsGrow
  BY DEF IInv
<1>2. /\ id \in Boards /\ n \in Nat
      /\ BoardOf(id).nalloced \in Nat /\ BoardOf(id).nalloced <= n
      /\ DOMAIN BoardOf(id).messages = Slots(BoardOf(id).nalloced)
      /\ UNCHANGED <<repaired, icons, boxes, stopped, posted, changed, refused, serverTurn>>
  BY BoardReceived
<1>3. /\ DOMAIN boards' = DOMAIN boards \cup {id}
      /\ \A b \in DOMAIN boards \ {id} : boards'[b] = boards[b]
      /\ boards'[id].nalloced = n
      /\ boards'[id].unread = BoardOf(id).unread
      /\ boards'[id].received = BoardOf(id).received
      /\ DOMAIN boards'[id].messages = Slots(n)
      /\ \A s \in Slots(BoardOf(id).nalloced) :
           boards'[id].messages[s] = BoardOf(id).messages[s]
      /\ HeldIn(boards'[id].messages) = HeldIn(BoardOf(id).messages)
  BY BoardsFilled
<1>4. Grows
  <2>1. \A b \in Boards : Len(posted[b]) \in Nat /\ changed[b] \in Nat
    BY <1>1, PostedFields
  <2>2. \A b \in DOMAIN boards : boards[b].nalloced \in Nat
    BY <1>1, BoardFields
  <2>3. \A b \in DOMAIN boards : boards'[b].nalloced \in Nat /\ boards[b].nalloced <= boards'[b].nalloced
    BY <1>2, <1>3, <2>2 DEF BoardOf
  <2> QED BY <1>2, <1>3, <2>1, <2>2, <2>3 DEF Grows
<1>5. ASSUME NEW b \in DOMAIN boards'
      PROVE  /\ Held(b)' = HeldIn(BoardOf(b).messages)
             /\ boards'[b].unread = BoardOf(b).unread
             /\ boards'[b].received = BoardOf(b).received
             /\ \A s \in Held(b)' : /\ b \in DOMAIN boards /\ s \in Held(b)
                                    /\ boards'[b].messages[s] = boards[b].messages[s]
  <2>1. Held(b)' = HeldIn(boards'[b].messages) /\ Held(b) = HeldIn(boards[b].messages)
    BY HeldByMessages
  <2>2. CASE b = id
    <3>1. Held(b)' = HeldIn(BoardOf(id).messages)
      BY <1>3, <2>1, <2>2
    <3>2. ASSUME NEW s \in Held(b)'
          PROVE  /\ b \in DOMAIN boards /\ s \in Held(b)
                 /\ boards'[b].messages[s] = boards[b].messages[s]
      <4>1. b \in DOMAIN boards
        <5>1. BoardOf(id) = NewBoard \/ id \in DOMAIN boards
          BY DEF BoardOf
        <5> QED BY <2>2, <3>1, <3>2, <5>1, NewBoardIs
      <4>2. BoardOf(id) = boards[b]
        BY <2>2, <4>1 DEF BoardOf
      <4>3. s \in Slots(BoardOf(id).nalloced)
        BY <1>2, <3>1, <3>2 DEF HeldIn
      <4> QED BY <1>3, <2>1, <2>2, <3>1, <3>2, <4>1, <4>2, <4>3
    <3> QED BY <1>3, <2>2, <3>1, <3>2
  <2>3. CASE b # id
    BY <1>3, <2>1, <2>3 DEF BoardOf
  <2> QED BY <2>2, <2>3
<1>6. ASSUME NEW b, NEW s PROVE IsHeld(b, s)' <=> IsHeld(b, s)
  <2>1. IsHeld(b, s)' => IsHeld(b, s)
    BY <1>5 DEF IsHeld
  <2>2. ASSUME IsHeld(b, s) PROVE IsHeld(b, s)'
    <3>1. b \in DOMAIN boards /\ s \in HeldIn(boards[b].messages) /\ b \in DOMAIN boards'
      BY <1>3, <2>2, HeldByMessages DEF IsHeld
    <3>2. s \in Held(b)'
      BY <1>5, <3>1 DEF BoardOf
    <3> QED BY <3>1, <3>2 DEF IsHeld
  <2> QED BY <2>1, <2>2
<1> QED BY <1>4, <1>5, <1>6

LEMMA BoardFillKeepsBoards ==
  ASSUME IInv, BoardReceive, NEW e, e = Content, NEW id, id = e.id, NEW n, n = e.nmessages,
         "list" \in repaired
  PROVE  BoardsKept' /\ CountsAgree' /\ BoxesHold' /\ Posted'
<1>1. /\ Srv!IInv /\ Posted /\ Meant /\ BoardsKept /\ BoardsGrow /\ CountsAgree /\ BoxesHold
  BY DEF IInv
<1>2. /\ id \in Boards /\ n \in Nat /\ Described(id, n, e.updated)
      /\ UNCHANGED <<repaired, icons, boxes, stopped, posted, changed, refused, serverTurn>>
  BY BoardReceived
<1>3. /\ DOMAIN boards' = DOMAIN boards \cup {id}
      /\ \A b \in DOMAIN boards \ {id} : boards'[b] = boards[b]
      /\ boards'[id] \in BoardType
      /\ boards'[id].nmessages = n /\ boards'[id].nalloced = n
      /\ boards'[id].updated = e.updated
      /\ DOMAIN boards'[id].messages = Slots(n)
      /\ UnreadIn(boards'[id].messages) = UnreadIn(BoardOf(id).messages)
  BY BoardsFilled
<1>4. /\ Grows
      /\ \A b \in DOMAIN boards' : Held(b)' = HeldIn(BoardOf(b).messages)
      /\ \A b, s : IsHeld(b, s)' <=> IsHeld(b, s)
      /\ \A b \in DOMAIN boards' : \A s \in Held(b)' :
           /\ b \in DOMAIN boards /\ s \in Held(b)
           /\ boards'[b].messages[s] = boards[b].messages[s]
      /\ \A b \in DOMAIN boards' : boards'[b].unread = BoardOf(b).unread
                                   /\ boards'[b].received = BoardOf(b).received
  BY BoardsFilledHold
<1>5. ASSUME NEW b \in DOMAIN boards' PROVE BoardOK(b)'
  <2>1. \A s \in Held(b)' : TurnAt(b, s)' = posted'[b][s + 1]
    <3> SUFFICES ASSUME NEW s \in Held(b)' PROVE TurnAt(b, s)' = posted'[b][s + 1]
      OBVIOUS
    <3>1. /\ b \in DOMAIN boards /\ s \in Held(b)
          /\ boards'[b].messages[s] = boards[b].messages[s]
      BY <1>4
    <3>2. TurnAt(b, s) = posted[b][s + 1]
      BY <1>1, <3>1 DEF BoardsKept, BoardOK
    <3> QED BY <1>2, <3>1, <3>2 DEF TurnAt
  <2>2. CASE b = id
    BY <1>2, <1>3, <2>1, <2>2 DEF BoardOK, Described
  <2>3. CASE b # id
    <3>1. b \in DOMAIN boards /\ boards'[b] = boards[b] /\ BoardOK(b)
      BY <1>1, <1>3, <2>3 DEF BoardsKept
    <3> QED BY <1>2, <2>1, <3>1 DEF BoardOK, Described
  <2> QED BY <2>2, <2>3
<1>6. BoardsKept'
  BY <1>1, <1>2, <1>3, <1>5 DEF BoardsKept
<1>7. CountsAgree'
  <2>1. \A b : {s \in Held(b)' : boards'[b].messages[s].unread} = UnreadIn(boards'[b].messages)
    BY HeldByMessages
  <2>2. ASSUME NEW b \in DOMAIN boards'
        PROVE  /\ boards'[b].received = Cardinality(Held(b)')
               /\ boards'[b].unread = Cardinality(UnreadIn(boards'[b].messages))
    <3>1. UnreadIn(boards'[b].messages) = UnreadIn(BoardOf(b).messages)
      BY <1>3 DEF BoardOf
    <3>2. /\ BoardOf(b).received = Cardinality(HeldIn(BoardOf(b).messages))
          /\ BoardOf(b).unread = Cardinality(UnreadIn(BoardOf(b).messages))
      <4>1. CASE b \in DOMAIN boards
        BY <1>1, <4>1, HeldByMessages DEF BoardOf, CountsAgree
      <4>2. CASE b \notin DOMAIN boards
        BY <4>2, NewBoardIs, FS_EmptySet DEF BoardOf
      <4> QED BY <4>1, <4>2
    <3> QED BY <1>4, <3>1, <3>2
  <2> QED BY <2>1, <2>2 DEF CountsAgree
<1>8. BoxesHold'
  BY <1>1, <1>2, <1>4 DEF BoxesHold
<1>9. Posted'
  BY <1>1, <1>2 DEF Posted
<1> QED BY <1>6, <1>7, <1>8, <1>9

LEMMA BoardFillKeepsQueues ==
  ASSUME IInv, BoardReceive, NEW e, e = Content, NEW id, id = e.id, NEW n, n = e.nmessages,
         "list" \in repaired
  PROVE  Srv!IInv' /\ Meant' /\ BoardsGrow' /\ IconsFollow'
<1>1. /\ Srv!IInv /\ Posted /\ Meant /\ BoardsKept /\ BoardsGrow /\ IconsFollow
  BY DEF IInv
<1>2. /\ e \in Passing /\ e \in Replies /\ e.type = "Board"
      /\ id \in Boards /\ n \in Nat /\ n <= Len(posted[id])
      /\ BoardOf(id).nalloced \in Nat /\ BoardOf(id).nalloced <= n
      /\ Srv!HandleEvent(Asks(SlotsAsked(id, n)), Events(Nothing))
      /\ UNCHANGED <<repaired, icons, boxes, stopped, posted, changed, refused, serverTurn>>
  BY BoardReceived
<1>3. PICK bs : bs = SlotsAsked(id, n)
  OBVIOUS
<1>4. /\ bs \in Seq(Requests)
      /\ \A i, j \in 1..Len(NewSlots(id, n)) :
           NewSlots(id, n)[i] = NewSlots(id, n)[j] => i = j
      /\ ToSet(NewSlots(id, n)) = Slots(n) \ Slots(BoardOf(id).nalloced)
      /\ \A q \in ToSet(bs) : q = MessageGet(id, NewSlots(id, n))
  BY <1>2, <1>3, NewSlotsAre
<1>5. /\ Srv!IInv'
      /\ Waiting # <<>> /\ e = Head(Waiting)
      /\ ToSet(Wire') = ToSet(Wire) \cup ToSet(bs)
      /\ Arriving' = Arriving
      /\ Waiting' = Tail(Waiting) \o Nothing
      /\ ToSet(Waiting) = {e} \cup ToSet(Tail(Waiting))
      /\ ToSet(Waiting') = ToSet(Tail(Waiting)) \cup ToSet(Nothing)
      /\ Passing' \subseteq Passing \cup ToSet(Nothing)
  BY <1>1, <1>2, <1>3, <1>4, NothingSent, EventEffect
<1>6. Waiting \in Seq(Replies) /\ Arriving \in Seq(Replies)
  BY <1>1, Queues
<1>7. /\ DOMAIN boards' = DOMAIN boards \cup {id}
      /\ \A b \in DOMAIN boards \ {id} : boards'[b] = boards[b]
      /\ boards'[id].nalloced = n
      /\ boards'[id].unread = BoardOf(id).unread
      /\ boards'[id].received = BoardOf(id).received
  BY BoardsFilled
<1>8. Grows
  BY BoardsFilledHold
<1>9. Meant'
  <2>1. \A q \in ToSet(bs) : RequestMeant(q)'
    <3>1. PICK new : new = NewSlots(id, n)
      OBVIOUS
    <3>2. PICK q : q = MessageGet(id, new)
      OBVIOUS
    <3>3. q.type = "MessageGet" /\ q.id = id /\ q.slots = new
      BY <3>2 DEF MessageGet
    <3>4. \A s \in ToSet(new) : SlotKnown(id, s)'
      <4>1. Len(posted[id]) \in Nat /\ posted' = posted
        BY <1>1, <1>2, PostedFields
      <4>2. \A s \in Slots(n) : s \in Slots(Len(posted[id]))
        BY <1>2, <4>1 DEF Slots
      <4> QED BY <1>2, <1>4, <1>7, <3>1, <4>1, <4>2 DEF SlotKnown
    <3>5. RequestMeant(q)'
      BY <1>4, <3>1, <3>3, <3>4 DEF RequestMeant
    <3> QED BY <1>4, <3>1, <3>2, <3>5
  <2> QED BY <1>1, <1>5, <1>8, <2>1, NothingSent, StillMeant
<1>10. \A R : Chain(Waiting, Arriving, R) => Chain(Waiting', Arriving', R)
  BY <1>5, <1>6, NothingSent, ChainHandled
<1>11. BoardsGrow'
  <2>1. Chain(Waiting', Arriving', Growing)
    BY <1>1, <1>10 DEF BoardsGrow
  <2>2. ASSUME NEW r \in Passing', r.type = "Board", r.id \in DOMAIN boards'
        PROVE  boards'[r.id].nalloced <= r.nmessages
    <3>1. r \in Passing /\ (r \in ToSet(Tail(Waiting)) \/ r \in ToSet(Arriving))
      BY <1>5, <2>2, NothingSent DEF Passing
    <3>2. CASE r.id = id
      <4>1. <<e, r>> \in Growing
        <5>1. Ordered(Waiting, Growing) /\ Across(Waiting, Arriving, Growing)
          BY <1>1 DEF BoardsGrow, Chain
        <5>2. CASE r \in ToSet(Tail(Waiting))
          BY <1>5, <1>6, <5>1, <5>2, TailOrdered
        <5>3. CASE r \in ToSet(Arriving)
          BY <1>5, <5>1, <5>3 DEF Across
        <5> QED BY <3>1, <5>2, <5>3
      <4> QED BY <1>2, <1>7, <2>2, <3>2, <4>1 DEF Growing
    <3>3. CASE r.id # id
      BY <1>1, <1>7, <2>2, <3>1, <3>3 DEF BoardsGrow
    <3> QED BY <3>2, <3>3
  <2> QED BY <2>1, <2>2 DEF BoardsGrow
<1>12. IconsFollow'
  <2>1. Ordered(Waiting', Newer)
    BY <1>1, <1>10, NewerThrough DEF Chain
  <2>2. \A r : r.type = "BoardUpdate" => (r \in ToSet(Waiting') <=> r \in ToSet(Waiting))
    BY <1>2, <1>5, NothingSent
  <2>3. \A b \in DOMAIN boards : /\ b \in DOMAIN boards'
                                 /\ boards'[b].unread = boards[b].unread
                                 /\ boards'[b].received = boards[b].received
    BY <1>7 DEF BoardOf
  <2>4. \A b \in DOMAIN boards : BoardAge(b)' = BoardAge(b)
    BY <2>3 DEF BoardAge
  <2>5. \A b \in DOMAIN boards' : boards'[b].received > 0 => b \in DOMAIN boards
    <3>1. id \notin DOMAIN boards => boards'[id].received = 0
      BY <1>7, NewBoardIs DEF BoardOf
    <3> QED BY <1>7, <3>1
  <2>6. \A b \in DOMAIN boards : BoardUpdate(b, boards'[b]) = BoardUpdate(b, boards[b])
    BY <2>3 DEF BoardUpdate
  <2>7. ASSUME NEW r \in ToSet(Waiting'), r.type = "BoardUpdate"
        PROVE  /\ r.id \in DOMAIN boards'
               /\ UpdateAge(r) <= BoardAge(r.id)'
               /\ r.id \in DOMAIN icons' => UpdateAge(icons'[r.id]) < UpdateAge(r)
    BY <1>1, <1>2, <2>2, <2>3, <2>4, <2>7 DEF IconsFollow
  <2>8. ASSUME NEW b \in DOMAIN boards', boards'[b].received > 0
        PROVE  \/ BoardUpdate(b, boards'[b]) \in ToSet(Waiting')
               \/ b \in DOMAIN icons' /\ icons'[b] = Shown(BoardUpdate(b, boards'[b]))
    <3>1. b \in DOMAIN boards /\ boards[b].received > 0
      BY <2>3, <2>5, <2>8
    <3>2. BoardUpdate(b, boards[b]).type = "BoardUpdate"
      BY DEF BoardUpdate
    <3> QED BY <1>1, <1>2, <2>2, <2>6, <3>1, <3>2 DEF IconsFollow
  <2>9. ASSUME NEW b \in DOMAIN icons'
        PROVE  /\ icons'[b] \in [unread : Int, messages : Int, lit : BOOLEAN]
               /\ b \in DOMAIN boards' /\ UpdateAge(icons'[b]) <= BoardAge(b)'
    BY <1>1, <1>2, <2>3, <2>4 DEF IconsFollow
  <2> QED BY <1>1, <1>2, <2>1, <2>7, <2>8, <2>9 DEF IconsFollow
<1> QED BY <1>5, <1>9, <1>11, <1>12

(* Wherever a message is, its slot is known.                               *)
LEMMA Wherever ==
  ASSUME IInv, NEW b, NEW s
  PROVE  Whereabouts(b, s) \in Nat /\ (Whereabouts(b, s) # 0 => SlotKnown(b, s))
<1> DEFINE A == AskedAs(b, s)
           X == SentAs(b, s)
<1>1. /\ Srv!IInv /\ Posted /\ Meant /\ BoardsKept
  BY DEF IInv
<1>2. Wire \in Seq(Requests) /\ Arriving \in Seq(Replies) /\ Waiting \in Seq(Replies)
  BY <1>1, Queues
<1>3. /\ Count(Wire, A) \in Nat /\ Count(Arriving, X) \in Nat /\ Count(Waiting, X) \in Nat
  BY <1>2, PlacesFinite DEF Count
<1>4. Whereabouts(b, s) = Count(Wire, A) + Count(Arriving, X) + Count(Waiting, X)
                            + (IF IsHeld(b, s) THEN 1 ELSE 0)
  BY DEF Whereabouts, Count
<1>5. Count(Wire, A) # 0 => SlotKnown(b, s)
  <2>1. Count(Wire, A) # 0 => ToSet(Wire) \cap A # {}
    BY <1>2, PlacesFinite DEF Count
  <2>2. \A r \in ToSet(Wire) \cap A : SlotKnown(b, s)
    BY <1>1 DEF Meant, RequestMeant, AskedAs
  <2> QED BY <2>1, <2>2
<1>6. Count(Arriving, X) # 0 \/ Count(Waiting, X) # 0 => SlotKnown(b, s)
  <2>1. Count(Arriving, X) # 0 \/ Count(Waiting, X) # 0 => Passing \cap X # {}
    BY <1>2, PlacesFinite DEF Count, Passing
  <2>2. \A r \in Passing \cap X : SlotKnown(b, s)
    BY <1>1 DEF Meant, ReplyMeant, SentAs
  <2> QED BY <2>1, <2>2
<1>7. IsHeld(b, s) => SlotKnown(b, s)
  <2> SUFFICES ASSUME IsHeld(b, s) PROVE SlotKnown(b, s)
    OBVIOUS
  <2>1. b \in DOMAIN boards /\ s \in Held(b)
    BY DEF IsHeld
  <2>2. /\ b \in Boards /\ s \in Slots(boards[b].nalloced) /\ boards[b].nalloced \in Nat
        /\ Described(b, boards[b].nalloced, boards[b].updated)
    BY <1>1, <2>1, BoardFields DEF BoardsKept, BoardOK
  <2>3. Len(posted[b]) \in Nat /\ boards[b].nalloced <= Len(posted[b])
    BY <1>1, <2>2, PostedFields DEF Described
  <2>4. s \in Slots(Len(posted[b]))
    BY <2>2, <2>3 DEF Slots
  <2> QED BY <2>1, <2>2, <2>4 DEF SlotKnown
<1> HIDE DEF A, X
<1> PICK w \in Nat : w = Count(Wire, A)
  BY <1>3
<1> PICK a \in Nat : a = Count(Arriving, X)
  BY <1>3
<1> PICK q \in Nat : q = Count(Waiting, X)
  BY <1>3
<1> PICK h \in Nat : h = IF IsHeld(b, s) THEN 1 ELSE 0
  OBVIOUS
<1>8. Whereabouts(b, s) = w + a + q + h
  BY <1>4
<1>9. /\ Whereabouts(b, s) \in Nat
      /\ Whereabouts(b, s) # 0 => w # 0 \/ a # 0 \/ q # 0 \/ h # 0
  BY ONLY <1>8, w \in Nat, a \in Nat, q \in Nat, h \in Nat
<1> QED BY <1>5, <1>6, <1>7, <1>9

LEMMA BoardFillKeepsPlaces ==
  ASSUME IInv, BoardReceive, NEW e, e = Content, NEW id, id = e.id, NEW n, n = e.nmessages,
         "list" \in repaired
  PROVE  InOnePlace' /\ BoardsCome'
<1>1. /\ Srv!IInv /\ Posted /\ Meant /\ BoardsKept /\ InOnePlace /\ BoardsCome
  BY DEF IInv
<1>2. /\ e \in Passing /\ e \in Replies /\ e.type = "Board"
      /\ id \in Boards /\ n \in Nat /\ n <= Len(posted[id])
      /\ BoardOf(id).nalloced \in Nat /\ BoardOf(id).nalloced <= n
      /\ Srv!HandleEvent(Asks(SlotsAsked(id, n)), Events(Nothing))
      /\ UNCHANGED <<repaired, icons, boxes, stopped, posted, changed, refused, serverTurn>>
  BY BoardReceived
<1>3. PICK bs : bs = SlotsAsked(id, n)
  OBVIOUS
<1>4. /\ bs \in Seq(Requests)
      /\ \A b \in Boards, s \in Nat :
           Count(bs, AskedAs(b, s))
             = IF b = id /\ s \in Slots(n) \ Slots(BoardOf(id).nalloced) THEN 1 ELSE 0
  BY <1>2, <1>3, NewSlotsAre
<1>5. /\ ToSet(Wire') = ToSet(Wire) \cup ToSet(bs)
      /\ Passing \subseteq Passing' \cup {e}
  BY <1>1, <1>2, <1>3, <1>4, NothingSent, EventEffect
<1>6. /\ DOMAIN boards' = DOMAIN boards \cup {id}
      /\ \A b \in DOMAIN boards \ {id} : boards'[b] = boards[b]
      /\ boards'[id].nalloced = n
  BY BoardsFilled
<1>7. \A b, s : IsHeld(b, s)' <=> IsHeld(b, s)
  BY BoardsFilledHold
<1>8. InOnePlace'
  <2> DEFINE new(b, s) == b = id /\ s \in Slots(n) \ Slots(BoardOf(id).nalloced)
  <2>1. ASSUME NEW b \in Boards, NEW s \in Nat
        PROVE  /\ Whereabouts(b, s) \in Nat
               /\ Whereabouts(b, s)' = Whereabouts(b, s) + (IF new(b, s) THEN 1 ELSE 0)
    <3>1. /\ Whereabouts(b, s) \in Nat /\ Whereabouts(b, s)' \in Nat
          /\ Whereabouts(b, s)' + (IF Content \in SentAs(b, s) THEN 1 ELSE 0)
                                + (IF IsHeld(b, s) THEN 1 ELSE 0)
               = Whereabouts(b, s) + Count(bs, AskedAs(b, s)) + (IF IsHeld(b, s)' THEN 1 ELSE 0)
      <4>1. /\ Nothing \in Seq(Replies) /\ \A r \in ToSet(Nothing) : r.type # "Message"
            /\ Srv!IInv /\ bs \in Seq(Requests)
            /\ Srv!HandleEvent(Asks(bs), Events(Nothing))
        BY <1>1, <1>2, <1>3, <1>4, NothingSent
      <4> QED BY ONLY <4>1, EventWhereabouts
    <3>2. Content \notin SentAs(b, s)
      BY <1>2, SaidAbout
    <3>3. Count(bs, AskedAs(b, s)) = IF new(b, s) THEN 1 ELSE 0
      BY <1>4
    <3> HIDE DEF new
    <3> QED BY <1>7, <3>1, <3>2, <3>3
  <2>2. ASSUME NEW b \in Boards, NEW s \in Nat, new(b, s) PROVE Whereabouts(b, s) = 0
    <3>1. SlotKnown(b, s) => b \in DOMAIN boards /\ s \in Slots(boards[b].nalloced)
      BY DEF SlotKnown
    <3>2. ~SlotKnown(b, s)
      BY <2>2, <3>1 DEF BoardOf
    <3> QED BY <3>2, Wherever
  <2>3. ASSUME NEW b \in Boards, NEW s \in Nat PROVE Whereabouts(b, s)' <= 1
    <3>1. Whereabouts(b, s) <= 1
      BY <1>1 DEF InOnePlace
    <3> HIDE DEF new
    <3> QED BY <2>1, <2>2, <3>1
  <2>4. ASSUME Both', NEW b \in DOMAIN boards', NEW s \in Slots(boards'[b].nalloced)
        PROVE  Place(b, s) \in refused' \/ Whereabouts(b, s)' >= 1
    <3>1. Both /\ refused' = refused
      BY <1>2, <2>4 DEF Both
    <3>2. b \in Boards /\ s \in Nat
      BY <1>1, <1>2, <1>6 DEF BoardsKept, Slots
    <3>3. new(b, s) \/ (b \in DOMAIN boards /\ s \in Slots(boards[b].nalloced))
      <4>1. CASE b = id
        <5>1. s \in Slots(n)
          BY <1>6, <4>1
        <5>2. id \notin DOMAIN boards => Slots(BoardOf(id).nalloced) = {}
          BY NewBoardIs DEF BoardOf, Slots
        <5> QED BY <4>1, <5>1, <5>2 DEF BoardOf
      <4>2. CASE b # id
        BY <1>6, <4>2
      <4> QED BY <4>1, <4>2
    <3> HIDE DEF new
    <3>4. CASE new(b, s)
      BY <2>1, <3>2, <3>4
    <3>5. CASE b \in DOMAIN boards /\ s \in Slots(boards[b].nalloced)
      <4>1. Place(b, s) \in refused \/ Whereabouts(b, s) >= 1
        BY <1>1, <3>1, <3>5 DEF InOnePlace
      <4> QED BY <2>1, <3>1, <3>2, <4>1
    <3> QED BY <3>3, <3>4, <3>5
  <2> QED BY <2>3, <2>4 DEF InOnePlace
<1>9. BoardsCome'
  <2> SUFFICES ASSUME NEW b \in Boards
               PROVE  \/ b \in DOMAIN boards' /\ boards'[b].nalloced = Len(posted[b])
                      \/ \E r \in ToSet(Wire') : AskedFor(r, b)
                      \/ \E r \in Passing' : Brings(r, b)
    BY <1>2 DEF BoardsCome, AskedFor, Brings
  <2>1. Len(posted[b]) \in Nat
    BY <1>1, PostedFields
  <2>2. CASE b \in DOMAIN boards /\ boards[b].nalloced = Len(posted[b])
    <3>1. b = id => n = Len(posted[b])
      BY <1>2, <2>1, <2>2 DEF BoardOf
    <3> QED BY <1>6, <2>2, <3>1
  <2>3. CASE \E r \in ToSet(Wire) : AskedFor(r, b)
    BY <1>5, <2>3
  <2>4. ASSUME NEW r \in Passing, Brings(r, b)
        PROVE  \/ b \in DOMAIN boards' /\ boards'[b].nalloced = Len(posted[b])
               \/ \E q \in Passing' : Brings(q, b)
    <3>1. r = e => b = id /\ n = Len(posted[b])
      BY <1>2, <2>4 DEF Brings
    <3> QED BY <1>5, <1>6, <2>4, <3>1
  <2> QED BY <1>1, <2>2, <2>3, <2>4 DEF BoardsCome
<1> QED BY <1>8, <1>9

LEMMA BoardReceiveKeeps == IInv /\ BoardReceive => IInv'
<1> SUFFICES ASSUME IInv, BoardReceive PROVE IInv'
  OBVIOUS
<1>1. PICK e : e = Content
  OBVIOUS
<1>2. PICK id : id = e.id
  OBVIOUS
<1>3. PICK n : n = e.nmessages
  OBVIOUS
<1>4. CASE "list" \in repaired
  <2>1. BoardsKept' /\ CountsAgree' /\ BoxesHold' /\ Posted'
    BY <1>1, <1>2, <1>3, <1>4, BoardFillKeepsBoards
  <2>2. Srv!IInv' /\ Meant' /\ BoardsGrow' /\ IconsFollow'
    BY <1>1, <1>2, <1>3, <1>4, BoardFillKeepsQueues
  <2>3. InOnePlace' /\ BoardsCome'
    BY <1>1, <1>2, <1>3, <1>4, BoardFillKeepsPlaces
  <2> QED BY <2>1, <2>2, <2>3 DEF IInv
<1>5. CASE "list" \notin repaired
  <2>1. /\ Srv!IInv /\ Posted /\ BoardsKept
    BY DEF IInv
  <2>2. /\ e.type = "Board"
        /\ id \in Boards /\ n \in Nat /\ n <= Len(posted[id])
        /\ BoardOf(id).nalloced \in Nat /\ BoardOf(id).nalloced <= n
        /\ Srv!HandleEvent(Asks(SlotsAsked(id, n)), Events(Nothing))
        /\ UNCHANGED <<repaired, icons, boxes, stopped, posted, changed, refused, serverTurn>>
    BY <1>1, <1>2, <1>3, BoardReceived
  <2>3. UNCHANGED <<repaired, boards, playerVars, peerVars>>
    BY <1>5, <2>2 DEF BoardReceive, playerVars, peerVars
  <2>4. PICK bs : bs = SlotsAsked(id, n)
    OBVIOUS
  <2>5. PICK new : new = NewSlots(id, n)
    OBVIOUS
  <2>6. /\ bs \in Seq(Requests)
        /\ \A i, j \in 1..Len(new) : new[i] = new[j] => i = j
        /\ ToSet(new) = Slots(n) \ Slots(BoardOf(id).nalloced)
        /\ \A q \in ToSet(bs) : q = MessageGet(id, new)
    BY <2>2, <2>4, <2>5, NewSlotsAre
  <2>7. \A q \in ToSet(bs) : RequestMeant(q)
    <3>1. PICK q : q = MessageGet(id, new)
      OBVIOUS
    <3>2. q.type = "MessageGet" /\ q.id = id /\ q.slots = new
      BY <3>1 DEF MessageGet
    <3>3. \A s \in ToSet(new) : SlotKnown(id, s)
      <4>1. Len(posted[id]) \in Nat
        BY <2>1, <2>2, PostedFields
      <4>2. \A s \in Slots(n) : s \in Slots(Len(posted[id]))
        BY <2>2, <4>1 DEF Slots
      <4> QED BY <1>5, <2>2, <2>6, <4>2 DEF SlotKnown
    <3> QED BY <2>6, <3>1, <3>2, <3>3 DEF RequestMeant
  <2>8. Content.type # "BoardUpdate"
    BY <1>1, <2>2
  <2>9. /\ Srv!IInv' /\ Posted' /\ Meant' /\ BoardsKept' /\ CountsAgree'
        /\ BoardsGrow' /\ IconsFollow' /\ BoxesHold'
    BY <2>2, <2>3, <2>4, <2>6, <2>7, <2>8, PlainEventKeeps
  <2>10. InOnePlace' /\ BoardsCome'
    <3>1. "list" \notin repaired'
      BY <1>5, <2>2
    <3> QED BY <3>1 DEF InOnePlace, BoardsCome, Both
  <2> QED BY <2>9, <2>10 DEF IInv
<1> QED BY <1>4, <1>5
-----------------------------------------------------------------------------
(* A board with a message more, and with a message read                    *)

LEMMA KeptIs ==
  ASSUME NEW board \in BoardType, DOMAIN board.messages = Slots(board.nalloced),
         board.messages \in [Slots(board.nalloced) -> MessageType],
         NEW slot \in Slots(board.nalloced), NEW turn \in Nat \ {0},
         board.messages[slot] = NoMessage
  PROVE  /\ Kept(board, slot, turn) \in BoardType
         /\ Kept(board, slot, turn).nmessages = board.nmessages
         /\ Kept(board, slot, turn).nalloced = board.nalloced
         /\ Kept(board, slot, turn).updated = board.updated
         /\ Kept(board, slot, turn).unread = board.unread + 1
         /\ Kept(board, slot, turn).received = board.received + 1
         /\ DOMAIN Kept(board, slot, turn).messages = Slots(board.nalloced)
         /\ Kept(board, slot, turn).messages[slot] = [turn |-> turn, unread |-> TRUE]
         /\ \A s \in Slots(board.nalloced) \ {slot} :
              Kept(board, slot, turn).messages[s] = board.messages[s]
         /\ slot \notin HeldIn(board.messages)
         /\ HeldIn(Kept(board, slot, turn).messages) = HeldIn(board.messages) \cup {slot}
         /\ UnreadIn(Kept(board, slot, turn).messages) = UnreadIn(board.messages) \cup {slot}
<1> DEFINE v == [turn |-> turn, unread |-> TRUE]
           f == Kept(board, slot, turn)
<1>1. PICK a, b, c, d, e, held :
        board = [nmessages |-> a, updated |-> b, nalloced |-> c, unread |-> d,
                 received |-> e, messages |-> held]
  BY DEF BoardType
<1>2. /\ c \in Nat /\ d \in Nat /\ e \in Nat /\ a \in Nat /\ b \in Nat
      /\ held \in [Slots(c) -> MessageType] /\ slot \in Slots(c) /\ held[slot] = NoMessage
  BY <1>1 DEF BoardType
<1>3. v \in MessageType /\ v # NoMessage /\ v.unread
  BY DEF MessageType, NoMessage
<1> HIDE DEF v
<1>4. PICK m : m = [held EXCEPT ![slot] = v]
  OBVIOUS
<1>5. /\ m \in [Slots(c) -> MessageType]
      /\ \A s \in Slots(c) : m[s] = IF s = slot THEN v ELSE held[s]
  BY <1>2, <1>3, <1>4
<1>6. f = [nmessages |-> a, updated |-> b, nalloced |-> c, unread |-> d + 1,
           received |-> e + 1, messages |-> m]
  <2>1. PICK f1 : f1 = [board EXCEPT !.messages[slot] = v]
    OBVIOUS
  <2>2. PICK f2 : f2 = [f1 EXCEPT !.unread = @ + 1]
    OBVIOUS
  <2>3. f = [f2 EXCEPT !.received = @ + 1]
    BY <2>1, <2>2 DEF Kept, v
  <2> HIDE DEF f
  <2>4. f1 = [nmessages |-> a, updated |-> b, nalloced |-> c, unread |-> d,
              received |-> e, messages |-> m]
    BY ONLY <1>1, <1>4, <2>1
  <2>5. f2 = [nmessages |-> a, updated |-> b, nalloced |-> c, unread |-> d + 1,
              received |-> e, messages |-> m]
    BY ONLY <2>2, <2>4
  <2> QED BY ONLY <2>3, <2>5
<1> HIDE DEF f
<1>7. /\ f.nmessages = board.nmessages /\ f.nalloced = board.nalloced
      /\ f.updated = board.updated /\ f.unread = board.unread + 1
      /\ f.received = board.received + 1 /\ f.messages = m
  BY <1>1, <1>6
<1>8. board.messages = held /\ board.nalloced = c
  BY <1>1
<1>9. f \in BoardType
  <2>1. m \in UNION {[Slots(k) -> MessageType] : k \in Nat}
    BY <1>2, <1>5
  <2> HIDE DEF MessageType
  <2> QED BY <1>2, <1>6, <2>1 DEF BoardType
<1>10. slot \notin HeldIn(held) /\ HeldIn(m) = HeldIn(held) \cup {slot}
  BY <1>2, <1>3, <1>5 DEF HeldIn
<1>11. UnreadIn(m) = UnreadIn(held) \cup {slot}
  <2>1. HeldIn(held) \subseteq Slots(c)
    BY <1>2 DEF HeldIn
  <2> QED BY <1>2, <1>3, <1>5, <1>10, <2>1 DEF UnreadIn
<1> QED BY <1>5, <1>7, <1>8, <1>9, <1>10, <1>11 DEF f, v

(* What MessageRead() makes of a board.                                    *)
ReadBoard(board, slot) ==
  [board EXCEPT !.messages[slot].unread = FALSE, !.unread = @ - 1]

LEMMA ReadIs ==
  ASSUME NEW board \in BoardType, DOMAIN board.messages = Slots(board.nalloced),
         board.messages \in [Slots(board.nalloced) -> MessageType],
         NEW slot \in HeldIn(board.messages), board.messages[slot].turn # 0,
         board.messages[slot].unread, board.unread # 0
  PROVE  /\ ReadBoard(board, slot) \in BoardType
         /\ ReadBoard(board, slot).nmessages = board.nmessages
         /\ ReadBoard(board, slot).nalloced = board.nalloced
         /\ ReadBoard(board, slot).updated = board.updated
         /\ ReadBoard(board, slot).unread = board.unread - 1
         /\ ReadBoard(board, slot).received = board.received
         /\ DOMAIN ReadBoard(board, slot).messages = Slots(board.nalloced)
         /\ \A s \in Slots(board.nalloced) :
              ReadBoard(board, slot).messages[s].turn = board.messages[s].turn
         /\ HeldIn(ReadBoard(board, slot).messages) = HeldIn(board.messages)
         /\ UnreadIn(ReadBoard(board, slot).messages) = UnreadIn(board.messages) \ {slot}
<1> DEFINE f == ReadBoard(board, slot)
<1>1. PICK a, b, c, d, e, held :
        board = [nmessages |-> a, updated |-> b, nalloced |-> c, unread |-> d,
                 received |-> e, messages |-> held]
  BY DEF BoardType
<1>2. /\ c \in Nat /\ d \in Nat \ {0} /\ e \in Nat /\ a \in Nat /\ b \in Nat
      /\ held \in [Slots(c) -> MessageType] /\ slot \in Slots(c) /\ slot \in HeldIn(held)
      /\ held[slot].turn # 0 /\ held[slot].unread
  BY <1>1 DEF BoardType, HeldIn
<1>3. PICK v : v = [turn |-> held[slot].turn, unread |-> FALSE]
  OBVIOUS
<1>4. /\ v \in MessageType /\ v # NoMessage /\ v.unread = FALSE /\ v.turn = held[slot].turn
      /\ v = [held[slot] EXCEPT !.unread = FALSE]
  <2>1. PICK t \in Nat, u \in BOOLEAN : held[slot] = [turn |-> t, unread |-> u]
    <3>1. held[slot] \in MessageType
      BY <1>2
    <3> QED BY <3>1 DEF MessageType
  <2>2. v = [turn |-> t, unread |-> FALSE] /\ t # 0
    BY <1>2, <1>3, <2>1
  <2>3. v = [held[slot] EXCEPT !.unread = FALSE]
    <3>1. PICK w : w = held[slot]
      OBVIOUS
    <3>2. PICK x : x = FALSE
      OBVIOUS
    <3>3. PICK y : y = u
      OBVIOUS
    <3>4. w = [turn |-> t, unread |-> y] /\ v = [turn |-> t, unread |-> x]
      BY ONLY <2>1, <2>2, <3>1, <3>2, <3>3
    <3>5. v = [w EXCEPT !.unread = x]
      BY ONLY <3>4
    <3> QED BY ONLY <3>1, <3>2, <3>5
  <2>4. v \in MessageType /\ v # NoMessage /\ v.unread = FALSE /\ v.turn = held[slot].turn
    BY ONLY <2>1, <2>2, t \in Nat DEF MessageType, NoMessage
  <2> QED BY <2>3, <2>4
<1>5. PICK m : m = [held EXCEPT ![slot] = v]
  OBVIOUS
<1>6. /\ m \in [Slots(c) -> MessageType]
      /\ \A s \in Slots(c) : m[s] = IF s = slot THEN v ELSE held[s]
  BY <1>2, <1>4, <1>5
<1>7. f = [nmessages |-> a, updated |-> b, nalloced |-> c, unread |-> d - 1,
           received |-> e, messages |-> m]
  <2>1. PICK f1 : f1 = [board EXCEPT !.messages[slot].unread = FALSE]
    OBVIOUS
  <2>2. f = [f1 EXCEPT !.unread = @ - 1]
    BY <2>1 DEF ReadBoard
  <2> HIDE DEF f
  <2>3. f1 = [board EXCEPT !.messages = [held EXCEPT ![slot] = [held[slot] EXCEPT !.unread = FALSE]]]
    BY ONLY <1>1, <2>1
  <2>4. f1 = [board EXCEPT !.messages = m]
    BY ONLY <2>3, <1>4, <1>5
  <2>5. f1 = [nmessages |-> a, updated |-> b, nalloced |-> c, unread |-> d,
              received |-> e, messages |-> m]
    BY ONLY <1>1, <2>4
  <2> QED BY ONLY <2>2, <2>5
<1> HIDE DEF f
<1>8. /\ f.nmessages = board.nmessages /\ f.nalloced = board.nalloced
      /\ f.updated = board.updated /\ f.unread = board.unread - 1
      /\ f.received = board.received /\ f.messages = m
      /\ board.messages = held /\ board.nalloced = c
  BY <1>1, <1>7
<1>9. f \in BoardType
  <2>1. m \in UNION {[Slots(k) -> MessageType] : k \in Nat}
    BY <1>2, <1>6
  <2>2. d - 1 \in Nat
    BY <1>2
  <2> HIDE DEF MessageType
  <2> QED BY <1>2, <1>7, <2>1, <2>2 DEF BoardType
<1>10. HeldIn(m) = HeldIn(held) /\ HeldIn(held) \subseteq Slots(c)
  BY <1>2, <1>4, <1>6 DEF HeldIn
<1>11. UnreadIn(m) = UnreadIn(held) \ {slot}
  BY <1>4, <1>6, <1>10 DEF UnreadIn
<1>12. \A s \in Slots(c) : m[s].turn = held[s].turn
  BY <1>4, <1>6
<1> QED BY <1>6, <1>8, <1>9, <1>10, <1>11, <1>12 DEF f

(* One board changes, in what it holds and what of it was read.            *)
Becomes(id, k) ==
  /\ id \in DOMAIN boards
  /\ boards' = [boards EXCEPT ![id] = k]
  /\ k \in BoardType
  /\ k.nmessages = boards[id].nmessages /\ k.nalloced = boards[id].nalloced
  /\ k.updated = boards[id].updated
  /\ DOMAIN k.messages = Slots(k.nalloced)
  /\ HeldIn(boards[id].messages) \subseteq HeldIn(k.messages)
  /\ \A s \in HeldIn(k.messages) : k.messages[s].turn = posted[id][s + 1]
  /\ k.received = Cardinality(HeldIn(k.messages))
  /\ k.unread = Cardinality(UnreadIn(k.messages))
  /\ Age(boards[id].received, boards[id].unread) < Age(k.received, k.unread)

LEMMA BecomesHold ==
  ASSUME NEW id, NEW k, Becomes(id, k)
  PROVE  /\ DOMAIN boards' = DOMAIN boards /\ boards'[id] = k
         /\ \A b \in DOMAIN boards \ {id} : boards'[b] = boards[b]
         /\ Held(id)' = HeldIn(k.messages)
         /\ \A b \in DOMAIN boards : Held(b) \subseteq Held(b)'
         /\ \A b \in DOMAIN boards \ {id} : Held(b)' = Held(b)
         /\ \A b, s : IsHeld(b, s) => IsHeld(b, s)'
         /\ \A b, s : IsHeld(b, s)' => IsHeld(b, s) \/ (b = id /\ s \in HeldIn(k.messages))
<1>1. /\ DOMAIN boards' = DOMAIN boards /\ boards'[id] = k
      /\ \A b \in DOMAIN boards \ {id} : boards'[b] = boards[b]
  BY DEF Becomes
<1>2. /\ Held(id)' = HeldIn(k.messages)
      /\ Held(id) \subseteq Held(id)'
      /\ \A b \in DOMAIN boards \ {id} : Held(b)' = Held(b)
  BY <1>1, HeldByMessages DEF Becomes
<1>3. \A b, s : IsHeld(b, s) => IsHeld(b, s)'
  BY <1>1, <1>2 DEF IsHeld
<1>4. \A b, s : IsHeld(b, s)' => IsHeld(b, s) \/ (b = id /\ s \in HeldIn(k.messages))
  BY <1>1, <1>2 DEF IsHeld
<1> QED BY <1>1, <1>2, <1>3, <1>4

LEMMA BecomesKeeps ==
  ASSUME IInv, NEW id, NEW k, Becomes(id, k),
         UNCHANGED <<repaired, posted, changed, serverTurn>>
  PROVE  Grows /\ Posted' /\ BoardsKept' /\ CountsAgree'
<1>1. /\ Posted /\ BoardsKept /\ CountsAgree
  BY DEF IInv
<1>2. /\ DOMAIN boards' = DOMAIN boards /\ boards'[id] = k /\ id \in DOMAIN boards
      /\ \A b \in DOMAIN boards \ {id} : boards'[b] = boards[b]
      /\ Held(id)' = HeldIn(k.messages)
      /\ \A b \in DOMAIN boards \ {id} : Held(b)' = Held(b)
  BY BecomesHold DEF Becomes
<1>3. Grows
  <2>1. \A b \in Boards : Len(posted[b]) \in Nat /\ changed[b] \in Nat
    BY <1>1, PostedFields
  <2>2. \A b \in DOMAIN boards : boards[b].nalloced \in Nat
    BY <1>1, BoardFields
  <2>3. \A b \in DOMAIN boards : boards'[b].nalloced = boards[b].nalloced
    BY <1>2 DEF Becomes
  <2> QED BY <1>2, <2>1, <2>2, <2>3 DEF Grows
<1>4. Posted'
  BY <1>1 DEF Posted
<1>5. ASSUME NEW b \in DOMAIN boards' PROVE BoardOK(b)'
  <2>1. BoardOK(b)
    BY <1>1, <1>2 DEF BoardsKept
  <2>2. CASE b = id
    <3>1. \A s \in Held(b)' : TurnAt(b, s)' = posted'[b][s + 1]
      BY <1>2, <2>2 DEF Becomes, TurnAt
    <3>2. /\ b \in Boards /\ k.nalloced \in 0..Len(posted'[b])
          /\ k.updated \in 1..changed'[b]
          /\ k.updated = changed'[b] => k.nalloced = Len(posted'[b])
      BY <2>1, <2>2 DEF BoardOK, Becomes, Described
    <3>3. boards'[b] \in BoardType /\ boards'[b].nmessages = boards'[b].nalloced
          /\ DOMAIN boards'[b].messages = Slots(boards'[b].nalloced)
      BY <1>2, <2>1, <2>2 DEF BoardOK, Becomes
    <3> QED BY <1>2, <2>2, <3>1, <3>2, <3>3 DEF BoardOK, Described
  <2>3. CASE b # id
    <3>1. boards'[b] = boards[b] /\ Held(b)' = Held(b)
      BY <1>2, <2>3
    <3> QED BY <2>1, <3>1 DEF BoardOK, Described, TurnAt
  <2> QED BY <2>2, <2>3
<1>6. BoardsKept'
  BY <1>1, <1>2, <1>5 DEF BoardsKept
<1>7. CountsAgree'
  <2>1. \A b : {s \in Held(b)' : boards'[b].messages[s].unread} = UnreadIn(boards'[b].messages)
    BY HeldByMessages
  <2>2. ASSUME NEW b \in DOMAIN boards'
        PROVE  /\ boards'[b].received = Cardinality(Held(b)')
               /\ boards'[b].unread = Cardinality(UnreadIn(boards'[b].messages))
    <3>1. CASE b = id
      BY <1>2, <3>1 DEF Becomes
    <3>2. CASE b # id
      BY <1>1, <1>2, <3>2, HeldByMessages DEF CountsAgree
    <3> QED BY <3>1, <3>2
  <2> QED BY <2>1, <2>2 DEF CountsAgree
<1> QED BY <1>3, <1>4, <1>6, <1>7

(* The icons hear of it, behind whatever they have not handled yet.        *)
LEMMA BecomesFollow ==
  ASSUME IInv, NEW id, NEW k, Becomes(id, k), icons' = icons,
         NEW rest \in Seq(Replies), Ordered(rest, Newer),
         \A r : r.type = "BoardUpdate" => (r \in ToSet(rest) <=> r \in ToSet(Waiting)),
         Waiting' = rest \o <<BoardUpdate(id, k)>>
  PROVE  IconsFollow' /\ BoardUpdate(id, k) \in Replies
<1>1. /\ Srv!IInv /\ BoardsKept /\ IconsFollow
  BY DEF IInv
<1>2. /\ DOMAIN boards' = DOMAIN boards /\ boards'[id] = k /\ id \in DOMAIN boards
      /\ \A b \in DOMAIN boards \ {id} : boards'[b] = boards[b]
  BY BecomesHold DEF Becomes
<1>3. PICK u : u = BoardUpdate(id, k)
  OBVIOUS
<1>4. /\ k.received \in Nat /\ k.unread \in Nat /\ id \in Boards
      /\ boards[id].received \in Nat /\ boards[id].unread \in Nat
  BY <1>1, <1>2, BoardFields DEF Becomes, BoardType
<1>5. /\ u.type = "BoardUpdate" /\ u.id = id /\ u.unread = k.unread /\ u.messages = k.received
      /\ u \in Replies
  <2>1. u \in [type : {"BoardUpdate"}, id : Boards, unread : Counts, messages : Counts]
    BY <1>3, <1>4 DEF BoardUpdate, Counts
  <2> QED BY <1>3, <2>1 DEF BoardUpdate, Replies
<1>6. /\ UpdateAge(u) = BoardAge(id)' /\ UpdateAge(u) \in Int
      /\ BoardAge(id) \in Int /\ BoardAge(id) < UpdateAge(u)
  <2>1. UpdateAge(u) = Age(k.received, k.unread) /\ UpdateAge(u) \in Int
    BY <1>4, <1>5 DEF UpdateAge, Age
  <2>2. BoardAge(id)' = Age(k.received, k.unread)
    BY <1>2 DEF BoardAge
  <2>3. BoardAge(id) \in Int /\ BoardAge(id) < Age(k.received, k.unread)
    BY <1>4 DEF BoardAge, Age, Becomes
  <2> QED BY <2>1, <2>2, <2>3
<1>7. \A b \in DOMAIN boards \ {id} : BoardAge(b)' = BoardAge(b)
  BY <1>2 DEF BoardAge
<1>8. ToSet(rest) \subseteq Replies
  BY Contents
<1>9. ToSet(Waiting') = ToSet(rest) \cup {u}
  <2>1. Append(rest, u) = Waiting' /\ ToSet(Append(rest, u)) = ToSet(rest) \cup {u}
    BY <1>3, <1>5, AppendContents
  <2> QED BY <2>1
<1>10. ASSUME NEW r \in ToSet(rest), r.type = "BoardUpdate"
       PROVE  /\ r.id \in DOMAIN boards /\ UpdateAge(r) \in Int /\ UpdateAge(r) <= BoardAge(r.id)
              /\ r.id \in DOMAIN icons => UpdateAge(icons[r.id]) < UpdateAge(r)
              /\ r.id = id => UpdateAge(r) < UpdateAge(u)
  <2>1. /\ r.id \in DOMAIN boards /\ UpdateAge(r) <= BoardAge(r.id)
        /\ r.id \in DOMAIN icons => UpdateAge(icons[r.id]) < UpdateAge(r)
    BY <1>1, <1>10 DEF IconsFollow
  <2>2. UpdateAge(r) \in Int
    BY <1>8, <1>10, SaidToClient DEF UpdateAge, Age
  <2> QED BY <1>6, <2>1, <2>2
<1>11. Ordered(Waiting', Newer)
  <2>1. \A r \in ToSet(rest) : <<r, u>> \in Newer
    BY <1>5, <1>8, <1>10 DEF Newer
  <2>2. Append(rest, u) = Waiting'
    BY <1>3, <1>5, AppendContents
  <2> QED BY <1>5, <2>1, <2>2, AppendOrdered
<1>12. ASSUME NEW r \in ToSet(Waiting'), r.type = "BoardUpdate"
       PROVE  /\ r.id \in DOMAIN boards'
              /\ UpdateAge(r) <= BoardAge(r.id)'
              /\ r.id \in DOMAIN icons' => UpdateAge(icons'[r.id]) < UpdateAge(r)
  <2>1. CASE r = u
    <3>1. id \in DOMAIN icons => UpdateAge(icons[id]) <= BoardAge(id) /\ UpdateAge(icons[id]) \in Int
      BY <1>1 DEF IconsFollow, UpdateAge, Age
    <3> QED BY <1>2, <1>5, <1>6, <2>1, <3>1
  <2>2. CASE r \in ToSet(rest)
    <3>1. CASE r.id = id
      BY <1>2, <1>6, <1>10, <1>12, <2>2, <3>1
    <3>2. CASE r.id # id
      BY <1>2, <1>7, <1>10, <1>12, <2>2, <3>2
    <3> QED BY <3>1, <3>2
  <2> QED BY <1>9, <1>12, <2>1, <2>2
<1>13. ASSUME NEW b \in DOMAIN boards', boards'[b].received > 0
       PROVE  \/ BoardUpdate(b, boards'[b]) \in ToSet(Waiting')
              \/ b \in DOMAIN icons' /\ icons'[b] = Shown(BoardUpdate(b, boards'[b]))
  <2>1. CASE b = id
    BY <1>2, <1>3, <1>9, <2>1
  <2>2. CASE b # id
    <3>1. b \in DOMAIN boards /\ boards'[b] = boards[b]
      BY <1>2, <2>2
    <3>2. BoardUpdate(b, boards[b]).type = "BoardUpdate"
      BY DEF BoardUpdate
    <3> QED BY <1>1, <1>9, <1>13, <3>1, <3>2 DEF IconsFollow
  <2> QED BY <2>1, <2>2
<1>14. ASSUME NEW b \in DOMAIN icons'
       PROVE  /\ icons'[b] \in [unread : Int, messages : Int, lit : BOOLEAN]
              /\ b \in DOMAIN boards' /\ UpdateAge(icons'[b]) <= BoardAge(b)'
  <2>1. /\ icons[b] \in [unread : Int, messages : Int, lit : BOOLEAN] /\ b \in DOMAIN boards
        /\ UpdateAge(icons[b]) <= BoardAge(b)
    BY <1>1, <1>14 DEF IconsFollow
  <2>2. UpdateAge(icons[b]) \in Int
    BY <2>1 DEF UpdateAge, Age
  <2>3. CASE b = id
    BY <1>2, <1>6, <2>1, <2>2, <2>3
  <2>4. CASE b # id
    BY <1>2, <1>7, <2>1, <2>4
  <2> QED BY <2>3, <2>4
<1>15. DOMAIN icons' \subseteq Boards
  BY <1>1 DEF IconsFollow
<1>16. IconsFollow'
  BY <1>11, <1>12, <1>13, <1>14, <1>15 DEF IconsFollow
<1> QED BY <1>3, <1>5, <1>16
-----------------------------------------------------------------------------
(* A message is received                                                   *)

LEMMA MessageSaid ==
  ASSUME IInv, MessageReceive, NEW e, e = Content
  PROVE  /\ e \in Passing /\ e \in Replies /\ e.type = "Message"
         /\ e.id \in Boards /\ e.slot \in Nat /\ e.turn \in Nat \ {0}
         /\ SlotKnown(e.id, e.slot) /\ e.turn = posted[e.id][e.slot + 1]
         /\ \A b, s : e \in SentAs(b, s) <=> b = e.id /\ s = e.slot
         /\ events # <<>>
         /\ UNCHANGED <<repaired, icons, boxes, stopped, posted, changed, refused, serverTurn>>
<1>1. /\ Srv!IInv /\ Posted /\ Meant
  BY DEF IInv
<1>2. /\ UNCHANGED <<repaired, icons, boxes, stopped, posted, changed, refused, serverTurn>>
      /\ events # <<>> /\ e.type = "Message"
  BY DEF MessageReceive, Arrives, Content, playerVars, peerVars
<1>3. e \in Passing /\ e \in Replies
  <2>1. Waiting # <<>> /\ Content = Head(Waiting) /\ Waiting \in Seq(Replies)
    BY <1>1, <1>2, Queues
  <2> QED BY <2>1, HeadAndTail DEF Passing
<1>4. SlotKnown(e.id, e.slot) /\ e.turn = posted[e.id][e.slot + 1]
  BY <1>1, <1>2, <1>3 DEF Meant, ReplyMeant
<1>5. e.id \in Boards /\ e.slot \in Slots(Len(posted[e.id]))
  BY <1>4 DEF SlotKnown
<1>6. e.slot \in Nat /\ e.turn \in Nat \ {0}
  <2>1. Len(posted[e.id]) \in Nat
    BY <1>1, <1>5, PostedFields
  <2>2. e.slot \in Nat /\ e.slot + 1 \in 1..Len(posted[e.id])
    BY <1>5, <2>1 DEF Slots
  <2> QED BY <1>1, <1>4, <1>5, <2>2, PostedFields
<1>7. \A b, s : e \in SentAs(b, s) <=> b = e.id /\ s = e.slot
  BY <1>2, <1>3 DEF SentAs
<1> QED BY <1>2, <1>3, <1>4, <1>5, <1>6, <1>7

(* What the client does not keep: it is not repaired, or the message is    *)
(* held.                                                                   *)
LEMMA DroppedKeeps ==
  ASSUME IInv, MessageReceive, NEW e, e = Content,
         ~("block" \in repaired /\ e.id \in DOMAIN boards /\ boards[e.id].messages[e.slot] = NoMessage)
  PROVE  IInv'
<1>1. /\ Srv!IInv /\ BoardsKept /\ InOnePlace
  BY DEF IInv
<1>2. /\ e.type = "Message" /\ e.id \in Boards /\ e.slot \in Nat
      /\ \A b, s : e \in SentAs(b, s) <=> b = e.id /\ s = e.slot
      /\ UNCHANGED <<repaired, icons, boxes, stopped, posted, changed, refused, serverTurn>>
  BY MessageSaid
<1>3. /\ Srv!HandleEvent(Asks(Nothing), Events(Nothing)) /\ boards' = boards
      /\ Nothing \in Seq(Requests) /\ Nothing \in Seq(Replies) /\ ToSet(Nothing) = {}
  BY NothingSent DEF MessageReceive, Content
<1>4. /\ Srv!IInv' /\ Posted' /\ Meant' /\ BoardsKept' /\ CountsAgree'
      /\ BoardsGrow' /\ IconsFollow' /\ BoxesHold'
  <2>1. UNCHANGED <<repaired, boards, playerVars, peerVars>> /\ Content.type # "BoardUpdate"
    BY <1>2, <1>3 DEF playerVars, peerVars
  <2> QED BY <1>3, <2>1, PlainEventKeeps
<1>5. InOnePlace'
  <2>1. ASSUME NEW b \in Boards, NEW s \in Nat
        PROVE  /\ Whereabouts(b, s) \in Nat /\ Whereabouts(b, s)' \in Nat
               /\ e \notin SentAs(b, s) => Whereabouts(b, s)' = Whereabouts(b, s)
               /\ e \in SentAs(b, s) => Whereabouts(b, s)' + 1 = Whereabouts(b, s)
               /\ e \in SentAs(b, s) /\ IsHeld(b, s) => Whereabouts(b, s) >= 2
    <3>1. /\ Whereabouts(b, s) \in Nat /\ Whereabouts(b, s)' \in Nat
          /\ Whereabouts(b, s)' + (IF Content \in SentAs(b, s) THEN 1 ELSE 0)
                                + (IF IsHeld(b, s) THEN 1 ELSE 0)
               = Whereabouts(b, s) + Count(Nothing, AskedAs(b, s)) + (IF IsHeld(b, s)' THEN 1 ELSE 0)
          /\ Content \in SentAs(b, s) => Whereabouts(b, s) >= 1 + (IF IsHeld(b, s) THEN 1 ELSE 0)
      <4>1. /\ Nothing \in Seq(Replies) /\ \A r \in ToSet(Nothing) : r.type # "Message"
            /\ Srv!IInv /\ Nothing \in Seq(Requests)
            /\ Srv!HandleEvent(Asks(Nothing), Events(Nothing))
        BY <1>1, <1>3
      <4> QED BY ONLY <4>1, EventWhereabouts
    <3>2. Count(Nothing, AskedAs(b, s)) = 0
      BY NothingSent
    <3>3. IsHeld(b, s)' <=> IsHeld(b, s)
      BY <1>3, StillHeld
    <3> QED BY <3>1, <3>2, <3>3
  <2>2. ASSUME NEW b \in Boards, NEW s \in Nat, "list" \in repaired'
        PROVE  Whereabouts(b, s)' <= 1
    <3>1. Whereabouts(b, s) <= 1
      BY <1>1, <1>2, <2>2 DEF InOnePlace
    <3> QED BY <2>1, <3>1
  <2>3. ASSUME Both', NEW b \in DOMAIN boards', NEW s \in Slots(boards'[b].nalloced)
        PROVE  Place(b, s) \in refused' \/ Whereabouts(b, s)' >= 1
    <3>1. Both /\ b \in DOMAIN boards /\ s \in Slots(boards[b].nalloced)
      BY <1>2, <1>3, <2>3 DEF Both
    <3>2. /\ b \in Boards /\ s \in Nat /\ DOMAIN boards[b].messages = Slots(boards[b].nalloced)
      BY <1>1, <3>1, BoardFields DEF Slots
    <3>3. CASE e \in SentAs(b, s)
      <4>1. b = e.id /\ s = e.slot /\ "block" \in repaired
        BY <1>2, <3>1, <3>3 DEF Both
      <4>2. IsHeld(b, s)
        BY <3>1, <3>2, <4>1 DEF IsHeld, Held
      <4>3. Whereabouts(b, s) <= 1
        BY <1>1, <3>1, <3>2 DEF InOnePlace, Both
      <4> QED BY <2>1, <3>2, <3>3, <4>2, <4>3
    <3>4. CASE e \notin SentAs(b, s)
      BY <1>1, <1>2, <2>1, <3>1, <3>2, <3>4 DEF InOnePlace
    <3> QED BY <3>3, <3>4
  <2> QED BY <2>2, <2>3 DEF InOnePlace
<1>6. BoardsCome'
  <2>1. ToSet(Wire') = ToSet(Wire) \cup ToSet(Nothing) /\ Passing \subseteq Passing' \cup {Content}
    BY <1>1, <1>3, EventEffect
  <2>2. \A b : ~Brings(Content, b)
    BY <1>2 DEF Brings
  <2> QED BY <1>2, <1>3, <2>1, <2>2, StillCome DEF IInv, SameSlots
<1> QED BY <1>4, <1>5, <1>6 DEF IInv

LEMMA HeldFinite ==
  ASSUME BoardsKept, NEW b \in DOMAIN boards
  PROVE  /\ IsFiniteSet(HeldIn(boards[b].messages))
         /\ IsFiniteSet(UnreadIn(boards[b].messages))
<1>1. boards[b].nalloced \in Nat /\ DOMAIN boards[b].messages = Slots(boards[b].nalloced)
  BY BoardFields
<1>2. IsFiniteSet(Slots(boards[b].nalloced))
  <2>1. boards[b].nalloced - 1 \in Int
    BY <1>1
  <2> QED BY <2>1, FS_Interval DEF Slots
<1>3. /\ HeldIn(boards[b].messages) \subseteq Slots(boards[b].nalloced)
      /\ UnreadIn(boards[b].messages) \subseteq Slots(boards[b].nalloced)
  BY <1>1 DEF HeldIn, UnreadIn
<1> QED BY <1>2, <1>3, FS_Subset

LEMMA KeptBecomes ==
  ASSUME IInv, MessageReceive, NEW e, e = Content, "block" \in repaired,
         e.id \in DOMAIN boards, boards[e.id].messages[e.slot] = NoMessage,
         NEW k, k = Kept(boards[e.id], e.slot, e.turn)
  PROVE  /\ Becomes(e.id, k) /\ SameSlots
         /\ Srv!HandleEvent(Asks(Nothing), Events(<<BoardUpdate(e.id, k)>>))
         /\ ~IsHeld(e.id, e.slot)
         /\ \A b, s : IsHeld(b, s)' <=> IsHeld(b, s) \/ (b = e.id /\ s = e.slot)
<1>1. /\ Srv!IInv /\ Posted /\ Meant /\ BoardsKept /\ CountsAgree
  BY DEF IInv
<1>2. /\ e.turn \in Nat \ {0} /\ SlotKnown(e.id, e.slot) /\ e.turn = posted[e.id][e.slot + 1]
  BY MessageSaid
<1>3. PICK id : id = e.id
  OBVIOUS
<1>4. PICK slot : slot = e.slot
  OBVIOUS
<1>5. PICK turn : turn = e.turn
  OBVIOUS
<1>6. PICK board : board = boards[id]
  OBVIOUS
<1>7. /\ board \in BoardType /\ board.received \in Nat /\ board.unread \in Nat
      /\ DOMAIN board.messages = Slots(board.nalloced)
      /\ board.messages \in [Slots(board.nalloced) -> MessageType]
      /\ slot \in Slots(board.nalloced)
      /\ board.messages[slot] = NoMessage
      /\ id \in DOMAIN boards
  BY <1>1, <1>2, <1>3, <1>4, <1>6, BoardFields DEF SlotKnown
<1>8. k = Kept(board, slot, turn)
  BY <1>3, <1>4, <1>5, <1>6
<1>9. /\ k \in BoardType
      /\ k.nmessages = board.nmessages /\ k.nalloced = board.nalloced
      /\ k.updated = board.updated
      /\ k.unread = board.unread + 1 /\ k.received = board.received + 1
      /\ DOMAIN k.messages = Slots(board.nalloced)
      /\ k.messages[slot] = [turn |-> turn, unread |-> TRUE]
      /\ \A s \in Slots(board.nalloced) \ {slot} : k.messages[s] = board.messages[s]
      /\ slot \notin HeldIn(board.messages)
      /\ HeldIn(k.messages) = HeldIn(board.messages) \cup {slot}
      /\ UnreadIn(k.messages) = UnreadIn(board.messages) \cup {slot}
  <2>1. turn \in Nat \ {0}
    BY <1>2, <1>5
  <2>2. /\ Kept(board, slot, turn) \in BoardType
        /\ Kept(board, slot, turn).nmessages = board.nmessages
        /\ Kept(board, slot, turn).nalloced = board.nalloced
        /\ Kept(board, slot, turn).updated = board.updated
        /\ Kept(board, slot, turn).unread = board.unread + 1
        /\ Kept(board, slot, turn).received = board.received + 1
        /\ DOMAIN Kept(board, slot, turn).messages = Slots(board.nalloced)
        /\ Kept(board, slot, turn).messages[slot] = [turn |-> turn, unread |-> TRUE]
        /\ \A s \in Slots(board.nalloced) \ {slot} :
             Kept(board, slot, turn).messages[s] = board.messages[s]
        /\ slot \notin HeldIn(board.messages)
        /\ HeldIn(Kept(board, slot, turn).messages) = HeldIn(board.messages) \cup {slot}
        /\ UnreadIn(Kept(board, slot, turn).messages) = UnreadIn(board.messages) \cup {slot}
    BY ONLY <1>7, <2>1, KeptIs, ZenonT(30)
  <2> QED BY ONLY <1>8, <2>2
<1>10. /\ boards' = [boards EXCEPT ![id] = k]
       /\ Srv!HandleEvent(Asks(Nothing), Events(<<BoardUpdate(id, k)>>))
  <2>1. /\ boards' = [boards EXCEPT ![e.id] = Kept(@, e.slot, e.turn)]
        /\ Srv!HandleEvent(<<>>, <<Event(BoardUpdate(e.id, boards'[e.id]))>>)
    BY DEF MessageReceive, Content
  <2>2. boards' = [boards EXCEPT ![id] = k]
    BY <1>3, <1>4, <1>5, <1>6, <1>8, <2>1
  <2>3. boards'[id] = k
    BY <1>7, <2>2
  <2>4. PICK u : u = BoardUpdate(id, k)
    OBVIOUS
  <2>5. Srv!HandleEvent(<<>>, <<Event(u)>>)
    BY <1>3, <2>1, <2>3, <2>4
  <2>6. Asks(Nothing) = <<>> /\ Events(<<u>>) = <<Event(u)>>
    BY NothingSent, OneSent
  <2> QED BY <2>2, <2>4, <2>5, <2>6
<1>11. /\ k.received = Cardinality(HeldIn(k.messages))
       /\ k.unread = Cardinality(UnreadIn(k.messages))
  <2>1. /\ board.received = Cardinality(HeldIn(board.messages))
        /\ board.unread = Cardinality(UnreadIn(board.messages))
    BY <1>1, <1>6, <1>7, HeldByMessages DEF CountsAgree
  <2>2. IsFiniteSet(HeldIn(board.messages)) /\ IsFiniteSet(UnreadIn(board.messages))
    BY <1>1, <1>6, <1>7, HeldFinite
  <2>3. slot \notin UnreadIn(board.messages)
    BY <1>9 DEF UnreadIn
  <2>4. /\ Cardinality(HeldIn(board.messages) \cup {slot}) = Cardinality(HeldIn(board.messages)) + 1
        /\ Cardinality(UnreadIn(board.messages) \cup {slot}) = Cardinality(UnreadIn(board.messages)) + 1
    BY <1>9, <2>2, <2>3, FS_AddElement
  <2> QED BY <1>9, <2>1, <2>4
<1>12. \A s \in HeldIn(k.messages) : k.messages[s].turn = posted[id][s + 1]
  <2> SUFFICES ASSUME NEW s \in HeldIn(k.messages) PROVE k.messages[s].turn = posted[id][s + 1]
    OBVIOUS
  <2>1. CASE s = slot
    <3>1. k.messages[slot] = [turn |-> turn, unread |-> TRUE]
      BY <1>7, <1>9
    <3>2. turn = posted[id][slot + 1]
      BY <1>2, <1>3, <1>4, <1>5
    <3> QED BY <2>1, <3>1, <3>2
  <2>2. CASE s # slot
    <3>1. s \in HeldIn(board.messages) /\ k.messages[s] = board.messages[s]
      BY <1>7, <1>9, <2>2 DEF HeldIn
    <3>2. s \in Held(id) /\ TurnAt(id, s) = posted[id][s + 1]
      BY <1>1, <1>6, <1>7, <3>1, HeldByMessages DEF BoardsKept, BoardOK
    <3> QED BY <1>6, <3>1, <3>2 DEF TurnAt
  <2> QED BY <2>1, <2>2
<1>13. Age(board.received, board.unread) < Age(k.received, k.unread)
  BY <1>7, <1>9 DEF Age
<1>14. Becomes(id, k)
  BY <1>6, <1>7, <1>9, <1>10, <1>11, <1>12, <1>13 DEF Becomes
<1>15. /\ DOMAIN boards' = DOMAIN boards /\ boards'[id] = k
       /\ \A b \in DOMAIN boards \ {id} : boards'[b] = boards[b] /\ Held(b)' = Held(b)
       /\ Held(id)' = HeldIn(k.messages) /\ Held(id) = HeldIn(board.messages)
  BY <1>6, <1>14, BecomesHold, HeldByMessages
<1>16. SameSlots
  BY <1>6, <1>9, <1>15 DEF SameSlots
<1>17. ~IsHeld(id, slot) /\ \A b, s : IsHeld(b, s)' <=> IsHeld(b, s) \/ (b = id /\ s = slot)
  BY <1>7, <1>9, <1>15 DEF IsHeld
<1> QED BY <1>3, <1>4, <1>10, <1>14, <1>16, <1>17

LEMMA KeptKeeps ==
  ASSUME IInv, MessageReceive, NEW e, e = Content, "block" \in repaired,
         e.id \in DOMAIN boards, boards[e.id].messages[e.slot] = NoMessage
  PROVE  IInv'
<1>1. /\ Srv!IInv /\ Posted /\ Meant /\ BoardsKept /\ BoardsGrow /\ InOnePlace /\ BoardsCome
      /\ IconsFollow /\ BoxesHold
  BY DEF IInv
<1>2. /\ e \in Passing /\ e.type = "Message" /\ e.id \in Boards /\ e.slot \in Nat
      /\ \A b, s : e \in SentAs(b, s) <=> b = e.id /\ s = e.slot
      /\ UNCHANGED <<repaired, icons, boxes, stopped, posted, changed, refused, serverTurn>>
  BY MessageSaid
<1>3. PICK k : k = Kept(boards[e.id], e.slot, e.turn)
  OBVIOUS
<1>4. /\ Becomes(e.id, k) /\ SameSlots
      /\ Srv!HandleEvent(Asks(Nothing), Events(<<BoardUpdate(e.id, k)>>))
      /\ ~IsHeld(e.id, e.slot)
      /\ \A b, s : IsHeld(b, s)' <=> IsHeld(b, s) \/ (b = e.id /\ s = e.slot)
  BY <1>3, KeptBecomes
<1>5. PICK u : u = BoardUpdate(e.id, k)
  OBVIOUS
<1>6. PICK cs : cs = <<u>>
  OBVIOUS
<1>7. u.type = "BoardUpdate" /\ u \in Replies /\ cs \in Seq(Replies) /\ ToSet(cs) = {u}
  <2>1. e.id \in Boards /\ k.received \in Nat /\ k.unread \in Nat
    BY <1>2, <1>4 DEF Becomes, BoardType
  <2>2. u \in [type : {"BoardUpdate"}, id : Boards, unread : Counts, messages : Counts]
    BY <1>5, <2>1 DEF BoardUpdate, Counts
  <2>3. u.type = "BoardUpdate" /\ u \in Replies
    BY <2>2 DEF Replies
  <2> QED BY <1>6, <2>3, OneSent
<1>8. Srv!HandleEvent(Asks(Nothing), Events(cs)) /\ Nothing \in Seq(Requests) /\ ToSet(Nothing) = {}
  BY <1>4, <1>5, <1>6, NothingSent
<1>9. /\ Srv!IInv'
      /\ Waiting # <<>> /\ e = Head(Waiting)
      /\ ToSet(Wire') = ToSet(Wire) \cup ToSet(Nothing)
      /\ Arriving' = Arriving
      /\ Waiting' = Tail(Waiting) \o cs
      /\ ToSet(Waiting) = {e} \cup ToSet(Tail(Waiting))
      /\ Passing' \subseteq Passing \cup ToSet(cs)
      /\ Passing \subseteq Passing' \cup {e}
  BY <1>1, <1>7, <1>8, EventEffect
<1>10. Waiting \in Seq(Replies) /\ Arriving \in Seq(Replies) /\ Tail(Waiting) \in Seq(Replies)
  <2>1. Waiting \in Seq(Replies) /\ Arriving \in Seq(Replies)
    BY <1>1, Queues
  <2> QED BY <1>9, <2>1, HeadAndTail
<1>11. Grows /\ Posted' /\ BoardsKept' /\ CountsAgree'
  BY <1>2, <1>4, BecomesKeeps
<1>12. Meant'
  <2>1. ReplyMeant(u)'
    BY <1>7 DEF ReplyMeant
  <2> QED BY <1>1, <1>7, <1>8, <1>9, <1>11, <2>1, StillMeant
<1>13. BoardsGrow'
  <2>1. \A y \in Replies : <<u, y>> \in Growing /\ <<y, u>> \in Growing
    BY <1>7 DEF Growing
  <2>2. Chain(Waiting', Arriving', Growing)
    BY <1>1, <1>7, <1>9, <1>10, <2>1, ChainHandled DEF BoardsGrow
  <2> QED BY <1>1, <1>4, <1>7, <1>9, <2>2 DEF BoardsGrow, SameSlots
<1>14. InOnePlace'
  <2>1. ASSUME NEW b \in Boards, NEW s \in Nat PROVE Whereabouts(b, s)' = Whereabouts(b, s)
    <3>1. /\ Whereabouts(b, s) \in Nat /\ Whereabouts(b, s)' \in Nat
          /\ Whereabouts(b, s)' + (IF Content \in SentAs(b, s) THEN 1 ELSE 0)
                                + (IF IsHeld(b, s) THEN 1 ELSE 0)
               = Whereabouts(b, s) + Count(Nothing, AskedAs(b, s)) + (IF IsHeld(b, s)' THEN 1 ELSE 0)
      <4>1. /\ cs \in Seq(Replies) /\ \A r \in ToSet(cs) : r.type # "Message"
            /\ Srv!IInv /\ Nothing \in Seq(Requests)
            /\ Srv!HandleEvent(Asks(Nothing), Events(cs))
        BY <1>1, <1>7, <1>8
      <4> QED BY ONLY <4>1, EventWhereabouts
    <3>2. Count(Nothing, AskedAs(b, s)) = 0
      BY NothingSent
    <3>3. CASE b = e.id /\ s = e.slot
      BY <1>2, <1>4, <3>1, <3>2, <3>3
    <3>4. CASE ~(b = e.id /\ s = e.slot)
      BY <1>2, <1>4, <3>1, <3>2, <3>4
    <3> QED BY <3>3, <3>4
  <2> QED BY <1>1, <1>2, <1>4, <2>1, StillInPlace
<1>15. BoardsCome'
  <2>1. \A b : ~Brings(e, b)
    BY <1>2 DEF Brings
  <2> QED BY <1>1, <1>2, <1>4, <1>8, <1>9, <2>1, StillCome
<1>16. IconsFollow'
  <2>1. Ordered(Tail(Waiting), Newer)
    BY <1>1, <1>9, <1>10, TailOrdered DEF IconsFollow
  <2>2. \A r : r.type = "BoardUpdate" => (r \in ToSet(Tail(Waiting)) <=> r \in ToSet(Waiting))
    BY <1>2, <1>9
  <2>3. Waiting' = Tail(Waiting) \o <<BoardUpdate(e.id, k)>> /\ icons' = icons
    BY <1>2, <1>5, <1>6, <1>9
  <2>4. PICK rest \in Seq(Replies) : rest = Tail(Waiting)
    BY <1>10
  <2> QED BY <1>4, <2>1, <2>2, <2>3, <2>4, BecomesFollow
<1>17. BoxesHold'
  BY <1>1, <1>2, <1>4 DEF BoxesHold
<1> QED BY <1>9, <1>11, <1>12, <1>13, <1>14, <1>15, <1>16, <1>17 DEF IInv

LEMMA MessageReceiveKeeps == IInv /\ MessageReceive => IInv'
<1> SUFFICES ASSUME IInv, MessageReceive PROVE IInv'
  OBVIOUS
<1>1. PICK e : e = Content
  OBVIOUS
<1> QED BY <1>1, DroppedKeeps, KeptKeeps
-----------------------------------------------------------------------------
(* The player                                                              *)

(* Nothing is said and no board changes.                                   *)
LEMMA Untouched ==
  ASSUME IInv, UNCHANGED netVars,
         UNCHANGED <<repaired, boards, icons, posted, changed, refused, serverTurn>>
  PROVE  /\ Srv!IInv' /\ Posted' /\ Meant' /\ BoardsKept' /\ CountsAgree' /\ BoardsGrow'
         /\ InOnePlace' /\ BoardsCome' /\ IconsFollow'
<1>1. /\ Srv!IInv /\ Posted /\ Meant /\ BoardsKept /\ CountsAgree /\ BoardsGrow /\ InOnePlace
      /\ BoardsCome /\ IconsFollow
  BY DEF IInv
<1>2. UNCHANGED <<conncb, seq, cbs, toServer, fromServer, events, pushed>>
  BY DEF netVars
<1>3. Srv!IInv'
  <2>1. SP!IInv /\ UNCHANGED SP!serverVars
    BY <1>1, <1>2, SameInvariant DEF SP!serverVars
  <2>2. SP!IInv'
    BY <2>1, ServerAssumptions, SP!StepInv
  <2> QED BY <2>2, SameInvariantNext
<1>4. Wire' = Wire /\ Arriving' = Arriving /\ Waiting' = Waiting /\ Passing' = Passing
  BY <1>2 DEF Wire, Arriving, Waiting, Passing
<1>5. Posted' /\ CountsAgree'
  BY <1>1, StillHeld DEF Posted
<1>6. BoardsKept'
  <2>1. \A b : BoardOK(b) => BoardOK(b)'
    BY DEF BoardOK, Described, Held, TurnAt
  <2> QED BY <1>1, <2>1 DEF BoardsKept
<1>7. Meant'
  BY <1>1, <1>4, StillGrows, StillMeant
<1>8. BoardsGrow'
  BY <1>1, <1>4, StillGrow DEF BoardsGrow
<1>9. InOnePlace'
  <2>1. \A b, s : Whereabouts(b, s)' = Whereabouts(b, s)
    BY <1>4, StillHeld DEF Whereabouts, AskedAs, SentAs
  <2> QED BY <1>1, <2>1, StillInPlace DEF SameSlots
<1>10. BoardsCome'
  BY <1>1, <1>4, StillCome DEF SameSlots
<1>11. IconsFollow'
  BY <1>1, <1>4, StillFollow DEF IconsFollow
<1> QED BY <1>3, <1>5, <1>6, <1>7, <1>8, <1>9, <1>10, <1>11

(* A message is read.                                                      *)
LEMMA ReadBecomes ==
  ASSUME IInv, NEW b, NEW s, IsHeld(b, s), boards[b].messages[s].unread,
         NEW k, k = ReadBoard(boards[b], s), boards' = [boards EXCEPT ![b] = k]
  PROVE  /\ Becomes(b, k) /\ SameSlots
         /\ \A c, t : IsHeld(c, t)' <=> IsHeld(c, t)
<1>1. /\ Posted /\ BoardsKept /\ CountsAgree /\ b \in DOMAIN boards /\ s \in Held(b)
  BY DEF IInv, IsHeld
<1>2. PICK board : board = boards[b]
  OBVIOUS
<1>3. /\ board \in BoardType /\ board.received \in Nat /\ board.unread \in Nat
      /\ DOMAIN board.messages = Slots(board.nalloced)
      /\ board.messages \in [Slots(board.nalloced) -> MessageType]
      /\ s \in HeldIn(board.messages)
      /\ board.messages[s].unread /\ k = ReadBoard(board, s) /\ b \in Boards
      /\ board.nalloced \in Nat
  BY <1>1, <1>2, BoardFields, HeldByMessages
<1>4. s \in UnreadIn(board.messages)
  BY <1>3 DEF UnreadIn
<1>5. board.unread # 0 /\ board.unread = Cardinality(UnreadIn(board.messages))
      /\ board.received = Cardinality(HeldIn(board.messages))
      /\ IsFiniteSet(UnreadIn(board.messages))
  <2>1. IsFiniteSet(UnreadIn(board.messages))
    BY <1>1, <1>2, HeldFinite
  <2>2. /\ board.unread = Cardinality(UnreadIn(board.messages))
        /\ board.received = Cardinality(HeldIn(board.messages))
    BY <1>1, <1>2, HeldByMessages DEF CountsAgree
  <2> QED BY <1>4, <2>1, <2>2, FS_EmptySet
<1>6. board.messages[s].turn # 0
  <2>1. board.messages[s].turn = posted[b][s + 1]
    BY <1>1, <1>2 DEF BoardsKept, BoardOK, TurnAt
  <2>2. SlotKnown(b, s)
    <3>2. Described(b, boards[b].nalloced, boards[b].updated)
      BY <1>1 DEF BoardsKept, BoardOK
    <3>3. Len(posted[b]) \in Nat /\ boards[b].nalloced <= Len(posted[b])
      BY <1>1, <1>3, <3>2, PostedFields DEF Described
    <3>4. s \in Slots(boards[b].nalloced)
      BY <1>2, <1>3 DEF HeldIn
    <3> QED BY <1>1, <1>2, <1>3, <3>3, <3>4 DEF SlotKnown, Slots
  <2>3. s + 1 \in 1..Len(posted[b])
    <3>1. Len(posted[b]) \in Nat
      BY <1>1, <1>3, PostedFields
    <3> QED BY <2>2, <3>1 DEF SlotKnown, Slots
  <2> QED BY <1>1, <1>3, <2>1, <2>3, PostedFields
<1>7. /\ k \in BoardType
      /\ k.nmessages = board.nmessages /\ k.nalloced = board.nalloced
      /\ k.updated = board.updated
      /\ k.unread = board.unread - 1 /\ k.received = board.received
      /\ DOMAIN k.messages = Slots(board.nalloced)
      /\ \A t \in Slots(board.nalloced) : k.messages[t].turn = board.messages[t].turn
      /\ HeldIn(k.messages) = HeldIn(board.messages)
      /\ UnreadIn(k.messages) = UnreadIn(board.messages) \ {s}
  <2>1. /\ ReadBoard(board, s) \in BoardType
        /\ ReadBoard(board, s).nmessages = board.nmessages
        /\ ReadBoard(board, s).nalloced = board.nalloced
        /\ ReadBoard(board, s).updated = board.updated
        /\ ReadBoard(board, s).unread = board.unread - 1
        /\ ReadBoard(board, s).received = board.received
        /\ DOMAIN ReadBoard(board, s).messages = Slots(board.nalloced)
        /\ \A t \in Slots(board.nalloced) :
             ReadBoard(board, s).messages[t].turn = board.messages[t].turn
        /\ HeldIn(ReadBoard(board, s).messages) = HeldIn(board.messages)
        /\ UnreadIn(ReadBoard(board, s).messages) = UnreadIn(board.messages) \ {s}
    BY <1>3, <1>5, <1>6, ReadIs
  <2> QED BY ONLY <1>3, <2>1
<1>8. /\ k.received = Cardinality(HeldIn(k.messages))
      /\ k.unread = Cardinality(UnreadIn(k.messages))
  BY <1>4, <1>5, <1>7, FS_RemoveElement
<1>9. \A t \in HeldIn(k.messages) : k.messages[t].turn = posted[b][t + 1]
  <2> SUFFICES ASSUME NEW t \in HeldIn(k.messages) PROVE k.messages[t].turn = posted[b][t + 1]
    OBVIOUS
  <2>1. t \in HeldIn(board.messages) /\ k.messages[t].turn = board.messages[t].turn
    BY <1>3, <1>7 DEF HeldIn
  <2>2. t \in Held(b) /\ TurnAt(b, t) = posted[b][t + 1]
    BY <1>1, <1>2, <2>1, HeldByMessages DEF BoardsKept, BoardOK
  <2> QED BY <1>2, <2>1, <2>2 DEF TurnAt
<1>10. Age(board.received, board.unread) < Age(k.received, k.unread)
  BY <1>3, <1>7 DEF Age
<1>11. Becomes(b, k)
  BY <1>1, <1>2, <1>7, <1>8, <1>9, <1>10 DEF Becomes
<1>12. /\ DOMAIN boards' = DOMAIN boards /\ boards'[b] = k
       /\ \A c \in DOMAIN boards \ {b} : boards'[c] = boards[c] /\ Held(c)' = Held(c)
       /\ Held(b)' = HeldIn(k.messages) /\ Held(b) = HeldIn(board.messages)
  BY <1>2, <1>11, BecomesHold, HeldByMessages
<1>13. SameSlots
  BY <1>2, <1>7, <1>12 DEF SameSlots
<1>14. \A c, t : IsHeld(c, t)' <=> IsHeld(c, t)
  BY <1>7, <1>12 DEF IsHeld
<1> QED BY <1>11, <1>13, <1>14

LEMMA MessageReadKeeps ==
  ASSUME IInv, NEW p, IsHeld(p.board, p.slot), MessageRead(p),
         UNCHANGED <<conncb, seq, cbs, toServer, fromServer, pushed, repaired, icons, peerVars>>
  PROVE  /\ Srv!IInv' /\ Posted' /\ Meant' /\ BoardsKept' /\ CountsAgree' /\ BoardsGrow'
         /\ InOnePlace' /\ BoardsCome' /\ IconsFollow'
         /\ \A b, s : IsHeld(b, s)' <=> IsHeld(b, s)
<1>1. /\ Srv!IInv /\ Posted /\ Meant /\ BoardsKept /\ CountsAgree /\ BoardsGrow /\ InOnePlace
      /\ BoardsCome /\ IconsFollow
  BY DEF IInv
<1>2. UNCHANGED <<repaired, icons, posted, changed, refused, serverTurn>>
  BY DEF peerVars
<1>3. PICK b : b = p.board
  OBVIOUS
<1>4. PICK s : s = p.slot
  OBVIOUS
<1>5. CASE ~boards[b].messages[s].unread
  <2>1. UNCHANGED <<boards, events>>
    BY <1>3, <1>4, <1>5 DEF MessageRead
  <2>2. UNCHANGED netVars
    BY <2>1 DEF netVars
  <2>3. \A c, t : IsHeld(c, t)' <=> IsHeld(c, t)
    BY <2>1, StillHeld
  <2> QED BY <1>2, <2>1, <2>2, <2>3, Untouched
<1>6. CASE boards[b].messages[s].unread
  <2>1. PICK k : k = ReadBoard(boards[b], s)
    OBVIOUS
  <2>2. /\ boards' = [boards EXCEPT ![b] = k]
        /\ events' = Append(events, Event(BoardUpdate(b, k)))
    BY <1>3, <1>4, <1>6, <2>1 DEF MessageRead, ReadBoard
  <2>3. /\ Becomes(b, k) /\ SameSlots
        /\ \A c, t : IsHeld(c, t)' <=> IsHeld(c, t)
    BY <1>3, <1>4, <1>6, <2>1, <2>2, ReadBecomes
  <2>4. PICK u : u = BoardUpdate(b, k)
    OBVIOUS
  <2>5. u.type = "BoardUpdate" /\ u \in Replies
    <3>1. b \in Boards /\ k.received \in Nat /\ k.unread \in Nat
      BY <1>1, <2>3, BoardFields DEF Becomes, BoardType
    <3>2. u \in [type : {"BoardUpdate"}, id : Boards, unread : Counts, messages : Counts]
      BY <2>4, <3>1 DEF BoardUpdate, Counts
    <3> QED BY <3>2 DEF Replies
  <2>6. Srv!IInv' /\ Wire' = Wire /\ Arriving' = Arriving /\ Waiting' = Waiting \o <<u>>
    BY <1>1, <2>2, <2>4, <2>5, OwnEventMoves
  <2>7. Waiting \in Seq(Replies) /\ Arriving \in Seq(Replies)
    BY <1>1, Queues
  <2>8. /\ ToSet(Waiting') = ToSet(Waiting) \cup {u} /\ Waiting' = Append(Waiting, u)
        /\ \A X : u \notin X => Count(Waiting', X) = Count(Waiting, X)
    <3>1. Append(Waiting, u) = Waiting \o <<u>> /\ ToSet(Append(Waiting, u)) = ToSet(Waiting) \cup {u}
      BY <2>5, <2>7, AppendContents
    <3>2. PICK cs : cs = <<u>>
      OBVIOUS
    <3>3. cs \in Seq(Replies) /\ \A X : Count(cs, X) = IF u \in X THEN 1 ELSE 0
      BY <2>5, <3>2, OneSent
    <3>4. \A X : Count(Waiting \o cs, X) = Count(Waiting, X) + Count(cs, X)
      BY <2>7, <3>3, ConcatCount DEF Count
    <3>5. \A X : Count(Waiting, X) \in Nat
      BY <2>7, PlacesFinite DEF Count
    <3>6. \A X : u \notin X => Count(Waiting \o cs, X) = Count(Waiting, X)
      BY <3>3, <3>4, <3>5
    <3> QED BY <2>6, <3>1, <3>2, <3>6
  <2>9. Passing' = Passing \cup {u}
    BY <2>6, <2>8 DEF Passing
  <2>10. Grows /\ Posted' /\ BoardsKept' /\ CountsAgree'
    BY <1>2, <2>3, BecomesKeeps
  <2>11. Meant'
    <3>1. ReplyMeant(u)'
      BY <2>5 DEF ReplyMeant
    <3> QED BY <1>1, <2>6, <2>9, <2>10, <3>1, StillMeant
  <2>12. BoardsGrow'
    <3>1. \A y \in Replies : <<u, y>> \in Growing /\ <<y, u>> \in Growing
      BY <2>5 DEF Growing
    <3>2. /\ Ordered(Waiting, Growing) /\ Ordered(Arriving, Growing)
          /\ Across(Waiting, Arriving, Growing)
      BY <1>1 DEF BoardsGrow, Chain
    <3>3. ToSet(Waiting) \subseteq Replies /\ ToSet(Arriving) \subseteq Replies
      BY <2>7, Contents
    <3>4. Ordered(Append(Waiting, u), Growing)
      BY <2>5, <2>7, <3>1, <3>2, <3>3, AppendOrdered
    <3>5. Across(Waiting', Arriving, Growing)
      BY <2>8, <3>1, <3>2, <3>3 DEF Across
    <3>6. Chain(Waiting', Arriving', Growing)
      BY <2>6, <2>8, <3>2, <3>4, <3>5 DEF Chain
    <3> QED BY <1>1, <2>3, <2>5, <2>9, <3>6 DEF BoardsGrow, SameSlots
  <2>13. InOnePlace'
    <3>1. ASSUME NEW c \in Boards, NEW t \in Nat PROVE Whereabouts(c, t)' = Whereabouts(c, t)
      <4>1. u \notin SentAs(c, t)
        BY <2>5 DEF SentAs
      <4>2. Count(Waiting', SentAs(c, t)) = Count(Waiting, SentAs(c, t))
        BY <2>8, <4>1
      <4> QED BY <2>3, <2>6, <4>2 DEF Whereabouts, Count, AskedAs, SentAs
    <3> QED BY <1>1, <1>2, <2>3, <3>1, StillInPlace
  <2>14. BoardsCome'
    BY <1>1, <1>2, <2>3, <2>6, <2>9, StillCome
  <2>15. IconsFollow'
    <3>1. Ordered(Waiting, Newer) /\ icons' = icons
      BY <1>1, <1>2 DEF IconsFollow
    <3>2. Waiting' = Waiting \o <<BoardUpdate(b, k)>>
      BY <2>4, <2>6
    <3>3. PICK rest \in Seq(Replies) : rest = Waiting
      BY <2>7
    <3> QED BY <2>3, <3>1, <3>2, <3>3, BecomesFollow
  <2> QED BY <2>3, <2>6, <2>10, <2>11, <2>12, <2>13, <2>14, <2>15
<1> QED BY <1>5, <1>6

(* The least and the largest of some numbers.                              *)
LEMMA LeastAndLargest ==
  ASSUME NEW S \in SUBSET Nat, IsFiniteSet(S), S # {}
  PROVE  /\ Min(S) \in S /\ \A y \in S : Min(S) <= y
         /\ Max(S) \in S /\ \A y \in S : y <= Max(S)
<1> DEFINE a == Ascending(S)
           c == Cardinality(S)
<1>1. /\ a \in Seq(S) /\ Len(a) = c /\ c \in Nat /\ ToSet(a) = S
      /\ \A n, m \in 1..c : n < m => a[n] < a[m]
  BY AscendingIs
<1>2. c # 0
  BY FS_EmptySet
<1> HIDE DEF a, c
<1>3. /\ a[1] \in S /\ a[c] \in S
      /\ \A y \in S : \E n \in 1..c : y = a[n]
  <2>1. S = {a[n] : n \in 1..c}
    BY <1>1, Contents
  <2>2. 1 \in 1..c /\ c \in 1..c
    BY <1>1, <1>2
  <2> QED BY <2>1, <2>2
<1>4. ASSUME NEW y \in S PROVE a[1] <= y /\ y <= a[c]
  <2>1. PICK n \in 1..c : y = a[n]
    BY <1>3
  <2>2. 1 \in 1..c /\ c \in 1..c /\ a[1] \in Nat /\ a[c] \in Nat /\ y \in Nat
    <3>1. c \in Nat /\ c # 0
      BY <1>1, <1>2
    <3>2. 1 \in 1..c /\ c \in 1..c
      BY ONLY <3>1
    <3>3. S \subseteq Nat
      OBVIOUS
    <3> QED BY <1>3, <3>2, <3>3
  <2>3. n = 1 \/ 1 < n
    BY <2>1
  <2>4. n = c \/ n < c
    BY <1>1, <2>1
  <2>5. a[1] <= y
    BY <1>1, <2>1, <2>2, <2>3
  <2>6. y <= a[c]
    BY <1>1, <2>1, <2>2, <2>4
  <2> QED BY <2>5, <2>6
<1>5. Min(S) \in S /\ \A y \in S : Min(S) <= y
  BY <1>3, <1>4 DEF Min
<1>6. Max(S) \in S /\ \A y \in S : y <= Max(S)
  BY <1>3, <1>4 DEF Max
<1> QED BY <1>5, <1>6

(* What is held of a board was posted in the order of its slots.           *)
LEMMA TurnsHeld ==
  ASSUME IInv, NEW b \in DOMAIN boards
  PROVE  /\ Held(b) \in SUBSET Nat /\ IsFiniteSet(Held(b)) /\ b \in Boards
         /\ \A s \in Held(b) : TurnAt(b, s) \in Nat \ {0}
         /\ \A s, t \in Held(b) : s <= t => TurnAt(b, s) <= TurnAt(b, t)
<1>1. Posted /\ BoardsKept /\ BoardOK(b)
  BY DEF IInv, BoardsKept
<1>2. /\ b \in Boards /\ Held(b) \subseteq Slots(boards[b].nalloced) /\ Held(b) \subseteq Nat
      /\ boards[b].nalloced \in Nat
  BY <1>1, BoardFields
<1>3. IsFiniteSet(Held(b))
  BY <1>1, HeldFinite, HeldByMessages
<1>4. Len(posted[b]) \in Nat /\ boards[b].nalloced <= Len(posted[b])
  BY <1>1, <1>2, PostedFields DEF BoardOK, Described
<1>5. ASSUME NEW s \in Held(b)
      PROVE  s + 1 \in 1..Len(posted[b]) /\ TurnAt(b, s) = posted[b][s + 1]
  BY <1>1, <1>2, <1>4 DEF BoardOK, Slots
<1>6. \A s \in Held(b) : TurnAt(b, s) \in Nat \ {0}
  BY <1>1, <1>2, <1>5, PostedFields
<1>7. ASSUME NEW s \in Held(b), NEW t \in Held(b), s <= t PROVE TurnAt(b, s) <= TurnAt(b, t)
  <2>1. /\ s + 1 \in 1..Len(posted[b]) /\ t + 1 \in 1..Len(posted[b]) /\ s + 1 <= t + 1
    BY <1>2, <1>5, <1>7
  <2>2. \A i, j \in 1..Len(posted[b]) : i <= j => posted[b][i] <= posted[b][j]
    BY <1>1, <1>2 DEF Posted
  <2> QED BY <1>5, <2>1, <2>2
<1> QED BY <1>2, <1>3, <1>6, <1>7

(* The player is brought to a message that is held, or nowhere.            *)
AtMessage(p) == p = NoPlace \/ (p \in [board : Boards, slot : Nat] /\ IsHeld(p.board, p.slot))

LEMMA ThereHolds ==
  ASSUME IInv, NEW b \in DOMAIN boards
  PROVE  /\ \A s \in Held(b) : AtMessage(Place(b, s))
         /\ \A s : AtMessage(There(b, s))
<1>1. Held(b) \subseteq Nat /\ b \in Boards
  BY TurnsHeld
<1>2. ASSUME NEW s \in Held(b) PROVE AtMessage(Place(b, s))
  <2>1. Place(b, s).board = b /\ Place(b, s).slot = s /\ Place(b, s) \in [board : Boards, slot : Nat]
    BY <1>1 DEF Place
  <2> QED BY <2>1 DEF AtMessage, IsHeld
<1> QED BY <1>2 DEF There, AtMessage

LEMMA LastTurnHeld ==
  ASSUME IInv, NEW b \in DOMAIN boards, Held(b) # {}
  PROVE  /\ Max(Held(b)) \in LastTurnSlots(b)
         /\ LastTurnSlots(b) \in SUBSET Nat /\ IsFiniteSet(LastTurnSlots(b))
         /\ LastTurnSlots(b) # {} /\ LastTurnSlots(b) \subseteq Held(b)
<1>1. /\ Held(b) \in SUBSET Nat /\ IsFiniteSet(Held(b))
      /\ \A s, t \in Held(b) : s <= t => TurnAt(b, s) <= TurnAt(b, t)
  BY TurnsHeld
<1>2. Max(Held(b)) \in Held(b) /\ \A y \in Held(b) : y <= Max(Held(b))
  BY <1>1, LeastAndLargest
<1>3. Max(Held(b)) \in LastTurnSlots(b)
  BY <1>1, <1>2 DEF LastTurnSlots
<1>4. LastTurnSlots(b) \subseteq Held(b)
  BY DEF LastTurnSlots
<1> QED BY <1>1, <1>3, <1>4, FS_Subset

LEMMA PlayerAtMessage ==
  ASSUME IInv, NEW b \in DOMAIN boards
  PROVE  /\ AtMessage(UnreadGet(b)) /\ AtMessage(TurnGet(b))
         /\ \A button \in Buttons : \A p :
              p.board = b /\ p.slot \in Held(b) => AtMessage(Target(button, p))
<1>1. /\ Held(b) \in SUBSET Nat /\ IsFiniteSet(Held(b))
  BY TurnsHeld
<1>2. AtMessage(UnreadGet(b))
  <2> DEFINE unread == {s \in Held(b) : boards[b].messages[s].unread}
  <2>1. unread \in SUBSET Nat /\ IsFiniteSet(unread)
    BY <1>1, FS_Subset
  <2>2. unread # {} => Min(unread) \in unread
    <3> HIDE DEF unread
    <3> QED BY <2>1, LeastAndLargest
  <2>3. UnreadGet(b) = IF unread = {} THEN NoPlace ELSE Place(b, Min(unread))
    BY DEF UnreadGet
  <2>4. CASE unread = {}
    BY <2>3, <2>4 DEF AtMessage
  <2>5. CASE unread # {}
    BY <2>2, <2>3, <2>5, ThereHolds
  <2> QED BY <2>4, <2>5
<1>3. AtMessage(TurnGet(b))
  <2>1. CASE 0 \notin Held(b)
    BY <2>1 DEF TurnGet, AtMessage
  <2>2. CASE 0 \in Held(b)
    <3>1. /\ LastTurnSlots(b) \in SUBSET Nat /\ IsFiniteSet(LastTurnSlots(b))
          /\ LastTurnSlots(b) # {} /\ LastTurnSlots(b) \subseteq Held(b)
      BY <2>2, LastTurnHeld
    <3>2. Min(LastTurnSlots(b)) \in Held(b)
      BY <3>1, LeastAndLargest
    <3> QED BY <2>2, <3>2, ThereHolds DEF TurnGet
  <2> QED BY <2>1, <2>2
<1>4. ASSUME NEW button \in Buttons, NEW p, p.board = b, p.slot \in Held(b)
      PROVE  AtMessage(Target(button, p))
  <2>1. button \in {"next", "prev", "next turn", "prev turn"}
    BY DEF Buttons
  <2>2. CASE button = "next"
    <3>1. Target(button, p) = NextOf(b, p.slot)
      BY <1>4, <2>2 DEF Target
    <3> QED BY <1>4, <3>1, ThereHolds DEF NextOf
  <2>3. CASE button = "prev"
    <3>1. Target(button, p) = PrevOf(b, p.slot)
      BY <1>4, <2>3 DEF Target
    <3> QED BY <1>4, <3>1, ThereHolds DEF PrevOf
  <2>4. CASE button = "next turn"
    <3>1. Target(button, p) = There(b, NextTurnSlot(b, p.slot))
      BY <1>4, <2>4 DEF Target
    <3> QED BY <3>1, ThereHolds
  <2>5. CASE button = "prev turn"
    <3>1. Target(button, p) = There(b, PrevTurnSlot(b, p.slot))
      BY <1>4, <2>5 DEF Target
    <3> QED BY <3>1, ThereHolds
  <2> QED BY <2>1, <2>2, <2>3, <2>4, <2>5
<1> QED BY <1>2, <1>3, <1>4

(* A message is shown in a box, or nothing happens.                        *)
LEMMA MessageSetKeeps ==
  ASSUME IInv, NEW all \in Seq(Spots), NEW i \in 1..Len(all), NEW p, AtMessage(p),
         \A j \in 1..Len(all) : all[j] # NoPlace => IsHeld(all[j].board, all[j].slot),
         MessageSet(all, i, p),
         UNCHANGED <<conncb, seq, cbs, toServer, fromServer, pushed, repaired, icons, peerVars>>
  PROVE  IInv'
<1>1. CASE p = NoPlace
  <2>1. boxes' = all /\ UNCHANGED <<boards, events>>
    BY <1>1 DEF MessageSet
  <2>2. UNCHANGED netVars /\ UNCHANGED <<icons, posted, changed, refused, serverTurn>>
    BY <2>1 DEF netVars, peerVars
  <2>3. /\ Srv!IInv' /\ Posted' /\ Meant' /\ BoardsKept' /\ CountsAgree' /\ BoardsGrow'
        /\ InOnePlace' /\ BoardsCome' /\ IconsFollow'
    BY <2>1, <2>2, Untouched
  <2>4. BoxesHold'
    BY <2>1, StillHeld DEF BoxesHold
  <2> QED BY <2>3, <2>4 DEF IInv
<1>2. CASE p # NoPlace
  <2>1. boxes' = [all EXCEPT ![i] = p] /\ MessageRead(p)
        /\ p \in Spots /\ IsHeld(p.board, p.slot)
    BY <1>2 DEF MessageSet, AtMessage, Spots
  <2>2. /\ Srv!IInv' /\ Posted' /\ Meant' /\ BoardsKept' /\ CountsAgree' /\ BoardsGrow'
        /\ InOnePlace' /\ BoardsCome' /\ IconsFollow'
        /\ \A b, s : IsHeld(b, s)' <=> IsHeld(b, s)
    BY <2>1, MessageReadKeeps
  <2>3. /\ boxes' \in Seq(Spots) /\ Len(boxes') = Len(all)
        /\ \A j \in 1..Len(all) : boxes'[j] = IF j = i THEN p ELSE all[j]
    <3>1. all \in [1..Len(all) -> Spots] /\ Len(all) \in Nat
      OBVIOUS
    <3>2. boxes' \in [1..Len(all) -> Spots]
          /\ \A j \in 1..Len(all) : boxes'[j] = IF j = i THEN p ELSE all[j]
      BY <2>1, <3>1
    <3> HIDE DEF Spots
    <3> QED BY <3>1, <3>2
  <2>4. BoxesHold'
    BY <2>1, <2>2, <2>3 DEF BoxesHold
  <2> QED BY <2>2, <2>4 DEF IInv
<1> QED BY <1>1, <1>2

(* A new box, empty at first.                                              *)
LEMMA NewBox ==
  ASSUME BoxesHold
  PROVE  LET all == Append(boxes, NoPlace)
         IN  /\ all \in Seq(Spots) /\ Len(boxes) + 1 \in 1..Len(all)
             /\ \A j \in 1..Len(all) : all[j] # NoPlace => IsHeld(all[j].board, all[j].slot)
<1> DEFINE all == Append(boxes, NoPlace)
<1>1. boxes \in Seq(Spots) /\ NoPlace \in Spots
  BY DEF BoxesHold, Spots
<1>2. /\ all \in Seq(Spots) /\ Len(all) = Len(boxes) + 1 /\ Len(boxes) \in Nat
      /\ \A j \in 1..Len(boxes) : all[j] = boxes[j]
      /\ all[Len(boxes) + 1] = NoPlace
  BY <1>1, AppendProperties
<1> HIDE DEF all
<1>3. \A j \in 1..Len(all) : j \in 1..Len(boxes) \/ j = Len(boxes) + 1
  BY <1>2
<1>4. \A j \in 1..Len(all) : all[j] # NoPlace => IsHeld(all[j].board, all[j].slot)
  BY <1>2, <1>3 DEF BoxesHold
<1> QED BY <1>2, <1>4 DEF all

LEMMA OpenBoardKeeps ==
  ASSUME IInv, NEW b, OpenBoard(b)
  PROVE  IInv'
<1>1. /\ UNCHANGED <<conncb, seq, cbs, toServer, fromServer, pushed, repaired, icons, peerVars>>
      /\ b \in DOMAIN icons
  BY DEF OpenBoard, PlayerActs
<1>2. b \in DOMAIN boards
  BY <1>1 DEF IInv, IconsFollow
<1>3. PICK p : p = IF UnreadGet(b) # NoPlace THEN UnreadGet(b) ELSE TurnGet(b)
  OBVIOUS
<1>4. AtMessage(p)
  BY <1>2, <1>3, PlayerAtMessage
<1>5. IF p = NoPlace THEN UNCHANGED <<boards, events, boxes>>
      ELSE MessageSet(Append(boxes, NoPlace), Len(boxes) + 1, p)
  BY <1>3 DEF OpenBoard
<1>6. CASE p = NoPlace
  <2>1. UNCHANGED netVars /\ UNCHANGED <<icons, posted, changed, refused, serverTurn, repaired>>
        /\ UNCHANGED <<boards, boxes>>
    BY <1>1, <1>5, <1>6 DEF netVars, peerVars
  <2>2. /\ Srv!IInv' /\ Posted' /\ Meant' /\ BoardsKept' /\ CountsAgree' /\ BoardsGrow'
        /\ InOnePlace' /\ BoardsCome' /\ IconsFollow'
    BY <2>1, Untouched
  <2>3. BoxesHold'
    BY <2>1, StillHeld DEF BoxesHold, IInv
  <2> QED BY <2>2, <2>3 DEF IInv
<1>7. CASE p # NoPlace
  <2>1. PICK all : all = Append(boxes, NoPlace)
    OBVIOUS
  <2>2. /\ all \in Seq(Spots) /\ Len(boxes) + 1 \in 1..Len(all)
        /\ \A j \in 1..Len(all) : all[j] # NoPlace => IsHeld(all[j].board, all[j].slot)
    BY <2>1, NewBox DEF IInv
  <2>3. MessageSet(all, Len(boxes) + 1, p)
    BY <1>5, <1>7, <2>1
  <2> QED BY <1>1, <1>4, <2>2, <2>3, MessageSetKeeps
<1> QED BY <1>6, <1>7

LEMMA ClickKeeps ==
  ASSUME IInv, NEW i, NEW button \in Buttons, NEW spawn, Click(i, button, spawn)
  PROVE  IInv'
<1>1. /\ UNCHANGED <<conncb, seq, cbs, toServer, fromServer, pushed, repaired, icons, peerVars>>
      /\ i \in 1..Len(boxes) /\ BoxesHold
  BY DEF Click, PlayerActs, IInv
<1>2. CASE boxes[i] = NoPlace \/ Follows(button, boxes[i])
  <2>1. UNCHANGED <<boards, events, boxes>>
    BY <1>2 DEF Click
  <2>2. UNCHANGED netVars /\ UNCHANGED <<icons, posted, changed, refused, serverTurn, repaired>>
    BY <1>1, <2>1 DEF netVars, peerVars
  <2>3. /\ Srv!IInv' /\ Posted' /\ Meant' /\ BoardsKept' /\ CountsAgree' /\ BoardsGrow'
        /\ InOnePlace' /\ BoardsCome' /\ IconsFollow'
    BY <2>1, <2>2, Untouched
  <2>4. BoxesHold'
    BY <1>1, <2>1, StillHeld DEF BoxesHold
  <2> QED BY <2>3, <2>4 DEF IInv
<1>3. CASE ~(boxes[i] = NoPlace \/ Follows(button, boxes[i]))
  <2>1. PICK at : at = boxes[i]
    OBVIOUS
  <2>2. IsHeld(at.board, at.slot)
    BY <1>1, <1>3, <2>1 DEF BoxesHold
  <2>3. AtMessage(Target(button, at))
    BY <2>2, PlayerAtMessage DEF IsHeld
  <2>4. PICK p : p = Target(button, at)
    OBVIOUS
  <2>5. MessageSet(IF spawn THEN Append(boxes, NoPlace) ELSE boxes,
                   IF spawn THEN Len(boxes) + 1 ELSE i, p)
    BY <1>3, <2>1, <2>4 DEF Click
  <2>6. CASE spawn
    <3>1. PICK all : all = Append(boxes, NoPlace)
      OBVIOUS
    <3>2. /\ all \in Seq(Spots) /\ Len(boxes) + 1 \in 1..Len(all)
          /\ \A j \in 1..Len(all) : all[j] # NoPlace => IsHeld(all[j].board, all[j].slot)
      BY <1>1, <3>1, NewBox
    <3>3. MessageSet(all, Len(boxes) + 1, p)
      BY <2>5, <2>6, <3>1
    <3> QED BY <1>1, <2>3, <2>4, <3>2, <3>3, MessageSetKeeps
  <2>7. CASE ~spawn
    <3>1. MessageSet(boxes, i, p)
      BY <2>5, <2>7
    <3>2. PICK all \in Seq(Spots) : all = boxes
      BY <1>1 DEF BoxesHold
    <3> QED BY <1>1, <2>3, <2>4, <3>1, <3>2, MessageSetKeeps DEF BoxesHold
  <2> QED BY <2>6, <2>7
<1> QED BY <1>2, <1>3

-----------------------------------------------------------------------------
(* The server's answers                                                    *)

(* The frame in front of an answer of several is not heard.                *)
LEMMA GroupedIs ==
  ASSUME NEW answer \in Seq(Replies)
  PROVE  /\ Grouped(answer) \in Seq(Replies) \ {<<>>}
         /\ ToSet(answer) \subseteq ToSet(Grouped(answer))
         /\ ToSet(Grouped(answer)) \subseteq ToSet(answer) \cup Unheard
         /\ \A X : X \cap Unheard = {} => Count(Grouped(answer), X) = Count(answer, X)
<1> DEFINE t == <<Msg("SEQUENCE")>>
<1>1. Msg("SEQUENCE") \in Replies /\ Msg("SEQUENCE") \in Unheard
  BY PlainSaid DEF PlainTypes, Unheard
<1>2. /\ t \in Seq(Replies) /\ ToSet(t) \subseteq Unheard /\ ToSet(t) # {}
      /\ \A X : X \cap Unheard = {} => Count(t, X) = 0
  <2>1. PICK r \in Replies : r = Msg("SEQUENCE") /\ r \in Unheard
    BY <1>1
  <2>2. /\ <<r>> \in Seq(Replies) /\ ToSet(<<r>>) = {r}
        /\ \A X : Count(<<r>>, X) = IF r \in X THEN 1 ELSE 0
    BY ONLY <2>1, OneSent
  <2>3. t = <<r>>
    BY ONLY <2>1
  <2> QED BY ONLY <2>1, <2>2, <2>3
<1>4. CASE Len(answer) = 1
  <2>1. Grouped(answer) = answer
    BY <1>4 DEF Grouped
  <2>2. answer # <<>>
    <3>1. ToSet(answer) = {answer[i] : i \in 1..Len(answer)} /\ 1 \in 1..Len(answer)
      BY <1>4, Contents
    <3> QED BY <3>1, EmptyContents
  <2> QED BY <2>1, <2>2
<1>5. CASE Len(answer) # 1
  <2>1. Grouped(answer) = t \o answer
    BY <1>5 DEF Grouped
  <2> HIDE DEF t
  <2>2. t \o answer \in Seq(Replies) /\ ToSet(t \o answer) = ToSet(t) \cup ToSet(answer)
    BY <1>2, ConcatContents
  <2>3. t \o answer # <<>>
    <3>1. ToSet(t \o answer) # {}
      BY <1>2, <2>2
    <3> QED BY <3>1, EmptyContents
  <2>4. ASSUME NEW X, X \cap Unheard = {}
        PROVE  Count(t \o answer, X) = Count(answer, X)
    <3>1. Count(t \o answer, X) = Count(t, X) + Count(answer, X)
      BY <1>2, ConcatCount DEF Count
    <3>2. Count(answer, X) \in Nat
      BY PlacesFinite DEF Count
    <3> QED BY <1>2, <2>4, <3>1, <3>2
  <2> QED BY <1>2, <2>1, <2>2, <2>3, <2>4
<1> QED BY <1>4, <1>5

(* What was asked for is on its way back.                                  *)
LEMMA AnswerWhereabouts ==
  ASSUME Srv!IInv, NEW answer \in Seq(Replies), Srv!Answer(Grouped(answer)), boards' = boards,
         NEW b, NEW s
  PROVE  /\ {Whereabouts(b, s), Whereabouts(b, s)', Count(answer, SentAs(b, s))} \subseteq Nat
         /\ Whereabouts(b, s)' + (IF Question \in AskedAs(b, s) THEN 1 ELSE 0)
              = Whereabouts(b, s) + Count(answer, SentAs(b, s))
<1> DEFINE A == AskedAs(b, s)
           X == SentAs(b, s)
<1>1. PICK bodies \in Seq(Replies) \ {<<>>} : bodies = Grouped(answer)
  BY GroupedIs
<1>2. Srv!Answer(bodies)
  BY <1>1
<1>3. /\ Count(Wire', A) + (IF Question \in A THEN 1 ELSE 0) = Count(Wire, A)
      /\ {Count(Wire, A), Count(Wire', A)} \subseteq Nat
  BY <1>2, AnswerCounts
<1>4. /\ Count(Arriving', X) = Count(Arriving, X) + Count(bodies, X)
      /\ Waiting' = Waiting
      /\ {Count(Arriving, X), Count(Waiting, X), Count(Arriving', X), Count(bodies, X)} \subseteq Nat
  BY <1>2, AnswerCounts
<1>5. Count(bodies, X) = Count(answer, X)
  BY <1>1, SaidAbout, GroupedIs
<1>6. Whereabouts(b, s) = Count(Wire, A) + Count(Arriving, X) + Count(Waiting, X)
                            + (IF IsHeld(b, s) THEN 1 ELSE 0)
  BY DEF Whereabouts, Count
<1>7. Whereabouts(b, s)' = Count(Wire', A) + Count(Arriving', X) + Count(Waiting', X)
                             + (IF IsHeld(b, s)' THEN 1 ELSE 0)
  BY DEF Whereabouts, Count, AskedAs, SentAs
<1>8. IsHeld(b, s)' <=> IsHeld(b, s)
  BY StillHeld
<1> HIDE DEF A, X
<1> PICK i \in Nat : i = IF Question \in A THEN 1 ELSE 0
  OBVIOUS
<1> PICK h \in Nat : h = IF IsHeld(b, s) THEN 1 ELSE 0
  OBVIOUS
<1> PICK w1 \in Nat : w1 = Count(Wire, A)
  BY <1>3
<1> PICK w2 \in Nat : w2 = Count(Wire', A)
  BY <1>3
<1> PICK a1 \in Nat : a1 = Count(Arriving, X)
  BY <1>4
<1> PICK a2 \in Nat : a2 = Count(Arriving', X)
  BY <1>4
<1> PICK e \in Nat : e = Count(Waiting, X)
  BY <1>4
<1> PICK n \in Nat : n = Count(answer, X)
  BY <1>4, <1>5
<1>9. w2 + i = w1 /\ a2 = a1 + n
  BY <1>3, <1>4, <1>5
<1>10. PICK u, v : u = Whereabouts(b, s) /\ v = Whereabouts(b, s)'
  OBVIOUS
<1>11. u = w1 + a1 + e + h /\ v = w2 + a2 + e + h
  BY <1>4, <1>6, <1>7, <1>8, <1>10
<1>12. u \in Nat /\ v \in Nat /\ v + i = u + n
  BY ONLY <1>9, <1>11, i \in Nat, h \in Nat, w1 \in Nat, w2 \in Nat, a1 \in Nat, a2 \in Nat,
          e \in Nat, n \in Nat
<1>13. /\ Whereabouts(b, s) \in Nat /\ Whereabouts(b, s)' \in Nat /\ Count(answer, X) \in Nat
       /\ Whereabouts(b, s)' + i = Whereabouts(b, s) + Count(answer, X)
  BY <1>10, <1>12
<1> QED BY <1>13 DEF A, X

(* An answer describes the boards as they are, sends a message once to     *)
(* each request for it, or refuses it, and says what is asked for.         *)
LEMMA AnswerKeeps ==
  ASSUME IInv, NEW answer \in Seq(Replies), Srv!Answer(Grouped(answer)),
         UNCHANGED <<repaired, boards, playerVars, posted, changed, serverTurn>>,
         refused \subseteq refused',
         \A r \in ToSet(answer) : /\ r.type \in {"ListOfBoards", "Board", "Message", "Fail"}
                                  /\ ReplyMeant(r)
                                  /\ r.type = "Board" => r.nmessages = Len(posted[r.id]),
         \A b \in Boards : AskedFor(Question, b) => \E r \in ToSet(answer) : Brings(r, b),
         \A b \in Boards, s \in Nat :
           \/ Count(answer, SentAs(b, s)) = IF Question \in AskedAs(b, s) THEN 1 ELSE 0
           \/ /\ Count(answer, SentAs(b, s)) = 0
              /\ Question \in AskedAs(b, s) /\ Place(b, s) \in refused'
  PROVE  IInv'
<1>1. /\ Srv!IInv /\ Posted /\ Meant /\ BoardsKept /\ CountsAgree /\ BoardsGrow
      /\ InOnePlace /\ BoardsCome /\ IconsFollow /\ BoxesHold
  BY DEF IInv
<1>2. UNCHANGED <<repaired, boards, icons, boxes, stopped, posted, changed, serverTurn>>
  BY DEF playerVars
<1>3. PICK bodies \in Seq(Replies) \ {<<>>} :
        /\ bodies = Grouped(answer)
        /\ ToSet(answer) \subseteq ToSet(bodies)
        /\ ToSet(bodies) \subseteq ToSet(answer) \cup Unheard
  BY GroupedIs
<1>4. /\ Srv!IInv'
      /\ Question \in Requests /\ Question \in ToSet(Wire)
      /\ ToSet(Wire) = ToSet(Wire') \cup {Question}
      /\ Arriving' = Arriving \o bodies
      /\ ToSet(Arriving') = ToSet(Arriving) \cup ToSet(bodies)
      /\ Waiting' = Waiting
      /\ Passing' = Passing \cup ToSet(bodies)
  <2>1. Srv!Answer(bodies)
    BY <1>3
  <2> QED BY <1>1, <2>1, AnswerEffect
<1>5. /\ Posted' /\ BoardsKept' /\ CountsAgree' /\ BoxesHold' /\ Grows
  BY <1>1, <1>2, StillKept, StillGrows
<1>6. \A r \in ToSet(bodies) :
        /\ r \in Replies
        /\ r.type \in {"ListOfBoards", "Board", "Message", "Fail", "SEQUENCE"}
        /\ ReplyMeant(r)
        /\ r.type = "Board" => r.nmessages = Len(posted[r.id])
  <2>1. \A r \in Unheard : r.type = "SEQUENCE" /\ ReplyMeant(r)
    BY PlainSaid DEF ReplyMeant
  <2>2. ToSet(bodies) \subseteq Replies
    BY Contents
  <2> QED BY <1>3, <2>1, <2>2
<1>7. Meant'
  <2>1. \A r \in ToSet(bodies) : ReplyMeant(r)'
    BY <1>5, <1>6, MeantGrows
  <2> QED BY <1>1, <1>4, <1>5, <1>6, <2>1, StillMeant
<1>8. Arriving \in Seq(Replies) /\ Waiting \in Seq(Replies)
      /\ ToSet(Arriving) \subseteq Replies /\ ToSet(Waiting) \subseteq Replies
  BY <1>1, Queues, Contents
<1>9. BoardsGrow'
  <2>1. \A x \in Passing, y \in ToSet(bodies) :
          x.type = "Board" /\ y.type = "Board" /\ x.id = y.id => x.nmessages <= y.nmessages
    <3> SUFFICES ASSUME NEW x \in Passing, NEW y \in ToSet(bodies),
                        x.type = "Board", y.type = "Board", x.id = y.id
                 PROVE  x.nmessages <= y.nmessages
      OBVIOUS
    <3>1. x.nmessages \in 0..Len(posted[x.id])
      BY <1>1 DEF Meant, ReplyMeant, Described
    <3>2. y.nmessages = Len(posted[x.id])
      BY <1>6
    <3> QED BY <3>1, <3>2
  <2>2. \A x \in ToSet(bodies), y \in ToSet(bodies) :
          x.type = "Board" /\ y.type = "Board" /\ x.id = y.id => x.nmessages <= y.nmessages
    <3> SUFFICES ASSUME NEW x \in ToSet(bodies), NEW y \in ToSet(bodies),
                        x.type = "Board", y.type = "Board", x.id = y.id
                 PROVE  x.nmessages <= y.nmessages
      OBVIOUS
    <3>1. x.nmessages = Len(posted[x.id]) /\ y.nmessages = Len(posted[x.id])
      BY <1>6
    <3>2. x.nmessages \in 0..Len(posted[x.id])
      BY <1>6 DEF ReplyMeant, Described
    <3> QED BY <3>1, <3>2
  <2>3. /\ \A x \in ToSet(Waiting) \cup ToSet(Arriving), y \in ToSet(bodies) : <<x, y>> \in Growing
        /\ \A x, y \in ToSet(bodies) : <<x, y>> \in Growing
    BY <1>6, <1>8, <2>1, <2>2 DEF Growing, Passing
  <2>4. Ordered(bodies, Growing)
    <3>1. \A i \in 1..Len(bodies) : bodies[i] \in ToSet(bodies)
      BY Contents
    <3> QED BY <2>3, <3>1 DEF Ordered
  <2>5. Chain(Waiting, Arriving \o bodies, Growing)
    <3>1. Chain(Waiting, Arriving, Growing)
      BY <1>1 DEF BoardsGrow
    <3> QED BY <1>8, <2>3, <2>4, <3>1, ChainAnswered
  <2>6. Chain(Waiting', Arriving', Growing)
    BY <1>4, <2>5
  <2>7. ASSUME NEW r \in Passing', r.type = "Board", r.id \in DOMAIN boards
        PROVE  boards[r.id].nalloced <= r.nmessages
    <3>1. CASE r \in Passing
      BY <1>1, <2>7, <3>1 DEF BoardsGrow
    <3>2. CASE r \in ToSet(bodies)
      <4>1. Described(r.id, boards[r.id].nalloced, boards[r.id].updated)
        BY <1>1, <2>7 DEF BoardsKept, BoardOK
      <4>2. boards[r.id].nalloced \in 0..Len(posted[r.id])
        BY <4>1 DEF Described
      <4>3. r.nmessages = Len(posted[r.id]) /\ r.nmessages \in 0..Len(posted[r.id])
        BY <1>6, <2>7, <3>2 DEF ReplyMeant, Described
      <4> QED BY <4>2, <4>3
    <3> QED BY <1>4, <3>1, <3>2
  <2> QED BY <1>2, <2>6, <2>7 DEF BoardsGrow
<1>10. InOnePlace'
  <2>1. CASE "list" \notin repaired
    BY <1>2, <2>1 DEF InOnePlace, Both
  <2>2. CASE "list" \in repaired
    <3>1. ASSUME NEW b \in Boards, NEW s \in Nat
          PROVE  \/ Whereabouts(b, s)' = Whereabouts(b, s)
                 \/ Place(b, s) \in refused' /\ Whereabouts(b, s)' <= 1
      <4>1. /\ {Whereabouts(b, s), Whereabouts(b, s)', Count(answer, SentAs(b, s))} \subseteq Nat
            /\ Whereabouts(b, s)' + (IF Question \in AskedAs(b, s) THEN 1 ELSE 0)
                 = Whereabouts(b, s) + Count(answer, SentAs(b, s))
        BY <1>1, <1>2, AnswerWhereabouts
      <4>2. Whereabouts(b, s) <= 1
        BY <1>1, <2>2 DEF InOnePlace
      <4>3. CASE Count(answer, SentAs(b, s)) = IF Question \in AskedAs(b, s) THEN 1 ELSE 0
        BY <4>1, <4>3
      <4>4. CASE /\ Count(answer, SentAs(b, s)) = 0
                 /\ Question \in AskedAs(b, s) /\ Place(b, s) \in refused'
        BY <4>1, <4>2, <4>4
      <4> QED BY <4>3, <4>4
    <3> QED BY <1>1, <1>2, <3>1, StillInPlace DEF SameSlots
  <2> QED BY <2>1, <2>2
<1>11. BoardsCome'
  <2>1. \A b \in Boards, r \in ToSet(Wire) : AskedFor(r, b) =>
          (\E q \in ToSet(Wire') : AskedFor(q, b)) \/ (\E q \in Passing' : Brings(q, b))
    BY <1>3, <1>4
  <2>2. \A b \in Boards, r \in Passing : Brings(r, b) => \E q \in Passing' : Brings(q, b)
    BY <1>4
  <2> QED BY <1>1, <1>2, <2>1, <2>2, StillCome DEF SameSlots
<1>12. IconsFollow'
  BY <1>1, <1>2, <1>4, StillFollow DEF IconsFollow
<1> QED BY <1>4, <1>5, <1>7, <1>9, <1>10, <1>11, <1>12 DEF IInv

LEMMA AnswerBoardIDsKeeps ==
  ASSUME IInv, AnswerBoardIDs,
         UNCHANGED <<repaired, boards, playerVars, posted, changed, serverTurn>>
  PROVE  IInv'
<1>1. PICK r : r = ListOfBoards(Ascending(Boards), changed)
  OBVIOUS
<1>2. r \in Replies /\ r.type = "ListOfBoards" /\ r.ids = Ascending(Boards) /\ r.updated = changed
  <2>1. Ascending(Boards) \in Seq(Boards)
    BY BoundAssumption, AscendingIs
  <2>2. changed \in [Boards -> Nat]
    <3>1. changed \in [Boards -> 1..serverTurn] /\ serverTurn \in Nat
      BY DEF IInv, Posted
    <3> QED BY <3>1
  <2> QED BY <1>1, <2>1, <2>2 DEF ListOfBoards, Replies
<1>3. PICK answer \in Seq(Replies) : answer = <<r>>
  BY <1>2, OneSent
<1>4. /\ ToSet(answer) = {r} /\ Len(answer) = 1
      /\ \A X : Count(answer, X) = IF r \in X THEN 1 ELSE 0
  BY <1>3, OneSent
<1>5. Srv!Answer(Grouped(answer)) /\ refused' = refused
  BY <1>1, <1>3, <1>4 DEF AnswerBoardIDs, Grouped
<1>6. Question.type = "GetBoardIDs"
  BY DEF AnswerBoardIDs, Asked, Question
<1>7. \A q \in ToSet(answer) : /\ q.type \in {"ListOfBoards", "Board", "Message", "Fail"}
                               /\ ReplyMeant(q)
                               /\ q.type = "Board" => q.nmessages = Len(posted[q.id])
  BY <1>2, <1>4 DEF ReplyMeant
<1>8. \A b \in Boards : \E q \in ToSet(answer) : Brings(q, b)
  BY <1>2, <1>4 DEF Brings
<1>9. \A b \in Boards, s \in Nat :
        Count(answer, SentAs(b, s)) = IF Question \in AskedAs(b, s) THEN 1 ELSE 0
  BY <1>2, <1>4, <1>6 DEF SentAs, AskedAs
<1> QED BY <1>5, <1>7, <1>8, <1>9, AnswerKeeps

LEMMA AnswerBoardsKeeps ==
  ASSUME IInv, AnswerBoards,
         UNCHANGED <<repaired, boards, playerVars, posted, changed, serverTurn>>
  PROVE  IInv'
<1> DEFINE ids == Question.ids
           frame(b) == BoardFrame(b, Len(posted[b]), changed[b])
<1>1. Question \in Requests /\ Question.type = "GetBoards" /\ ids \in Seq(Boards)
  <2>1. toServer # <<>> /\ Question.type = "GetBoards"
    BY DEF AnswerBoards, Asked, Question
  <2>2. Question = Head(Wire) /\ Wire # <<>> /\ Wire \in Seq(Requests)
    BY <2>1, Queues DEF IInv
  <2> QED BY <2>1, <2>2, HeadAndTail, SaidToServer
<1>2. ASSUME NEW b \in Boards
      PROVE  /\ frame(b) \in Replies /\ frame(b).type = "Board" /\ frame(b).id = b
             /\ frame(b).nmessages = Len(posted[b]) /\ ReplyMeant(frame(b))
  <2>1. Len(posted[b]) \in Nat /\ changed[b] \in Nat \ {0}
    BY PostedFields DEF IInv
  <2>2. Described(b, Len(posted[b]), changed[b])
    BY <2>1 DEF Described
  <2>3. /\ frame(b) \in Replies /\ frame(b).type = "Board" /\ frame(b).id = b
        /\ frame(b).nmessages = Len(posted[b]) /\ frame(b).updated = changed[b]
    BY <2>1 DEF BoardFrame, Replies, Counts
  <2> QED BY <2>2, <2>3 DEF ReplyMeant
<1>3. /\ Len(ids) \in Nat /\ \A i \in 1..Len(ids) : ids[i] \in Boards
      /\ ToSet(ids) = {ids[i] : i \in 1..Len(ids)}
  BY <1>1, Contents
<1>4. Srv!Answer(Grouped([i \in 1..Len(ids) |-> frame(ids[i])])) /\ refused' = refused
  BY DEF AnswerBoards
<1> HIDE DEF frame, ids
<1>5. PICK answer \in Seq(Replies) :
        /\ answer = [i \in 1..Len(ids) |-> frame(ids[i])]
        /\ ToSet(answer) = {frame(b) : b \in ToSet(ids)}
  <2> DEFINE answer == [i \in 1..Len(ids) |-> frame(ids[i])]
  <2>1. answer \in [1..Len(ids) -> Replies]
    BY <1>2, <1>3
  <2>2. answer \in Seq(Replies) /\ Len(answer) = Len(ids)
    <3>1. Len(ids) \in Nat
      BY <1>3
    <3> HIDE DEF answer
    <3> QED BY ONLY <2>1, <3>1, FunctionIsSequence
  <2>3. ToSet(answer) = {answer[i] : i \in 1..Len(ids)}
    <3> HIDE DEF answer
    <3> QED BY <2>2, Contents
  <2>4. ToSet(answer) = {frame(b) : b \in ToSet(ids)}
    BY <1>3, <2>3
  <2> QED BY <2>2, <2>4
<1>6. Srv!Answer(Grouped(answer))
  BY <1>4, <1>5
<1>7. \A q \in ToSet(answer) : /\ q.type = "Board"
                               /\ ReplyMeant(q)
                               /\ q.nmessages = Len(posted[q.id])
  BY <1>2, <1>3, <1>5
<1>8. \A b \in Boards : AskedFor(Question, b) => \E q \in ToSet(answer) : Brings(q, b)
  <2> SUFFICES ASSUME NEW b \in Boards, AskedFor(Question, b)
               PROVE  \E q \in ToSet(answer) : Brings(q, b)
    OBVIOUS
  <2>1. b \in ToSet(ids)
    BY <1>1 DEF AskedFor, ids
  <2>2. frame(b) \in ToSet(answer) /\ Brings(frame(b), b)
    BY <1>2, <1>5, <2>1 DEF Brings
  <2> QED BY <2>2
<1>9. \A b \in Boards, s \in Nat :
        Count(answer, SentAs(b, s)) = IF Question \in AskedAs(b, s) THEN 1 ELSE 0
  <2> SUFFICES ASSUME NEW b \in Boards, NEW s \in Nat
               PROVE  Count(answer, SentAs(b, s)) = IF Question \in AskedAs(b, s) THEN 1 ELSE 0
    OBVIOUS
  <2>1. ToSet(answer) \cap SentAs(b, s) = {} /\ Question \notin AskedAs(b, s)
    BY <1>1, <1>7, SaidAbout
  <2>2. Count(answer, SentAs(b, s)) = 0
    BY <2>1, PlacesFinite DEF Count
  <2> QED BY <2>1, <2>2
<1> QED BY <1>4, <1>6, <1>7, <1>8, <1>9, AnswerKeeps

LEMMA AnswerMessagesKeeps ==
  ASSUME IInv, AnswerMessages,
         UNCHANGED <<repaired, boards, playerVars, posted, changed, serverTurn>>
  PROVE  IInv'
<1> PICK b : b = Question.id
  OBVIOUS
<1> PICK slots : slots = Question.slots
  OBVIOUS
<1>1. /\ Question \in Requests /\ Question.type = "MessageGet" /\ RequestMeant(Question)
      /\ b \in Boards /\ slots \in Seq(Int)
  <2>1. toServer # <<>> /\ Question.type = "MessageGet"
    BY DEF AnswerMessages, Asked, Question
  <2>2. Question = Head(Wire) /\ Wire # <<>> /\ Wire \in Seq(Requests)
    BY <2>1, Queues DEF IInv
  <2>3. Question \in Requests /\ Question \in ToSet(Wire)
    BY <2>2, HeadAndTail
  <2>4. RequestMeant(Question)
    BY <2>3 DEF IInv, Meant
  <2> QED BY <2>1, <2>3, <2>4, SaidToServer
<1>2. PICK no \in SUBSET ToSet(slots) :
        /\ refused' = refused \cup {Place(b, s) : s \in no}
        /\ Srv!Answer(Grouped([i \in 1..Len(slots) |->
             IF slots[i] \in no THEN Msg("Fail")
             ELSE Message(b, slots[i], posted[b][slots[i] + 1])]))
  BY DEF AnswerMessages
<1>3. /\ Len(slots) \in Nat /\ \A i \in 1..Len(slots) : slots[i] \in Int /\ slots[i] \in ToSet(slots)
      /\ ToSet(slots) = {slots[i] : i \in 1..Len(slots)}
      /\ \A i, j \in 1..Len(slots) : slots[i] = slots[j] => i = j
      /\ \A s \in ToSet(slots) : SlotKnown(b, s)
  <2>1. /\ Len(slots) \in Nat /\ \A i \in 1..Len(slots) : slots[i] \in Int
        /\ ToSet(slots) = {slots[i] : i \in 1..Len(slots)}
    BY <1>1, Contents
  <2>2. /\ \A i, j \in 1..Len(slots) : slots[i] = slots[j] => i = j
        /\ \A s \in ToSet(slots) : SlotKnown(b, s)
    BY <1>1 DEF RequestMeant
  <2> QED BY <2>1, <2>2
<1> DEFINE frame(s) == IF s \in no THEN Msg("Fail") ELSE Message(b, s, posted[b][s + 1])
<1>4. ASSUME NEW s \in ToSet(slots)
      PROVE  /\ frame(s) \in Replies /\ ReplyMeant(frame(s))
             /\ s \in no => frame(s).type = "Fail"
             /\ s \notin no => /\ frame(s).type = "Message"
                               /\ frame(s).id = b /\ frame(s).slot = s
  <2>1. CASE s \in no
    <3>1. frame(s) = Msg("Fail") /\ Msg("Fail") \in Replies /\ Msg("Fail").type = "Fail"
      BY <2>1, PlainSaid DEF PlainTypes
    <3> HIDE DEF frame
    <3> QED BY <2>1, <3>1 DEF ReplyMeant
  <2>2. CASE s \notin no
    <3>1. SlotKnown(b, s) /\ s \in Int
      BY <1>3
    <3>2. s + 1 \in 1..Len(posted[b])
      <4>1. s \in Slots(Len(posted[b])) /\ Len(posted[b]) \in Nat
        BY <1>1, <3>1, PostedFields DEF SlotKnown, IInv
      <4> QED BY <4>1 DEF Slots
    <3>3. PICK turn \in Nat : turn = posted[b][s + 1]
      BY <1>1, <3>2, PostedFields DEF IInv
    <3>4. frame(s) = Message(b, s, turn)
      BY <2>2, <3>3
    <3> HIDE DEF frame
    <3>5. /\ frame(s) \in Replies /\ frame(s).type = "Message"
          /\ frame(s).id = b /\ frame(s).slot = s /\ frame(s).turn = turn
      BY <1>1, <3>1, <3>4 DEF Message, Replies, Counts
    <3> QED BY <2>2, <3>1, <3>3, <3>5 DEF ReplyMeant
  <2> QED BY <2>1, <2>2
<1> HIDE DEF frame
<1>5. PICK answer \in Seq(Replies) :
        /\ answer = [i \in 1..Len(slots) |-> frame(slots[i])]
        /\ Len(answer) = Len(slots)
        /\ ToSet(answer) = {frame(s) : s \in ToSet(slots)}
  <2> DEFINE answer == [i \in 1..Len(slots) |-> frame(slots[i])]
  <2>1. answer \in [1..Len(slots) -> Replies]
    BY <1>3, <1>4
  <2>2. answer \in Seq(Replies) /\ Len(answer) = Len(slots)
    <3>1. Len(slots) \in Nat
      BY <1>3
    <3> HIDE DEF answer
    <3> QED BY ONLY <2>1, <3>1, FunctionIsSequence
  <2>3. ToSet(answer) = {answer[i] : i \in 1..Len(slots)}
    <3> HIDE DEF answer
    <3> QED BY <2>2, Contents
  <2>4. ToSet(answer) = {frame(s) : s \in ToSet(slots)}
    BY <1>3, <2>3
  <2> QED BY <2>2, <2>4
<1>6. Srv!Answer(Grouped(answer)) /\ refused \subseteq refused'
  BY <1>2, <1>5 DEF frame
<1>7. \A q \in ToSet(answer) : q.type \in {"Message", "Fail"} /\ ReplyMeant(q)
  BY <1>4, <1>5
<1>8. \A c \in Boards : ~AskedFor(Question, c)
  BY <1>1 DEF AskedFor
<1>9. ASSUME NEW c \in Boards, NEW s \in Nat
      PROVE  \/ Count(answer, SentAs(c, s)) = IF Question \in AskedAs(c, s) THEN 1 ELSE 0
             \/ /\ Count(answer, SentAs(c, s)) = 0
                /\ Question \in AskedAs(c, s) /\ Place(c, s) \in refused'
  <2>1. Question \in AskedAs(c, s) <=> c = b /\ s \in ToSet(slots)
    BY <1>1 DEF AskedAs
  <2>2. \A t \in ToSet(slots) : frame(t) \in SentAs(c, s) <=> c = b /\ t = s /\ s \notin no
    BY <1>4 DEF SentAs
  <2>3. Places(answer, SentAs(c, s))
          = {i \in 1..Len(slots) : c = b /\ slots[i] = s /\ s \notin no}
    BY <1>3, <1>5, <2>2 DEF Places
  <2>4. CASE c = b /\ s \in ToSet(slots) /\ s \notin no
    <3>1. PICK i \in 1..Len(slots) : slots[i] = s
      BY <1>3, <2>4
    <3>2. Places(answer, SentAs(c, s)) = {i}
      BY <1>3, <2>3, <2>4, <3>1
    <3>3. Count(answer, SentAs(c, s)) = 1
      BY <3>2, FS_Singleton DEF Count
    <3> QED BY <2>1, <2>4, <3>3
  <2>5. CASE ~(c = b /\ s \in ToSet(slots) /\ s \notin no)
    <3>1. Places(answer, SentAs(c, s)) = {}
      BY <1>3, <2>3, <2>5
    <3>2. Count(answer, SentAs(c, s)) = 0
      BY <3>1, FS_EmptySet DEF Count
    <3>3. c = b /\ s \in no => Place(c, s) \in refused'
      BY <1>2
    <3> QED BY <2>1, <2>5, <3>2, <3>3
  <2> QED BY <2>4, <2>5
<1> QED BY <1>6, <1>7, <1>8, <1>9, AnswerKeeps

LEMMA AnswerIsKept == IInv /\ Answer => IInv'
BY AnswerBoardIDsKeeps, AnswerBoardsKeeps, AnswerMessagesKeeps DEF Answer

-----------------------------------------------------------------------------
(* A turn ends                                                             *)

(* What the server posts comes after what it has, and is of a later turn.  *)
LEMMA TurnPosts ==
  ASSUME Posted, NEW about \in [Boards -> 0..2],
         serverTurn' = serverTurn + 1,
         posted' = [b \in Boards |-> posted[b] \o [i \in 1..about[b] |-> serverTurn]],
         changed' = [b \in Boards |-> IF about[b] > 0 THEN serverTurn' ELSE changed[b]]
  PROVE  /\ Posted'
         /\ \A b \in Boards :
              /\ {Len(posted[b]), Len(posted'[b]), changed[b], changed'[b]} \subseteq Nat
              /\ Len(posted[b]) <= Len(posted'[b])
              /\ \A i \in 1..Len(posted[b]) : posted'[b][i] = posted[b][i]
              /\ changed[b] <= changed'[b]
              /\ changed'[b] = changed[b] => Len(posted'[b]) = Len(posted[b])
<1>1. ASSUME NEW b \in Boards
      PROVE  /\ posted'[b] \in Seq(1..serverTurn')
             /\ Len(posted'[b]) \in Nat /\ Len(posted[b]) \in Nat
             /\ Len(posted'[b]) = Len(posted[b]) + about[b]
             /\ \A i \in 1..Len(posted[b]) : posted'[b][i] = posted[b][i]
             /\ \A i \in 1..Len(posted'[b]) : i \in 1..Len(posted[b]) \/ posted'[b][i] = serverTurn
             /\ changed[b] \in 1..serverTurn /\ changed'[b] \in 1..serverTurn'
             /\ changed'[b] = IF about[b] > 0 THEN serverTurn + 1 ELSE changed[b]
             /\ about[b] \in Nat
  <2>1. /\ serverTurn \in Nat /\ changed[b] \in 1..serverTurn
        /\ posted[b] \in Seq(1..serverTurn) /\ about[b] \in 0..2
    BY DEF Posted
  <2>2. serverTurn \in 1..serverTurn' /\ 1..serverTurn \subseteq 1..serverTurn'
    BY <2>1
  <2>3. PICK s \in Seq(1..serverTurn') : s = posted[b]
    BY <2>1, <2>2, SeqMonotonic
  <2>4. PICK t \in Seq(1..serverTurn') :
          /\ t = [i \in 1..about[b] |-> serverTurn]
          /\ Len(t) = about[b]
          /\ \A i \in 1..about[b] : t[i] = serverTurn
    <3> DEFINE t == [i \in 1..about[b] |-> serverTurn]
    <3>1. t \in [1..about[b] -> 1..serverTurn'] /\ about[b] \in Nat
      BY <2>1, <2>2
    <3>2. \A i \in 1..about[b] : t[i] = serverTurn
      OBVIOUS
    <3>3. t \in Seq(1..serverTurn') /\ Len(t) = about[b]
      <4> HIDE DEF t
      <4> QED BY ONLY <3>1, FunctionIsSequence
    <3> QED BY <3>2, <3>3
  <2>5. posted'[b] = s \o t
    BY <2>3, <2>4
  <2>6. /\ s \o t \in Seq(1..serverTurn')
        /\ Len(s \o t) = Len(s) + Len(t)
        /\ \A i \in 1..(Len(s) + Len(t)) : (s \o t)[i] = IF i <= Len(s) THEN s[i] ELSE t[i - Len(s)]
    BY ConcatProperties
  <2>7. Len(s) \in Nat /\ Len(t) \in Nat
    BY <2>6
  <2>8. \A i \in 1..Len(s) : (s \o t)[i] = s[i]
    BY <2>6, <2>7
  <2>9. \A i \in 1..(Len(s) + Len(t)) : i \in 1..Len(s) \/ (s \o t)[i] = serverTurn
    <3> SUFFICES ASSUME NEW i \in 1..(Len(s) + Len(t)), i \notin 1..Len(s)
                 PROVE  (s \o t)[i] = serverTurn
      OBVIOUS
    <3>1. ~(i <= Len(s)) /\ i - Len(s) \in 1..Len(t)
      BY <2>7
    <3> QED BY <2>4, <2>6, <3>1
  <2>10. changed'[b] = IF about[b] > 0 THEN serverTurn + 1 ELSE changed[b]
    OBVIOUS
  <2>11. changed'[b] \in 1..serverTurn'
    BY <2>1, <2>2, <2>10
  <2>12. /\ posted'[b] \in Seq(1..serverTurn')
         /\ Len(posted'[b]) \in Nat /\ Len(posted[b]) \in Nat
         /\ Len(posted'[b]) = Len(posted[b]) + about[b]
    BY <2>3, <2>4, <2>5, <2>6, <2>7
  <2>13. /\ \A i \in 1..Len(posted[b]) : posted'[b][i] = posted[b][i]
         /\ \A i \in 1..Len(posted'[b]) : i \in 1..Len(posted[b]) \/ posted'[b][i] = serverTurn
    BY <2>3, <2>5, <2>6, <2>8, <2>9
  <2>14. about[b] \in Nat
    BY ONLY <2>1
  <2> QED BY ONLY <2>1, <2>10, <2>11, <2>12, <2>13, <2>14
<1>2. serverTurn' \in Nat /\ DOMAIN posted' = Boards /\ changed' \in [Boards -> 1..serverTurn']
  <2>1. serverTurn \in Nat
    BY DEF Posted
  <2>2. DOMAIN changed' = Boards /\ \A b \in Boards : changed'[b] \in 1..serverTurn'
    BY <1>1
  <2>3. changed' = [b \in Boards |-> changed'[b]]
    OBVIOUS
  <2> QED BY <2>1, <2>2, <2>3
<1>3. ASSUME NEW b \in Boards, NEW i \in 1..Len(posted'[b]), NEW j \in 1..Len(posted'[b]), i <= j
      PROVE  posted'[b][i] <= posted'[b][j]
  <2>1. CASE j \in 1..Len(posted[b])
    <3>1. i \in 1..Len(posted[b])
      BY <1>1, <1>3, <2>1
    <3>2. posted[b][i] <= posted[b][j]
      BY <1>3, <2>1, <3>1 DEF Posted
    <3> QED BY <1>1, <2>1, <3>1, <3>2
  <2>2. CASE j \notin 1..Len(posted[b])
    <3>1. posted'[b][j] = serverTurn /\ serverTurn \in Nat
      BY <1>1, <2>2 DEF Posted
    <3>2. CASE i \in 1..Len(posted[b])
      <4>1. posted[b][i] <= serverTurn
        BY <3>2, PostedFields
      <4>2. posted'[b][i] = posted[b][i]
        BY <1>1, <3>2
      <4> QED BY <3>1, <4>1, <4>2
    <3>3. CASE i \notin 1..Len(posted[b])
      BY <1>1, <3>1, <3>3
    <3> QED BY <3>2, <3>3
  <2> QED BY <2>1, <2>2
<1>4. Posted'
  <2>1. \A b \in Boards : posted'[b] \in Seq(1..serverTurn')
    BY <1>1
  <2>2. \A b \in Boards : \A i, j \in 1..Len(posted'[b]) : i <= j => posted'[b][i] <= posted'[b][j]
    BY <1>3
  <2> QED BY ONLY <1>2, <2>1, <2>2 DEF Posted
<1>5. ASSUME NEW b \in Boards
      PROVE  /\ {Len(posted[b]), Len(posted'[b]), changed[b], changed'[b]} \subseteq Nat
             /\ Len(posted[b]) <= Len(posted'[b])
             /\ changed[b] <= changed'[b]
             /\ changed'[b] = changed[b] => Len(posted'[b]) = Len(posted[b])
  <2>1. PICK n, m, a, c, d :
          /\ n = Len(posted[b]) /\ m = Len(posted'[b]) /\ a = about[b]
          /\ c = changed[b] /\ d = changed'[b]
    OBVIOUS
  <2>2. /\ n \in Nat /\ a \in Nat /\ m = n + a /\ serverTurn \in Nat
        /\ c \in 1..serverTurn /\ d = IF a > 0 THEN serverTurn + 1 ELSE c
    BY <1>1, <2>1 DEF Posted
  <2>3. {n, m, c, d} \subseteq Nat /\ n <= m /\ c <= d /\ (d = c => m = n)
    BY ONLY <2>2
  <2> QED BY <2>1, <2>3
<1> QED BY <1>1, <1>4, <1>5

LEMMA EndTurnKeeps == IInv /\ EndTurn => IInv'
<1> SUFFICES ASSUME IInv, EndTurn PROVE IInv'
  OBVIOUS
<1>1. /\ Srv!IInv /\ Posted /\ Meant /\ BoardsKept /\ CountsAgree /\ BoardsGrow
      /\ InOnePlace /\ BoardsCome /\ IconsFollow /\ BoxesHold
  BY DEF IInv
<1>2. /\ UNCHANGED <<repaired, boards, icons, boxes, stopped, refused>>
      /\ Srv!Push(Msg("NewTurn"))
  BY DEF EndTurn, playerVars
<1>3. /\ Posted'
      /\ \A b \in Boards :
           /\ {Len(posted[b]), Len(posted'[b]), changed[b], changed'[b]} \subseteq Nat
           /\ Len(posted[b]) <= Len(posted'[b])
           /\ \A i \in 1..Len(posted[b]) : posted'[b][i] = posted[b][i]
           /\ changed[b] <= changed'[b]
           /\ changed'[b] = changed[b] => Len(posted'[b]) = Len(posted[b])
  <2>1. PICK about \in [Boards -> 0..2] :
          /\ posted' = [b \in Boards |-> posted[b] \o [i \in 1..about[b] |-> serverTurn]]
          /\ changed' = [b \in Boards |-> IF about[b] > 0 THEN serverTurn' ELSE changed[b]]
    BY DEF EndTurn
  <2>2. serverTurn' = serverTurn + 1
    BY DEF EndTurn
  <2> QED BY <1>1, <2>1, <2>2, TurnPosts
<1>4. /\ Srv!IInv'
      /\ Wire' = Wire
      /\ Arriving' = Arriving \o <<Msg("NewTurn")>>
      /\ ToSet(Arriving') = ToSet(Arriving) \cup {Msg("NewTurn")}
      /\ Waiting' = Waiting
      /\ Passing' = Passing \cup {Msg("NewTurn")}
      /\ \A X : Count(Arriving', X) = Count(Arriving, X) + (IF Msg("NewTurn") \in X THEN 1 ELSE 0)
  BY <1>1, <1>2, PushEffect
<1>5. Grows
  BY <1>1, <1>2, <1>3, BoardFields DEF Grows
<1>6. Msg("NewTurn") \in Replies /\ Msg("NewTurn").type = "NewTurn"
  BY PlainSaid DEF PlainTypes
<1>7. Meant'
  <2>1. ReplyMeant(Msg("NewTurn"))'
    BY <1>6 DEF ReplyMeant
  <2> QED BY <1>1, <1>4, <1>5, <1>6, <2>1, StillMeant
<1>8. BoardsKept'
  <2>1. ASSUME NEW b \in DOMAIN boards PROVE BoardOK(b)'
    <3>1. BoardOK(b) /\ b \in Boards
      BY <1>1 DEF BoardsKept
    <3> PICK n, updated : n = boards[b].nalloced /\ updated = boards[b].updated
      OBVIOUS
    <3>2. Described(b, n, updated)'
      BY <1>5, <3>1, MeantGrows DEF BoardOK
    <3>3. \A s \in Held(b) : TurnAt(b, s) = posted'[b][s + 1]
      <4> SUFFICES ASSUME NEW s \in Held(b) PROVE TurnAt(b, s) = posted'[b][s + 1]
        OBVIOUS
      <4>1. /\ s \in Slots(boards[b].nalloced) /\ s \in Nat /\ boards[b].nalloced \in Nat
            /\ boards[b].nalloced <= Len(posted[b]) /\ Len(posted[b]) \in Nat
        BY <1>1, <3>1, BoardFields, PostedFields DEF BoardOK, Described
      <4>2. s + 1 \in 1..Len(posted[b])
        BY <4>1 DEF Slots
      <4> QED BY <1>3, <3>1, <4>2 DEF BoardOK
    <3> QED BY <1>2, <3>1, <3>2, <3>3, StillHeld DEF BoardOK, Described
  <2> QED BY <1>1, <1>2, <2>1 DEF BoardsKept
<1>9. CountsAgree' /\ BoxesHold'
  BY <1>1, <1>2, StillHeld DEF BoxesHold
<1>10. Arriving \in Seq(Replies) /\ Waiting \in Seq(Replies)
  BY <1>1, Queues
<1>11. BoardsGrow'
  <2>1. PICK t \in Seq(Replies) : t = <<Msg("NewTurn")>>
    BY <1>6, OneSent
  <2>2. ToSet(t) = {Msg("NewTurn")} /\ Ordered(t, Growing)
    BY <2>1, OneSent, ShortOrdered
  <2>3. \A x \in ToSet(Waiting) \cup ToSet(Arriving), y \in ToSet(t) : <<x, y>> \in Growing
    BY <1>6, <1>10, <2>2, Contents DEF Growing
  <2>4. Chain(Waiting, Arriving, Growing)
    BY <1>1 DEF BoardsGrow
  <2>5. Chain(Waiting, Arriving \o t, Growing)
    BY <1>10, <2>2, <2>3, <2>4, ChainAnswered
  <2> QED BY <1>1, <1>2, <1>4, <1>6, <2>1, <2>5, StillGrow
<1>12. InOnePlace'
  <2>1. ASSUME NEW b \in Boards, NEW s \in Nat
        PROVE  Whereabouts(b, s)' = Whereabouts(b, s)
    <3>1. Msg("NewTurn") \notin SentAs(b, s)
      BY <1>6 DEF SentAs
    <3>2. Count(Arriving, SentAs(b, s)) \in Nat
      BY <1>10, PlacesFinite DEF Count
    <3>3. Count(Arriving', SentAs(b, s)) = Count(Arriving, SentAs(b, s))
      BY <1>4, <3>1, <3>2
    <3>4. IsHeld(b, s)' <=> IsHeld(b, s)
      BY <1>2, StillHeld
    <3> QED BY <1>4, <3>3, <3>4 DEF Whereabouts, Count, AskedAs, SentAs
  <2> QED BY <1>1, <1>2, <2>1, StillInPlace DEF SameSlots
<1>13. BoardsCome'
  BY <1>4, <1>6 DEF BoardsCome, Brings
<1>14. IconsFollow'
  BY <1>1, <1>2, <1>4, StillFollow DEF IconsFollow
<1> QED BY <1>3, <1>4, <1>7, <1>8, <1>9, <1>11, <1>12, <1>13, <1>14 DEF IInv

-----------------------------------------------------------------------------
(* The beginning                                                           *)

LEMMA InitServer ==
  ASSUME Init
  PROVE  /\ Srv!IInv
         /\ Wire = <<>> /\ Arriving = <<>> /\ Waiting = <<Msg("Connected")>>
<1> DEFINE e == Event(Msg("Connected"))
           F == [seq : Nat, body : Replies, first : BOOLEAN]
           Q == [seq : Nat, body : Replies]
<1>1. /\ conncb = FALSE /\ seq = 1 /\ cbs = {} /\ toServer = <<>> /\ fromServer = <<>>
      /\ events = <<e>> /\ pushed = 0
  BY DEF Init
<1>2. e \in Q /\ e.seq = 0 /\ e.body = Msg("Connected")
  BY PlainSaid DEF Event, PlainTypes
<1> HIDE DEF e
<1>3. /\ \A i : i \in 1..Len(toServer) <=> FALSE
      /\ \A i : i \in 1..Len(fromServer) <=> FALSE
      /\ Len(events) = 1 /\ events[1] = e
      /\ \A i : i \in 1..Len(events) => i = 1
  BY <1>1
<1>4. /\ toServer \in Seq([seq : 2..seq, body : Requests])
      /\ fromServer \in Seq(F) /\ events \in Seq(Q)
  BY <1>1, <1>2
<1>5. /\ Srv!Firsts = {} /\ Srv!Open = {} /\ Srv!FirstNumbers = {}
      /\ Srv!NumbersOf(toServer) = {}
  <2>1. Srv!Firsts = {}
    BY <1>3 DEF Srv!Firsts
  <2>2. Srv!Open = {}
    BY <1>1 DEF Srv!Open
  <2>3. Srv!NumbersOf(toServer) = {}
    BY <1>3 DEF Srv!NumbersOf
  <2> QED BY <2>1, <2>2, <2>3 DEF Srv!FirstNumbers
<1>6. Srv!TypeOK
  <2>1. \A S : {} \subseteq S
    OBVIOUS
  <2>2. cbs \subseteq [seq : 2..seq, cb : {} \cup {"none"}]
    BY <1>1, <2>1
  <2>3. seq \in Nat \ {0} /\ pushed \in Nat
    BY <1>1
  <2>4. conncb \in BOOLEAN
    BY <1>1, Zenon
  <2> QED BY ONLY <1>4, <2>2, <2>3, <2>4 DEF Srv!TypeOK, Srv!Frame, F, Q
<1>7. Srv!TableMatchesWire /\ Srv!OneEntryPerNumber /\ Srv!EventAfterCallback
  BY <1>1, <1>5 DEF Srv!TableMatchesWire, Srv!OneEntryPerNumber, Srv!EventAfterCallback
<1>8. Srv!NumbersUsed
  BY <1>1, <1>2, <1>3, <1>5 DEF Srv!NumbersUsed
<1>9. Srv!WireInOrder
  BY <1>3, <1>5 DEF Srv!WireInOrder
<1>10. Srv!RestBehindFirst
  BY <1>3 DEF Srv!RestBehindFirst
<1>11. Srv!IInv
  BY <1>6, <1>7, <1>8, <1>9, <1>10 DEF Srv!IInv
<1>12. Wire = <<>> /\ Arriving = <<>>
  BY <1>1, <1>11, Queues
<1>13. Waiting = <<Msg("Connected")>>
  BY <1>1, <1>2 DEF Waiting, Bodies
<1> QED BY <1>11, <1>12, <1>13

LEMMA InitInv == Init => IInv
<1> SUFFICES ASSUME Init PROVE IInv
  OBVIOUS
<1>1. Srv!IInv
  BY InitServer
<1>2. /\ ToSet(Wire) = {} /\ ToSet(Arriving) = {} /\ ToSet(Waiting) = {Msg("Connected")}
      /\ Passing = {Msg("Connected")}
      /\ \A X : /\ Count(Wire, X) = 0 /\ Count(Arriving, X) = 0
                /\ Count(Waiting, X) = IF Msg("Connected") \in X THEN 1 ELSE 0
      /\ \A R : Ordered(Waiting, R) /\ Ordered(Arriving, R)
  <2>1. Wire = <<>> /\ Arriving = <<>> /\ Waiting = <<Msg("Connected")>>
    BY InitServer
  <2>2. ToSet(Wire) = {} /\ ToSet(Arriving) = {} /\ ToSet(Waiting) = {Msg("Connected")}
    BY <2>1, EmptyContents, SingleContents
  <2>3. \A X : /\ Count(Wire, X) = 0 /\ Count(Arriving, X) = 0
               /\ Count(Waiting, X) = IF Msg("Connected") \in X THEN 1 ELSE 0
    BY <2>1, EmptyContents, FS_EmptySet, SingleCount DEF Count
  <2>4. \A R : Ordered(Waiting, R) /\ Ordered(Arriving, R)
    BY <2>1, ShortOrdered
  <2> QED BY <2>2, <2>3, <2>4 DEF Passing
<1>3. Msg("Connected").type = "Connected"
  BY DEF Msg
<1>4. /\ DOMAIN boards = {} /\ DOMAIN icons = {} /\ boxes = <<>>
      /\ posted = [b \in Boards |-> <<>>] /\ changed = [b \in Boards |-> 1] /\ serverTurn = 1
      /\ repaired \subseteq {"list", "block"}
  BY RepairsAssumption DEF Init
<1>5. Posted
  BY <1>4 DEF Posted
<1>6. Meant
  BY <1>2, <1>3 DEF Meant, RequestMeant, ReplyMeant
<1>7. BoardsKept /\ CountsAgree
  BY <1>4 DEF BoardsKept, CountsAgree
<1>8. BoardsGrow
  BY <1>2, <1>4 DEF BoardsGrow, Chain, Across
<1>9. InOnePlace
  <2>1. ASSUME NEW b \in Boards, NEW s \in Nat PROVE Whereabouts(b, s) <= 1
    <3>1. Msg("Connected") \notin SentAs(b, s) /\ ~IsHeld(b, s)
      BY <1>3, <1>4 DEF SentAs, IsHeld
    <3> QED BY <1>2, <3>1 DEF Whereabouts, Count
  <2> QED BY <1>4, <2>1 DEF InOnePlace
<1>10. BoardsCome
  BY <1>2, <1>3 DEF BoardsCome, Brings
<1>11. IconsFollow
  BY <1>2, <1>3, <1>4 DEF IconsFollow
<1>12. BoxesHold
  BY <1>4 DEF BoxesHold
<1> QED BY <1>1, <1>5, <1>6, <1>7, <1>8, <1>9, <1>10, <1>11, <1>12 DEF IInv

(* Nothing happens.                                                        *)
LEMMA StutterInv == IInv /\ UNCHANGED vars => IInv'
<1> SUFFICES ASSUME IInv, UNCHANGED vars PROVE IInv'
  OBVIOUS
<1>1. UNCHANGED netVars /\ UNCHANGED <<repaired, boards, icons, boxes, posted, changed, refused, serverTurn>>
  BY DEF vars, playerVars, peerVars
<1>2. /\ Srv!IInv' /\ Posted' /\ Meant' /\ BoardsKept' /\ CountsAgree' /\ BoardsGrow'
      /\ InOnePlace' /\ BoardsCome' /\ IconsFollow'
  BY <1>1, Untouched
<1>3. BoxesHold'
  BY <1>1, StillHeld DEF IInv, BoxesHold
<1> QED BY <1>2, <1>3 DEF IInv

LEMMA StepInv == IInv /\ [Next]_vars => IInv'
<1> SUFFICES ASSUME IInv, [Next]_vars PROVE IInv'
  OBVIOUS
<1>1. CASE Frame
  BY <1>1, FrameKeeps
<1>2. CASE HandleAnyEvent
  BY <1>2, StartKeeps, HandleOidsKeeps, BoardReceiveKeeps, MessageReceiveKeeps, FailKeeps,
     IconUpdateKeeps DEF HandleAnyEvent
<1>3. CASE \E b \in Boards : OpenBoard(b)
  BY <1>3, OpenBoardKeeps
<1>4. CASE \E i \in 1..MaxBoxes, button \in Buttons, spawn \in BOOLEAN : Click(i, button, spawn)
  BY <1>4, ClickKeeps
<1>5. CASE Answer
  BY <1>5, AnswerIsKept
<1>6. CASE EndTurn
  BY <1>6, EndTurnKeeps
<1>7. CASE UNCHANGED vars
  BY <1>7, StutterInv
<1> QED BY <1>1, <1>2, <1>3, <1>4, <1>5, <1>6, <1>7 DEF Next

-----------------------------------------------------------------------------
(* The theorems                                                            *)

(* What the server has, what is said of it, what is kept and what is shown *)
(* go together in every state, with the code as it is and repaired.        *)
THEOREM InductiveInvariant == Spec => []IInv
BY InitInv, StepInv, PTL DEF Spec

(* A board's counts are those of the messages it holds.                    *)
THEOREM CountsAlwaysAgree == Spec => []CountsAgree
<1>1. IInv => CountsAgree
  BY DEF IInv
<1> QED BY <1>1, InductiveInvariant, PTL

-----------------------------------------------------------------------------
(* Each message is asked for once                                          *)

UnderWayAs(kind, i, b, s) ==
  \/ kind = "asked" /\ i \in Places(Wire, AskedAs(b, s))
  \/ kind = "frame" /\ i \in Places(Arriving, SentAs(b, s))
  \/ kind = "event" /\ i \in Places(Waiting, SentAs(b, s))

LEMMA UnderWayIs ==
  ASSUME IInv, NEW m \in UnderWay
  PROVE  \E kind, i, b, s : m = <<kind, i, b, s>> /\ UnderWayAs(kind, i, b, s)
<1>1. /\ toServer \in Seq([seq : Nat, body : Requests])
      /\ fromServer \in Seq([seq : Nat, body : Replies, first : BOOLEAN])
      /\ events \in Seq([seq : Nat, body : Replies])
  BY Queues DEF IInv
<1>2. /\ Len(Wire) = Len(toServer) /\ \A i \in 1..Len(toServer) : Wire[i] = toServer[i].body
      /\ Len(Arriving) = Len(fromServer)
      /\ \A i \in 1..Len(fromServer) : Arriving[i] = fromServer[i].body
      /\ Len(Waiting) = Len(events) /\ \A i \in 1..Len(events) : Waiting[i] = events[i].body
  <2>1. /\ Len(toServer) \in Nat /\ Len(fromServer) \in Nat /\ Len(events) \in Nat
    BY <1>1
  <2> QED BY <2>1 DEF Wire, Arriving, Waiting, Bodies
<1>3. /\ \A i \in 1..Len(Wire) : Wire[i] \in Requests
      /\ \A i \in 1..Len(Arriving) : Arriving[i] \in Replies
      /\ \A i \in 1..Len(Waiting) : Waiting[i] \in Replies
  <2>1. Wire \in Seq(Requests) /\ Arriving \in Seq(Replies) /\ Waiting \in Seq(Replies)
    BY Queues DEF IInv
  <2> QED BY <2>1
<1>4. CASE \E i \in 1..Len(Wire) : /\ Wire[i].type = "MessageGet"
                                   /\ \E s \in ToSet(Wire[i].slots) : m = <<"asked", i, Wire[i].id, s>>
  <2>1. PICK i \in 1..Len(Wire) : /\ Wire[i].type = "MessageGet"
                                  /\ \E s \in ToSet(Wire[i].slots) : m = <<"asked", i, Wire[i].id, s>>
    BY <1>4
  <2> PICK s \in ToSet(Wire[i].slots) : m = <<"asked", i, Wire[i].id, s>>
    BY <2>1
  <2>2. i \in Places(Wire, AskedAs(Wire[i].id, s))
    BY <1>3, <2>1 DEF Places, AskedAs
  <2> QED BY <2>1, <2>2 DEF UnderWayAs
<1>5. CASE \E i \in 1..Len(Arriving) : /\ Arriving[i].type = "Message"
                                       /\ m = <<"frame", i, Arriving[i].id, Arriving[i].slot>>
  <2>1. PICK i \in 1..Len(Arriving) :
          Arriving[i].type = "Message" /\ m = <<"frame", i, Arriving[i].id, Arriving[i].slot>>
    BY <1>5
  <2>2. i \in Places(Arriving, SentAs(Arriving[i].id, Arriving[i].slot))
    BY <1>3, <2>1 DEF Places, SentAs
  <2> QED BY <2>1, <2>2 DEF UnderWayAs
<1>6. CASE \E i \in 1..Len(Waiting) : /\ Waiting[i].type = "Message"
                                      /\ m = <<"event", i, Waiting[i].id, Waiting[i].slot>>
  <2>1. PICK i \in 1..Len(Waiting) :
          Waiting[i].type = "Message" /\ m = <<"event", i, Waiting[i].id, Waiting[i].slot>>
    BY <1>6
  <2>2. i \in Places(Waiting, SentAs(Waiting[i].id, Waiting[i].slot))
    BY <1>3, <2>1 DEF Places, SentAs
  <2> QED BY <2>1, <2>2 DEF UnderWayAs
<1>7. \/ \E i \in 1..Len(toServer) :
           /\ toServer[i].body.type = "MessageGet"
           /\ m \in {<<"asked", i, toServer[i].body.id, s>> : s \in ToSet(toServer[i].body.slots)}
      \/ \E i \in 1..Len(fromServer) :
           /\ fromServer[i].body.type = "Message"
           /\ m = <<"frame", i, fromServer[i].body.id, fromServer[i].body.slot>>
      \/ \E i \in 1..Len(events) :
           /\ events[i].body.type = "Message"
           /\ m = <<"event", i, events[i].body.id, events[i].body.slot>>
  BY DEF UnderWay
<1>8. ASSUME NEW i \in 1..Len(toServer), toServer[i].body.type = "MessageGet",
             m \in {<<"asked", i, toServer[i].body.id, s>> : s \in ToSet(toServer[i].body.slots)}
      PROVE  \E k \in 1..Len(Wire) :
               /\ Wire[k].type = "MessageGet"
               /\ \E s \in ToSet(Wire[k].slots) : m = <<"asked", k, Wire[k].id, s>>
  <2>1. i \in 1..Len(Wire) /\ Wire[i] = toServer[i].body
    BY <1>2
  <2>2. \E s \in ToSet(Wire[i].slots) : m = <<"asked", i, Wire[i].id, s>>
    BY <1>8, <2>1
  <2> QED BY ONLY <1>8, <2>1, <2>2
<1>9. ASSUME NEW i \in 1..Len(fromServer), fromServer[i].body.type = "Message",
             m = <<"frame", i, fromServer[i].body.id, fromServer[i].body.slot>>
      PROVE  \E k \in 1..Len(Arriving) : /\ Arriving[k].type = "Message"
                                         /\ m = <<"frame", k, Arriving[k].id, Arriving[k].slot>>
  BY ONLY <1>2, <1>9
<1>10. ASSUME NEW i \in 1..Len(events), events[i].body.type = "Message",
              m = <<"event", i, events[i].body.id, events[i].body.slot>>
       PROVE  \E k \in 1..Len(Waiting) : /\ Waiting[k].type = "Message"
                                         /\ m = <<"event", k, Waiting[k].id, Waiting[k].slot>>
  BY ONLY <1>2, <1>10
<1> QED
  <2>1. CASE \E i \in 1..Len(toServer) :
               /\ toServer[i].body.type = "MessageGet"
               /\ m \in {<<"asked", i, toServer[i].body.id, s>> : s \in ToSet(toServer[i].body.slots)}
    BY <1>4, <1>8, <2>1
  <2>2. CASE \E i \in 1..Len(fromServer) :
               /\ fromServer[i].body.type = "Message"
               /\ m = <<"frame", i, fromServer[i].body.id, fromServer[i].body.slot>>
    BY <1>5, <1>9, <2>2
  <2>3. CASE \E i \in 1..Len(events) :
               /\ events[i].body.type = "Message"
               /\ m = <<"event", i, events[i].body.id, events[i].body.slot>>
    BY <1>6, <1>10, <2>3
  <2> QED BY <1>7, <2>1, <2>2, <2>3

LEMMA OneElement ==
  ASSUME NEW S, IsFiniteSet(S), Cardinality(S) <= 1
  PROVE  \A x, y \in S : x = y
<1>1. Cardinality(S) \in Nat
  BY FS_CardinalityType
<1>2. Cardinality(S) = 0 \/ Cardinality(S) = 1
  BY <1>1
<1> QED BY <1>2, FS_EmptySet, FS_Singleton

LEMMA OnceOnly ==
  ASSUME IInv, "list" \in repaired, NEW b, NEW s, NEW kind, NEW i, UnderWayAs(kind, i, b, s)
  PROVE  /\ b \in DOMAIN boards /\ s \notin Held(b)
         /\ \A k, j : UnderWayAs(k, j, b, s) => k = kind /\ j = i
<1> DEFINE W == Places(Wire, AskedAs(b, s))
           A == Places(Arriving, SentAs(b, s))
           E == Places(Waiting, SentAs(b, s))
<1>1. /\ IsFiniteSet(W) /\ IsFiniteSet(A) /\ IsFiniteSet(E)
      /\ Cardinality(W) \in Nat /\ Cardinality(A) \in Nat /\ Cardinality(E) \in Nat
  <2>1. Wire \in Seq(Requests) /\ Arriving \in Seq(Replies) /\ Waiting \in Seq(Replies)
    BY Queues DEF IInv
  <2> QED BY <2>1, PlacesFinite
<1> DEFINE n == IF IsHeld(b, s) THEN 1 ELSE 0
<1>2. Whereabouts(b, s) = Cardinality(W) + Cardinality(A) + Cardinality(E) + n
  BY DEF Whereabouts
<1>3. /\ i \in W => Cardinality(W) # 0
      /\ i \in A => Cardinality(A) # 0
      /\ i \in E => Cardinality(E) # 0
      /\ \A j : /\ j \in W => Cardinality(W) # 0
                /\ j \in A => Cardinality(A) # 0
                /\ j \in E => Cardinality(E) # 0
  BY <1>1, FS_EmptySet
<1>4. UnderWayAs(kind, i, b, s) <=> \/ kind = "asked" /\ i \in W
                                    \/ kind = "frame" /\ i \in A
                                    \/ kind = "event" /\ i \in E
  BY DEF UnderWayAs
<1>5. \A k, j : UnderWayAs(k, j, b, s) <=> \/ k = "asked" /\ j \in W
                                           \/ k = "frame" /\ j \in A
                                           \/ k = "event" /\ j \in E
  BY DEF UnderWayAs
<1>6. n \in Nat /\ (IsHeld(b, s) <=> n # 0)
  OBVIOUS
<1> HIDE DEF W, A, E, n
<1>7. Whereabouts(b, s) # 0
  <2>1. Cardinality(W) # 0 \/ Cardinality(A) # 0 \/ Cardinality(E) # 0
    BY <1>3, <1>4
  <2>2. PICK w \in Nat, a \in Nat, e \in Nat, h \in Nat :
          w = Cardinality(W) /\ a = Cardinality(A) /\ e = Cardinality(E) /\ h = n
    BY <1>1, <1>6
  <2>3. w # 0 \/ a # 0 \/ e # 0
    BY <2>1, <2>2
  <2>4. w + a + e + h # 0
    BY ONLY <2>3, w \in Nat, a \in Nat, e \in Nat, h \in Nat
  <2> QED BY <1>2, <2>2, <2>4
<1>8. b \in Boards /\ s \in Nat /\ b \in DOMAIN boards
  <2>1. SlotKnown(b, s)
    BY <1>7, Wherever
  <2>2. Len(posted[b]) \in Nat
    BY <2>1, PostedFields DEF IInv, SlotKnown
  <2> QED BY <2>1, <2>2 DEF SlotKnown, Slots
<1>9. Whereabouts(b, s) <= 1
  BY <1>8 DEF IInv, InOnePlace
<1>10. Cardinality(W) + Cardinality(A) + Cardinality(E) + n <= 1
  BY <1>2, <1>9
<1>11. /\ \A x, y \in W : x = y
       /\ \A x, y \in A : x = y
       /\ \A x, y \in E : x = y
  BY <1>1, <1>6, <1>10, OneElement
<1>12. n = 0
  BY <1>1, <1>3, <1>4, <1>6, <1>10
<1>13. ASSUME NEW k, NEW j, UnderWayAs(k, j, b, s) PROVE k = kind /\ j = i
  <2>1. PICK w \in Nat, a \in Nat, e \in Nat :
          w = Cardinality(W) /\ a = Cardinality(A) /\ e = Cardinality(E)
    BY <1>1
  <2>2. /\ w + a + e <= 1
        /\ i \in W \/ j \in W => w # 0
        /\ i \in A \/ j \in A => a # 0
        /\ i \in E \/ j \in E => e # 0
    BY <1>3, <1>10, <1>12, <2>1
  <2>3. ~(w # 0 /\ a # 0) /\ ~(w # 0 /\ e # 0) /\ ~(a # 0 /\ e # 0)
    BY <2>2
  <2> QED BY <1>4, <1>5, <1>11, <1>13, <2>2, <2>3
<1> QED BY <1>6, <1>8, <1>12, <1>13 DEF IsHeld

(* While turns end and lists, boards and messages are under way, a message *)
(* is asked for once: it is in one place at most.                          *)
THEOREM AlwaysAskedOnce == Spec => []AskedOnce
<1>1. IInv => AskedOnce
  <2> SUFFICES ASSUME IInv, "list" \in repaired, NEW m \in UnderWay
               PROVE  /\ \A n \in UnderWay : m[3] = n[3] /\ m[4] = n[4] => m = n
                      /\ m[4] \notin Held(m[3])
    BY DEF AskedOnce
  <2>1. PICK kind, i, b, s : m = <<kind, i, b, s>> /\ UnderWayAs(kind, i, b, s)
    BY UnderWayIs
  <2>2. m[3] = b /\ m[4] = s
    BY <2>1
  <2>3. ASSUME NEW n \in UnderWay, m[3] = n[3] /\ m[4] = n[4] PROVE m = n
    <3>1. PICK k, j, c, t : n = <<k, j, c, t>> /\ UnderWayAs(k, j, c, t)
      BY UnderWayIs
    <3>2. c = b /\ t = s
      BY <2>2, <2>3, <3>1
    <3>3. k = kind /\ j = i
      BY <2>1, <3>1, <3>2, OnceOnly
    <3> QED BY <2>1, <3>1, <3>2, <3>3
  <2>4. s \notin Held(b)
    BY <2>1, OnceOnly
  <2> QED BY <2>2, <2>3, <2>4
<1> QED BY <1>1, InductiveInvariant, PTL

-----------------------------------------------------------------------------
(* What is kept and shown in the end                                       *)

LEMMA SavedWhenQuiet == IInv => SavedAndShown
<1> SUFFICES ASSUME IInv, repaired = {"list", "block"}, Quiet
             PROVE  /\ MessagesSaved
                    /\ \A b \in DOMAIN boards :
                         boards[b].received > 0 =>
                           /\ b \in DOMAIN icons
                           /\ icons[b] = [unread |-> boards[b].unread,
                                          messages |-> boards[b].received,
                                          lit |-> boards[b].unread # 0]
  BY DEF SavedAndShown
<1>1. Wire = <<>> /\ Arriving = <<>> /\ Waiting = <<>>
  BY Queues DEF Quiet, IInv
<1>2. /\ ToSet(Wire) = {} /\ ToSet(Waiting) = {} /\ Passing = {}
      /\ \A X : Count(Wire, X) = 0 /\ Count(Arriving, X) = 0 /\ Count(Waiting, X) = 0
  <2>1. ToSet(Wire) = {} /\ ToSet(Arriving) = {} /\ ToSet(Waiting) = {}
    BY <1>1, EmptyContents
  <2>2. \A X : Count(Wire, X) = 0 /\ Count(Arriving, X) = 0 /\ Count(Waiting, X) = 0
    BY <1>1, EmptyContents, FS_EmptySet DEF Count
  <2> QED BY <2>1, <2>2 DEF Passing
<1>3. ASSUME NEW b \in Boards, NEW s \in Slots(Len(posted[b])), Place(b, s) \notin refused
      PROVE  b \in DOMAIN boards /\ s \in Held(b) /\ TurnAt(b, s) = posted[b][s + 1]
  <2>1. b \in DOMAIN boards /\ boards[b].nalloced = Len(posted[b])
    BY <1>2 DEF IInv, BoardsCome
  <2>2. Whereabouts(b, s) >= 1
    BY <1>3, <2>1 DEF IInv, InOnePlace, Both
  <2>3. Whereabouts(b, s) = IF IsHeld(b, s) THEN 1 ELSE 0
    BY <1>2 DEF Whereabouts, Count
  <2>4. s \in Held(b)
    BY <2>2, <2>3 DEF IsHeld
  <2> QED BY <2>1, <2>4 DEF IInv, BoardsKept, BoardOK
<1>4. MessagesSaved
  BY <1>3 DEF MessagesSaved
<1>5. ASSUME NEW b \in DOMAIN boards, boards[b].received > 0
      PROVE  /\ b \in DOMAIN icons
             /\ icons[b] = [unread |-> boards[b].unread, messages |-> boards[b].received,
                            lit |-> boards[b].unread # 0]
  <2>1. b \in DOMAIN icons /\ icons[b] = Shown(BoardUpdate(b, boards[b]))
    BY <1>2, <1>5 DEF IInv, IconsFollow
  <2> QED BY <2>1 DEF Shown, BoardUpdate
<1> QED BY <1>4, <1>5

(* With the two repairs, what the server has posted and not refused is     *)
(* kept, and the icon shows its counts, whenever nothing is under way.     *)
THEOREM AlwaysSavedAndShown == Spec => []SavedAndShown
BY SavedWhenQuiet, InductiveInvariant, PTL

-----------------------------------------------------------------------------
(* Where the reader is brought                                             *)

(* The walk to the next turn stops at the first message of another turn,   *)
(* or at the last message.                                                 *)
LEMMA WalkStops ==
  ASSUME IInv, NEW b \in DOMAIN boards, NEW n \in Nat \ {0}, boards[b].nmessages = n,
         Held(b) = Slots(n), NEW s \in Slots(n)
  PROVE  LET t == NextTurnSlot(b, s)
         IN  /\ t \in Slots(n)
             /\ TurnAt(b, s) = TurnAt(b, n - 1) => t = n - 1
             /\ TurnAt(b, s) # TurnAt(b, n - 1) =>
                  t > s /\ TurnAt(b, t) > TurnAt(b, s) /\ TurnAt(b, t - 1) = TurnAt(b, s)
<1>1. \A t : t \in Slots(n) <=> t \in Int /\ 0 <= t /\ t < n
  BY DEF Slots
<1>2. /\ \A t \in Slots(n) : TurnAt(b, t) \in Nat
      /\ \A t, u \in Slots(n) : t <= u => TurnAt(b, t) <= TurnAt(b, u)
  BY TurnsHeld
<1> DEFINE other == {t \in s..(n - 1) : Other(b, s, t)}
<1>3. \A t : t \in other <=> t \in Slots(n) /\ s <= t /\ TurnAt(b, t) # TurnAt(b, s)
  BY <1>1 DEF Other
<1>4. NextTurnSlot(b, s) = IF other = {} THEN n - 1 ELSE Min(other)
  BY DEF NextTurnSlot
<1>5. IsFiniteSet(other)
  <2>1. s \in Int /\ n - 1 \in Int
    BY <1>1
  <2>2. IsFiniteSet(s..(n - 1)) /\ other \subseteq s..(n - 1)
    BY <2>1, FS_Interval
  <2> QED BY <2>2, FS_Subset
<1> HIDE DEF other
<1>6. other \in SUBSET Nat
  BY <1>1, <1>3
<1> PICK t : t = NextTurnSlot(b, s)
  OBVIOUS
<1>7. n - 1 \in Slots(n) /\ s <= n - 1
  BY <1>1
<1>8. CASE other = {}
  <2>1. t = n - 1
    BY <1>4, <1>8
  <2>2. TurnAt(b, s) = TurnAt(b, n - 1)
    BY <1>3, <1>7, <1>8
  <2> QED BY <1>7, <2>1, <2>2
<1>9. CASE other # {}
  <2>1. t = Min(other) /\ t \in other /\ \A u \in other : t <= u
    BY <1>4, <1>5, <1>6, <1>9, LeastAndLargest
  <2>2. t \in Slots(n) /\ s <= t /\ TurnAt(b, t) # TurnAt(b, s) /\ t \in Nat /\ s \in Nat
    BY <1>1, <1>3, <2>1
  <2>3. t > s
    BY <2>2
  <2>4. TurnAt(b, t) > TurnAt(b, s)
    BY <1>2, <2>2
  <2>5. TurnAt(b, s) # TurnAt(b, n - 1)
    <3>1. t <= n - 1
      BY <1>1, <2>2
    <3>2. TurnAt(b, t) <= TurnAt(b, n - 1)
      BY <1>2, <1>7, <2>2, <3>1
    <3> QED BY <1>2, <1>7, <2>2, <2>4, <3>2
  <2>6. TurnAt(b, t - 1) = TurnAt(b, s)
    <3>1. t - 1 \in Slots(n) /\ s <= t - 1 /\ ~(t <= t - 1)
      BY <1>1, <2>2, <2>3
    <3>2. t - 1 \notin other
      BY <2>1, <3>1
    <3> QED BY <1>3, <3>1, <3>2
  <2> QED BY <2>2, <2>3, <2>4, <2>5, <2>6
<1> QED BY <1>8, <1>9

LEMMA TurnStarts ==
  ASSUME IInv, NEW b \in DOMAIN boards, NEW n \in Nat \ {0}, Held(b) = Slots(n), NEW s \in Slots(n)
  PROVE  TurnAt(b, s) = TurnAt(b, n - 1) <=> TurnGet(b).slot <= s
<1>1. \A t : t \in Slots(n) <=> t \in Int /\ 0 <= t /\ t < n
  BY DEF Slots
<1>2. /\ \A t \in Slots(n) : TurnAt(b, t) \in Nat
      /\ \A t, u \in Slots(n) : t <= u => TurnAt(b, t) <= TurnAt(b, u)
  BY TurnsHeld
<1>3. 0 \in Slots(n) /\ n - 1 \in Slots(n) /\ \A u \in Slots(n) : u <= n - 1
  BY <1>1
<1>4. /\ LastTurnSlots(b) \in SUBSET Nat /\ IsFiniteSet(LastTurnSlots(b))
      /\ LastTurnSlots(b) # {} /\ LastTurnSlots(b) \subseteq Slots(n)
  BY <1>3, LastTurnHeld
<1> PICK m : m = Min(LastTurnSlots(b))
  OBVIOUS
<1>5. m \in LastTurnSlots(b) /\ m \in Slots(n) /\ \A u \in LastTurnSlots(b) : m <= u
  BY <1>4, LeastAndLargest
<1>6. TurnGet(b).slot = m
  BY <1>3 DEF TurnGet, Place
<1>7. \A u \in Slots(n) : u \in LastTurnSlots(b) <=> TurnAt(b, u) = TurnAt(b, n - 1)
  <2> SUFFICES ASSUME NEW u \in Slots(n)
               PROVE  u \in LastTurnSlots(b) <=> TurnAt(b, u) = TurnAt(b, n - 1)
    OBVIOUS
  <2>1. u \in LastTurnSlots(b) <=> \A v \in Slots(n) : TurnAt(b, v) <= TurnAt(b, u)
    BY DEF LastTurnSlots
  <2>2. \A v \in Slots(n) : TurnAt(b, v) <= TurnAt(b, n - 1)
    BY <1>2, <1>3
  <2> QED BY <1>2, <1>3, <2>1, <2>2
<1>8. TurnAt(b, s) = TurnAt(b, n - 1) => m <= s
  BY <1>5, <1>7
<1>9. ASSUME m <= s PROVE TurnAt(b, s) = TurnAt(b, n - 1)
  <2>1. TurnAt(b, m) = TurnAt(b, n - 1)
    BY <1>5, <1>7
  <2>2. TurnAt(b, m) <= TurnAt(b, s) /\ TurnAt(b, s) <= TurnAt(b, n - 1)
    BY <1>2, <1>3, <1>5, <1>9
  <2> QED BY <1>2, <1>3, <2>1, <2>2
<1> QED BY <1>6, <1>8, <1>9

(* On a board without gaps the reader comes to the first message of the    *)
(* last turn, and from any message to the first of the next turn.          *)
THEOREM ReaderAlwaysFinds == Spec => []ReaderFinds
<1>1. IInv => ReaderFinds
  <2> SUFFICES ASSUME IInv, NEW b \in DOMAIN boards,
                      DOMAIN boards[b].messages # {}, Held(b) = DOMAIN boards[b].messages,
                      NEW s \in DOMAIN boards[b].messages
               PROVE  LET last == boards[b].nmessages - 1
                          t == NextTurnSlot(b, s)
                      IN  /\ TurnAt(b, s) = TurnAt(b, last) <=> TurnGet(b).slot <= s
                          /\ IF TurnAt(b, s) = TurnAt(b, last) THEN t = last
                             ELSE /\ t > s /\ TurnAt(b, t) > TurnAt(b, s)
                                  /\ TurnAt(b, t - 1) = TurnAt(b, s)
    BY DEF ReaderFinds
  <2>1. /\ boards[b].nalloced \in Nat /\ boards[b].nmessages = boards[b].nalloced
        /\ DOMAIN boards[b].messages = Slots(boards[b].nalloced)
    BY BoardFields DEF IInv
  <2>2. boards[b].nalloced # 0
    BY <2>1 DEF Slots
  <2>3. PICK n \in Nat \ {0} : n = boards[b].nmessages /\ Held(b) = Slots(n) /\ s \in Slots(n)
    BY <2>1, <2>2
  <2>4. TurnAt(b, s) = TurnAt(b, n - 1) <=> TurnGet(b).slot <= s
    BY <2>3, TurnStarts
  <2>5. LET t == NextTurnSlot(b, s)
        IN  /\ TurnAt(b, s) = TurnAt(b, n - 1) => t = n - 1
            /\ TurnAt(b, s) # TurnAt(b, n - 1) =>
                 t > s /\ TurnAt(b, t) > TurnAt(b, s) /\ TurnAt(b, t - 1) = TurnAt(b, s)
    BY <2>3, WalkStops
  <2> QED BY <2>3, <2>4, <2>5
<1> QED BY <1>1, InductiveInvariant, PTL

(* Without gaps there is a message wherever the player goes.               *)
LEMMA NoGapNoTrip ==
  ASSUME IInv, NEW p, IsHeld(p.board, p.slot), NEW button \in Buttons,
         Held(p.board) = DOMAIN boards[p.board].messages
  PROVE  ~Follows(button, p) /\ Target(button, p) # NoPlace
<1> PICK b, s : b = p.board /\ s = p.slot
  OBVIOUS
<1>1. /\ b \in DOMAIN boards /\ s \in Held(b)
      /\ boards[b].nalloced \in Nat /\ boards[b].nmessages = boards[b].nalloced
      /\ DOMAIN boards[b].messages = Slots(boards[b].nalloced)
  BY BoardFields DEF IsHeld, IInv
<1>2. boards[b].nalloced # 0
  BY <1>1 DEF Slots
<1>3. PICK n \in Nat \ {0} : n = boards[b].nmessages /\ Held(b) = Slots(n) /\ s \in Slots(n)
  BY <1>1, <1>2
<1>4. \A t : t \in Slots(n) <=> t \in Int /\ 0 <= t /\ t < n
  BY DEF Slots
<1>5. NextTurnSlot(b, s) \in Held(b)
  BY <1>1, <1>3, WalkStops
<1>6. PrevTurnSlot(b, s) \in Held(b)
  <2> DEFINE other == {t \in 1..s : Other(b, s, t)}
  <2>1. PrevTurnSlot(b, s) = IF other = {} THEN 0 ELSE Max(other)
    BY DEF PrevTurnSlot
  <2>2. s \in Int /\ 1..s \subseteq Slots(n) /\ Slots(n) \in SUBSET Nat /\ 0 \in Slots(n)
    BY <1>3, <1>4
  <2>3. other \subseteq Slots(n) /\ IsFiniteSet(other)
    <3>1. IsFiniteSet(1..s)
      <4>1. 1 \in Int /\ s \in Int
        BY <2>2
      <4> QED BY ONLY <4>1, FS_Interval
    <3>2. other \subseteq 1..s /\ other \subseteq Slots(n)
      BY <2>2
    <3> QED BY <3>1, <3>2, FS_Subset
  <2> HIDE DEF other
  <2>4. other # {} => Max(other) \in other
    BY <2>2, <2>3, LeastAndLargest
  <2> QED BY <1>3, <2>1, <2>2, <2>3, <2>4
<1>7. ~Follows(button, p)
  BY <1>5, <1>6 DEF Follows
<1>8. \A t : Place(b, t) # NoPlace \/ t \notin Held(b)
  BY <1>3, <1>4 DEF Place, NoPlace
<1>9. \A t \in Held(b) : There(b, t) # NoPlace
  BY <1>8 DEF There
<1>10. NextOf(b, s) # NoPlace /\ PrevOf(b, s) # NoPlace
  <2>1. s + 1 < n => s + 1 \in Held(b)
    BY <1>3, <1>4
  <2>2. s > 0 => s - 1 \in Held(b)
    BY <1>3, <1>4
  <2>3. Place(b, s) # NoPlace
    BY <1>1, <1>8
  <2>4. NextOf(b, s) # NoPlace
    BY <1>3, <1>9, <2>1, <2>3 DEF NextOf
  <2>5. PrevOf(b, s) # NoPlace
    BY <1>9, <2>2, <2>3 DEF PrevOf
  <2> QED BY <2>4, <2>5
<1>11. Target(button, p) # NoPlace
  <2>1. There(b, NextTurnSlot(b, s)) # NoPlace /\ There(b, PrevTurnSlot(b, s)) # NoPlace
    BY <1>5, <1>6, <1>9
  <2>2. button \in {"next", "prev", "next turn", "prev turn"}
    BY DEF Buttons
  <2> QED BY <1>10, <2>1, <2>2 DEF Target
<1> QED BY <1>7, <1>11

LEMMA NoEmptyBox ==
  ASSUME NEW all, all \in Seq(Spots), NEW i \in 1..Len(all), NEW p, p # NoPlace,
         \A j \in 1..Len(all) : j # i => all[j] # NoPlace,
         MessageSet(all, i, p)
  PROVE  NoPlace \notin ToSet(boxes')
<1>1. boxes' = [all EXCEPT ![i] = p]
  BY DEF MessageSet
<1>2. Len(all) \in Nat /\ DOMAIN all = 1..Len(all)
  OBVIOUS
<1>3. DOMAIN boxes' = 1..Len(all) /\ \A j \in 1..Len(all) : boxes'[j] # NoPlace
  BY <1>1, <1>2
<1> QED BY <1>3 DEF ToSet

(* A box comes to show nothing, and a click stops the program, only where  *)
(* a message has not come.                                                 *)
TripsAtGap ==
  (stopped' \/ NoPlace \in ToSet(boxes')) /\ ~(stopped \/ NoPlace \in ToSet(boxes)) =>
    \E b \in DOMAIN boards : Held(b) # DOMAIN boards[b].messages

LEMMA StepsTripAtGap == IInv /\ [Next]_vars => TripsAtGap
<1> SUFFICES ASSUME IInv, [Next]_vars, ~stopped, NoPlace \notin ToSet(boxes),
                    \A b \in DOMAIN boards : Held(b) = DOMAIN boards[b].messages
             PROVE  ~stopped' /\ NoPlace \notin ToSet(boxes')
  BY DEF TripsAtGap
<1>1. /\ boxes \in Seq(Spots) /\ Len(boxes) \in Nat
      /\ \A i \in 1..Len(boxes) : boxes[i] # NoPlace /\ IsHeld(boxes[i].board, boxes[i].slot)
  <2>1. boxes \in Seq(Spots) /\ Len(boxes) \in Nat
    BY DEF IInv, BoxesHold
  <2>2. \A i \in 1..Len(boxes) : boxes[i] \in ToSet(boxes)
    BY <2>1, Contents
  <2> QED BY <2>1, <2>2 DEF IInv, BoxesHold
<1>2. PICK all : all = Append(boxes, NoPlace)
  OBVIOUS
<1>3. /\ all \in Seq(Spots) /\ Len(boxes) + 1 \in 1..Len(all)
      /\ \A j \in 1..Len(all) : j # Len(boxes) + 1 => all[j] # NoPlace
  <2>1. NoPlace \in Spots
    BY DEF Spots
  <2>2. /\ all \in Seq(Spots) /\ Len(all) = Len(boxes) + 1
        /\ \A j \in 1..Len(boxes) : all[j] = boxes[j]
    BY <1>1, <1>2, <2>1, AppendProperties
  <2>3. \A j \in 1..Len(all) : j # Len(boxes) + 1 => j \in 1..Len(boxes)
    BY <1>1, <2>2
  <2> QED BY <1>1, <2>2, <2>3
<1>4. CASE UNCHANGED <<boxes, stopped>>
  BY <1>4
<1>5. ASSUME NEW b \in Boards, OpenBoard(b)
      PROVE  ~stopped' /\ NoPlace \notin ToSet(boxes')
  <2> PICK p : p = IF UnreadGet(b) # NoPlace THEN UnreadGet(b) ELSE TurnGet(b)
    OBVIOUS
  <2>1. /\ stopped' = stopped
        /\ IF p = NoPlace THEN UNCHANGED <<boards, events, boxes>>
           ELSE MessageSet(all, Len(boxes) + 1, p)
    BY <1>2, <1>5 DEF OpenBoard
  <2>2. CASE p = NoPlace
    BY <2>1, <2>2
  <2>3. CASE p # NoPlace
    BY <1>3, <2>1, <2>3, NoEmptyBox
  <2> QED BY <2>2, <2>3
<1>6. ASSUME NEW i \in 1..MaxBoxes, NEW button \in Buttons, NEW spawn \in BOOLEAN,
             Click(i, button, spawn)
      PROVE  ~stopped' /\ NoPlace \notin ToSet(boxes')
  <2>1. i \in 1..Len(boxes)
    BY <1>6 DEF Click
  <2> PICK at : at = boxes[i]
    OBVIOUS
  <2>2. at # NoPlace /\ IsHeld(at.board, at.slot)
    BY <1>1, <2>1
  <2>3. ~Follows(button, at) /\ Target(button, at) # NoPlace
    BY <2>2, NoGapNoTrip DEF IsHeld
  <2> PICK p : p = Target(button, at)
    OBVIOUS
  <2>4. /\ stopped' = stopped
        /\ MessageSet(IF spawn THEN Append(boxes, NoPlace) ELSE boxes,
                      IF spawn THEN Len(boxes) + 1 ELSE i, p)
    BY <1>6, <2>2, <2>3 DEF Click
  <2>5. CASE spawn
    <3>1. MessageSet(all, Len(boxes) + 1, p)
      BY <1>2, <2>4, <2>5
    <3> QED BY <1>3, <2>3, <2>4, <3>1, NoEmptyBox
  <2>6. CASE ~spawn
    <3>1. MessageSet(boxes, i, p)
      BY <2>4, <2>6
    <3> QED BY <1>1, <2>1, <2>3, <2>4, <3>1, NoEmptyBox
  <2> QED BY <2>5, <2>6
<1>7. \/ UNCHANGED <<boxes, stopped>>
      \/ \E b \in Boards : OpenBoard(b)
      \/ \E i \in 1..MaxBoxes, button \in Buttons, spawn \in BOOLEAN : Click(i, button, spawn)
  BY DEF Next, vars, playerVars, Frame, HandleAnyEvent, Start, HandleOids, BoardReceive,
         MessageReceive, Fail, IconUpdate, Answer, EndTurn
<1> QED BY <1>4, <1>5, <1>6, <1>7

(* As long as no board has a gap, no click leaves a box without a message  *)
(* and none stops the program.                                             *)
THEOREM AlwaysTripsAtGaps == Spec => TripsOnlyAtGaps
<1>1. IInv /\ [Next]_vars => [TripsAtGap]_vars
  BY StepsTripAtGap
<1> QED BY <1>1, InductiveInvariant, PTL DEF Spec, TripsOnlyAtGaps, TripsAtGap
=============================================================================
