---------------------------- MODULE SequenceProofs ----------------------------
(***************************************************************************)
(* Proofs about Sequence, for any ids, times, page sizes and number of     *)
(* turns.                                                                  *)
(***************************************************************************)
EXTENDS Sequence, QueueLemmas

(* What is proved about Server holds of the server.c Sequence runs on.     *)
SP == INSTANCE ServerProofs
        WITH Body <- Requests, Reply <- Replies, Callback <- {}, NoCallback <- "none",
             Heard <- Replies \ Unheard,
             MaxSeq <- 1, MaxSends <- 0, MaxReply <- 0, MaxPush <- MaxLists

-----------------------------------------------------------------------------
(* The inductive invariant                                                 *)

(* What is said on the wire, in the frames and in the events.              *)
Wire == Bodies(toServer)
Arriving == Bodies(fromServer)
Waiting == Bodies(events)
Passing == ToSet(Arriving) \cup ToSet(Waiting)

Starting == {Msg("Connected"), Msg("NewTurn"), Msg("TurnEnds")}
ListsOf(k) == {b \in Replies : b.type = "ListOfIDs" /\ b.kind = k}
ListOrData == {b \in Replies : b.type \in {"ListOfIDs", "Data"}}
ObjectEvents == {b \in Replies : b.type \in {"ObjectNew", "ObjectChanged"}}

(* Only what is registered is asked for and comes.                         *)
RequestsAsked == {b \in Requests : b.kind \in seqs}
Registering == {b \in ListOrData : b.kind \in seqs}
FramesSent == {Msg("SEQUENCE"), Msg("TurnEnds"), Msg("Fail")} \cup Registering
EventsSent ==
  Starting \cup {Msg("Fail")} \cup Registering \cup {b \in ObjectEvents : "Object" \in seqs}

Typed ==
  /\ Wire \in Seq(RequestsAsked)
  /\ Arriving \in Seq(FramesSent)
  /\ Waiting \in Seq(EventsSent)
  /\ seqs \in KindSets
  /\ position \in [seqs -> Nat]
  /\ cache \in [seqs -> Seq(Thing)]
  /\ told \subseteq Ids
  /\ catalogue = [k \in seqs |-> catalogue[k]]
  /\ \A k \in seqs : /\ DOMAIN catalogue[k] \subseteq Ids
                      /\ catalogue[k] \in [DOMAIN catalogue[k] -> Nat]
  /\ pageSize \in PageSizes
  /\ serverTurn \in 0..MaxLists

(* Nothing is of a later time than the server's.                           *)
NotAfter(k, thing) ==
  /\ thing.updated <= FirstTime + serverTurn
  /\ thing.id \in DOMAIN catalogue[k] => thing.updated <= catalogue[k][thing.id]

Dated ==
  /\ \A k \in seqs : \A id \in DOMAIN catalogue[k] :
       catalogue[k][id] \in FirstTime..(FirstTime + serverTurn)
  /\ \A k \in seqs : \A thing \in ToSet(cache[k]) : NotAfter(k, thing)
  /\ \A b \in Passing : b.type = "Data" => NotAfter(b.kind, b.thing)

(* Versions of a thing come in the order of their times, after the one     *)
(* that is cached.                                                         *)
Rising == {p \in Replies \X Replies :
             /\ p[1].type = "Data" /\ p[2].type = "Data"
             /\ p[1].kind = p[2].kind /\ p[1].thing.id = p[2].thing.id
             => p[1].thing.updated <= p[2].thing.updated}

VersionsRise ==
  /\ Chain(Waiting, Arriving, Rising)
  /\ \A b \in Passing : b.type = "Data" /\ b.kind \notin Appended =>
       \A i \in Lookup(b.kind, b.thing.id) : cache[b.kind][i].updated <= b.thing.updated

(* What is cached has been announced, or its announcement waits.           *)
NewFirst == {p \in Replies \X Replies :
               /\ p[1].type = "ObjectChanged" /\ p[2].type = "ObjectNew"
               => p[1].id # p[2].id}

NewEvents(id) == {ObjectEvent("ObjectNew", id)}

Announcing ==
  /\ \A id \in Ids :
       Cardinality(Places(Waiting, NewEvents(id))) + (IF id \in told THEN 1 ELSE 0)
         = IF "Object" \in seqs /\ PlacesOf("Object", id) # {} THEN 1 ELSE 0
  /\ Ordered(Waiting, NewFirst)
  /\ \A b \in ToSet(Waiting) : b \in ObjectEvents => PlacesOf("Object", b.id) # {}

(* A list that comes in pages is alone: nothing else is under way that     *)
(* brings ids of its kind.                                                 *)
Paged == pageSize < Cardinality(Ids)
ListRequests(k) == {b \in Requests : b.type \in {"GetIDs", "GetPage"} /\ b.kind = k}
ListFrames(k) == Starting \cup ListsOf(k)

ListsUnderWay(k) ==
  Cardinality(Places(Wire, ListRequests(k)))
    + Cardinality(Places(Arriving, ListFrames(k))) + Cardinality(Places(Waiting, ListFrames(k)))

PageAsked(b) ==
  /\ b.type = "GetPage" => /\ Paged /\ b.pos = position[b.kind]
                           /\ 0 < b.pos /\ b.pos < Len(b.key)
  /\ b.type = "GetIDs" /\ Paged => position[b.kind] = 0

PageCame(b) ==
  b.type = "ListOfIDs" /\ b.more > 0 =>
    /\ Paged /\ Len(b.things) > 0
    /\ position[b.kind] + Len(b.things) + b.more = Len(b.key)

Pages ==
  /\ Paged => \A k \in seqs : ListsUnderWay(k) <= 1
  /\ \A b \in ToSet(Wire) : PageAsked(b)
  /\ \A b \in Passing : PageCame(b)

(* What the server has is cached, or something is under way that brings it.*)
Beyond(key, pos) == {key[j] : j \in {i \in 1..Len(key) : i > pos}}

AskedFor(b, k, thing) ==
  /\ b.kind = k
  /\ CASE b.type = "GetIDs" -> TRUE
       [] b.type = "GetPage" -> thing \in Beyond(b.key, b.pos)
       [] b.type = "Get" -> thing.id \in ToSet(b.ids)

Brings(b, k, thing) ==
  \/ b \in Starting
  \/ b.type = "ListOfIDs" /\ b.kind = k /\ thing \in ToSet(b.things)
  \/ /\ b.type = "ListOfIDs" /\ b.kind = k /\ b.more > 0
     /\ thing \in Beyond(b.key, position[k] + Len(b.things))
  \/ b.type = "Data" /\ b.kind = k /\ b.thing = thing

Cached(k, id, updated) ==
  \E i \in IF k \in Appended THEN PlacesOf(k, id) ELSE Lookup(k, id) :
    cache[k][i].updated = updated

Current(k, id) == [id |-> id, updated |-> catalogue[k][id]]

Coming(k, thing) ==
  \/ \E b \in ToSet(Wire) : AskedFor(b, k, thing)
  \/ \E b \in Passing : Brings(b, k, thing)

Covered ==
  \A k \in seqs : \A id \in DOMAIN catalogue[k] :
    Cached(k, id, catalogue[k][id]) \/ Coming(k, Current(k, id))

IInv ==
  /\ Srv!IInv
  /\ Typed
  /\ Dated
  /\ VersionsRise
  /\ Announcing
  /\ Patient => Pages /\ Covered

-----------------------------------------------------------------------------
(* Sequence's server.c is the one the theorems are about                   *)

LEMMA ServerAssumptions ==
  SP!HeardAssumption /\ SP!NoCallbackAssumption /\ SP!BoundAssumption
BY BoundAssumption

LEMMA SameInvariant == Srv!IInv <=> SP!IInv
<1>1. Srv!TypeOK <=> SP!TypeOK
  BY DEF Srv!TypeOK, SP!TypeOK, Srv!Frame, SP!Frame
<1>2. /\ Srv!Firsts = SP!Firsts
      /\ Srv!Open = SP!Open
      /\ Srv!FirstNumbers = SP!FirstNumbers
  BY DEF Srv!Firsts, SP!Firsts, Srv!Open, SP!Open, Srv!FirstNumbers, SP!FirstNumbers
<1>3. Srv!TableMatchesWire <=> SP!TableMatchesWire
  BY <1>2 DEF Srv!TableMatchesWire, SP!TableMatchesWire, Srv!NumbersOf, SP!NumbersOf
<1>4. Srv!OneEntryPerNumber <=> SP!OneEntryPerNumber
  BY DEF Srv!OneEntryPerNumber, SP!OneEntryPerNumber
<1>5. Srv!EventAfterCallback <=> SP!EventAfterCallback
  BY <1>2 DEF Srv!EventAfterCallback, SP!EventAfterCallback
<1>6. Srv!NumbersUsed <=> SP!NumbersUsed
  BY <1>2 DEF Srv!NumbersUsed, SP!NumbersUsed
<1>7. Srv!WireInOrder <=> SP!WireInOrder
  BY <1>2 DEF Srv!WireInOrder, SP!WireInOrder
<1>8. Srv!RestBehindFirst <=> SP!RestBehindFirst
  BY <1>2 DEF Srv!RestBehindFirst, SP!RestBehindFirst
<1> QED BY <1>1, <1>3, <1>4, <1>5, <1>6, <1>7, <1>8 DEF Srv!IInv, SP!IInv

LEMMA SameInvariantNext == Srv!IInv' <=> SP!IInv'
BY SameInvariant, PTL

LEMMA SameSteps ==
  ASSUME NEW rs, NEW es, NEW bodies, NEW body
  PROVE  /\ Srv!HandlePacket(rs, es) <=> SP!HandlePacket(rs, es)
         /\ Srv!HandleEvent(rs, es) <=> SP!HandleEvent(rs, es)
         /\ Srv!Answer(bodies) <=> SP!Answer(bodies)
         /\ Srv!Push(body) <=> SP!Push(body)
<1>1. /\ Srv!SendAll(rs) <=> SP!SendAll(rs)
      /\ Srv!Entries(rs) = SP!Entries(rs)
  BY DEF Srv!SendAll, SP!SendAll, Srv!Entries, SP!Entries
<1>2. Srv!HandlePacket(rs, es) <=> SP!HandlePacket(rs, es)
  BY <1>1 DEF Srv!HandlePacket, SP!HandlePacket, Srv!Called, SP!Called,
              Srv!Matching, SP!Matching, Srv!Posted, SP!Posted
<1>3. Srv!HandleEvent(rs, es) <=> SP!HandleEvent(rs, es)
  BY <1>1 DEF Srv!HandleEvent, SP!HandleEvent
<1>4. /\ Srv!Answer(bodies) <=> SP!Answer(bodies)
      /\ Srv!Push(body) <=> SP!Push(body)
  BY DEF Srv!Answer, SP!Answer, Srv!Push, SP!Push
<1> QED BY <1>2, <1>3, <1>4

(* Each of Server's steps keeps its invariant, whatever is sent in it.     *)
LEMMA ServerStep ==
  ASSUME Srv!IInv, NEW rs \in Seq(Srv!Request), NEW es \in Seq(SP!OwnEvent),
         NEW bodies \in Seq(Replies) \ {<<>>}, NEW body \in Replies,
         \/ Srv!HandlePacket(rs, es) \/ Srv!HandleEvent(rs, es)
         \/ Srv!Answer(bodies) \/ Srv!Push(body)
  PROVE  Srv!IInv'
<1>1. SP!IInv /\ rs \in Seq(SP!Request)
  BY SameInvariant DEF Srv!Request, SP!Request
<1>2. SP!IInv'
  <2>1. CASE Srv!HandlePacket(rs, es)
    BY <1>1, <2>1, SameSteps, ServerAssumptions, SP!HandlePacketInv
  <2>2. CASE Srv!HandleEvent(rs, es)
    BY <1>1, <2>2, SameSteps, ServerAssumptions, SP!HandleEventInv
  <2>3. CASE Srv!Answer(bodies)
    BY <1>1, <2>3, SameSteps, ServerAssumptions, SP!AnswerInv
  <2>4. CASE Srv!Push(body)
    BY <1>1, <2>4, SameSteps, ServerAssumptions, SP!PushInv
  <2> QED BY <2>1, <2>2, <2>3, <2>4
<1>3. Srv!IInv' <=> SP!IInv'
  BY SameInvariantNext
<1> QED BY <1>2, <1>3

-----------------------------------------------------------------------------
(* What the steps do to what is said                                       *)

LEMMA Queues ==
  ASSUME Srv!IInv
  PROVE  /\ toServer \in Seq([seq : Nat, body : Requests])
         /\ fromServer \in Seq([seq : Nat, body : Replies, first : BOOLEAN])
         /\ events \in Seq([seq : Nat, body : Replies])
         /\ Wire \in Seq(Requests) /\ Arriving \in Seq(Replies) /\ Waiting \in Seq(Replies)
         /\ toServer = <<>> <=> Wire = <<>>
         /\ fromServer = <<>> <=> Arriving = <<>>
         /\ events = <<>> <=> Waiting = <<>>
         /\ events # <<>> => Content = Head(Waiting)
         /\ toServer # <<>> => Question = Head(Wire)
         /\ fromServer # <<>> => Head(fromServer).body = Head(Arriving)
<1>1. /\ toServer \in Seq([seq : 2..seq, body : Requests]) /\ seq \in Nat
      /\ fromServer \in Seq([seq : Nat, body : Replies, first : BOOLEAN])
      /\ events \in Seq([seq : Nat, body : Replies])
  BY DEF Srv!IInv, Srv!TypeOK, Srv!Frame
<1>2. toServer \in Seq([seq : Nat, body : Requests])
  <2> DEFINE Q == [seq : 2..seq, body : Requests]
             T == [seq : Nat, body : Requests]
  <2>1. Q \subseteq T
    BY <1>1
  <2>2. toServer \in Seq(Q)
    BY <1>1
  <2> HIDE DEF Q, T
  <2>3. toServer \in Seq(T)
    BY <2>1, <2>2, SeqMonotonic
  <2> QED BY <2>3 DEF T
<1>3. /\ \A x \in [seq : Nat, body : Requests] : x.body \in Requests
      /\ \A x \in [seq : Nat, body : Replies, first : BOOLEAN] : x.body \in Replies
      /\ \A x \in [seq : Nat, body : Replies] : x.body \in Replies
  OBVIOUS
<1>4. /\ Wire \in Seq(Requests) /\ (toServer = <<>> <=> Wire = <<>>)
      /\ toServer # <<>> => Question = Head(Wire)
  BY <1>2, <1>3, BodiesOf, BodiesTail DEF Wire, Question
<1>5. /\ Arriving \in Seq(Replies) /\ (fromServer = <<>> <=> Arriving = <<>>)
      /\ fromServer # <<>> => Head(fromServer).body = Head(Arriving)
  BY <1>1, <1>3, BodiesOf, BodiesTail DEF Arriving
<1>6. /\ Waiting \in Seq(Replies) /\ (events = <<>> <=> Waiting = <<>>)
      /\ events # <<>> => Content = Head(Waiting)
  BY <1>1, <1>3, BodiesOf, BodiesTail DEF Waiting, Content
<1> QED BY <1>1, <1>2, <1>4, <1>5, <1>6

(* What is sent without a callback.                                        *)
Asks(bs) == [i \in 1..Len(bs) |-> Ask(bs[i])]
Events(bs) == [i \in 1..Len(bs) |-> Event(bs[i])]

LEMMA Sent ==
  /\ \A bs \in Seq(Requests) : Asks(bs) \in Seq(Srv!Request) /\ Bodies(Asks(bs)) = bs
  /\ \A bs \in Seq(Replies) : Events(bs) \in Seq(SP!OwnEvent) /\ Bodies(Events(bs)) = bs
<1>1. ASSUME NEW bs \in Seq(Requests)
      PROVE  Asks(bs) \in Seq(Srv!Request) /\ Bodies(Asks(bs)) = bs
  <2>1. Len(bs) \in Nat /\ \A i \in 1..Len(bs) : bs[i] \in Requests
    OBVIOUS
  <2>2. \A i \in 1..Len(bs) : Ask(bs[i]) \in Srv!Request /\ Ask(bs[i]).body = bs[i]
    BY <2>1 DEF Ask, Srv!Request
  <2>3. /\ Asks(bs) \in [1..Len(bs) -> Srv!Request]
        /\ \A i \in 1..Len(bs) : Asks(bs)[i].body = bs[i]
    BY <2>2 DEF Asks
  <2>4. Asks(bs) \in Seq(Srv!Request) /\ Len(Asks(bs)) = Len(bs)
    BY <2>1, <2>3
  <2>5. Bodies(Asks(bs)) = [i \in 1..Len(bs) |-> bs[i]]
    BY <2>3, <2>4 DEF Bodies
  <2>6. bs = [i \in 1..Len(bs) |-> bs[i]]
    OBVIOUS
  <2> QED BY <2>4, <2>5, <2>6
<1>2. ASSUME NEW bs \in Seq(Replies)
      PROVE  Events(bs) \in Seq(SP!OwnEvent) /\ Bodies(Events(bs)) = bs
  <2>1. Len(bs) \in Nat /\ \A i \in 1..Len(bs) : bs[i] \in Replies
    OBVIOUS
  <2>2. \A i \in 1..Len(bs) : Event(bs[i]) \in SP!OwnEvent /\ Event(bs[i]).body = bs[i]
    BY <2>1 DEF Event, SP!OwnEvent
  <2>3. /\ Events(bs) \in [1..Len(bs) -> SP!OwnEvent]
        /\ \A i \in 1..Len(bs) : Events(bs)[i].body = bs[i]
    BY <2>2 DEF Events
  <2>4. Events(bs) \in Seq(SP!OwnEvent) /\ Len(Events(bs)) = Len(bs)
    BY <2>1, <2>3
  <2>5. Bodies(Events(bs)) = [i \in 1..Len(bs) |-> bs[i]]
    BY <2>3, <2>4 DEF Bodies
  <2>6. bs = [i \in 1..Len(bs) |-> bs[i]]
    OBVIOUS
  <2> QED BY <2>4, <2>5, <2>6
<1> QED BY <1>1, <1>2

LEMMA FrameMoves ==
  ASSUME Srv!IInv, fromServer # <<>>, Srv!HandlePacket(<<>>, <<>>)
  PROVE  /\ Srv!IInv'
         /\ Arriving # <<>> /\ Head(Arriving) \in Replies
         /\ Arriving' = Tail(Arriving)
         /\ Waiting' = Waiting \o (IF Head(Arriving) \in Unheard THEN <<>> ELSE <<Head(Arriving)>>)
         /\ Wire' = Wire
<1> DEFINE f == Head(fromServer)
           e == [seq |-> f.seq, body |-> f.body]
<1>1. Srv!IInv'
  <2>1. <<>> \in Seq(Srv!Request) /\ <<>> \in Seq(SP!OwnEvent)
    OBVIOUS
  <2>2. PICK bodies \in Seq(Replies) \ {<<>>} : TRUE
    <3>1. Msg("SEQUENCE") \in Replies
      BY DEF Replies, Unheard
    <3>2. <<Msg("SEQUENCE")>> \in Seq(Replies) \ {<<>>}
      BY <3>1
    <3> QED BY <3>2
  <2>3. Msg("SEQUENCE") \in Replies
    BY DEF Replies, Unheard
  <2> QED BY <2>1, <2>2, <2>3, ServerStep
<1>2. /\ fromServer' = Tail(fromServer)
      /\ events' = (events \o <<>>) \o Srv!Posted(f)
      /\ Srv!SendAll(<<>>)
  BY DEF Srv!HandlePacket
<1>3. toServer' = toServer
  <2>1. toServer' = toServer \o [i \in 1..Len(<<>>) |-> [seq |-> seq + i, body |-> <<>>[i].body]]
    BY <1>2 DEF Srv!SendAll
  <2>2. [i \in 1..Len(<<>>) |-> [seq |-> seq + i, body |-> <<>>[i].body]] = <<>>
    OBVIOUS
  <2> QED BY <2>1, <2>2, Queues, ConcatEmptySeq
<1>4. f \in [seq : Nat, body : Replies, first : BOOLEAN] /\ f.body = Head(Arriving)
      /\ Arriving # <<>> /\ Arriving \in Seq(Replies)
  BY Queues, HeadAndTail
<1>5. Arriving' = Tail(Arriving)
  BY <1>2, Queues, BodiesTail DEF Arriving
<1>6. Waiting' = Waiting \o (IF Head(Arriving) \in Unheard THEN <<>> ELSE <<Head(Arriving)>>)
  <2>1. events' = events \o Srv!Posted(f)
    BY <1>2, Queues, ConcatEmptySeq
  <2>2. CASE f.body \in Unheard
    <3>1. Srv!Posted(f) = <<>>
      BY <2>2 DEF Srv!Posted
    <3>2. events' = events
      BY <2>1, <3>1, Queues, ConcatEmptySeq
    <3>3. Waiting \o <<>> = Waiting
      BY Queues, ConcatEmptySeq
    <3> QED BY <1>4, <2>2, <3>2, <3>3 DEF Waiting
  <2>3. CASE f.body \notin Unheard
    <3>1. Srv!Posted(f) = <<e>> /\ e \in [seq : Nat, body : Replies] /\ e.body = f.body
      BY <1>4, <2>3 DEF Srv!Posted
    <3> HIDE DEF e
    <3>2. <<e>> \in Seq([seq : Nat, body : Replies]) /\ Bodies(<<e>>) = <<f.body>>
      BY <3>1 DEF Bodies
    <3>3. Bodies(events \o <<e>>) = Bodies(events) \o Bodies(<<e>>)
      BY <3>2, Queues, BodiesConcat
    <3> QED BY <1>4, <2>1, <2>3, <3>1, <3>2, <3>3 DEF Waiting
  <2> QED BY <2>2, <2>3
<1> QED BY <1>1, <1>3, <1>4, <1>5, <1>6, HeadAndTail DEF Wire

LEMMA EventMoves ==
  ASSUME Srv!IInv, NEW rs \in Seq(Srv!Request), NEW es \in Seq(SP!OwnEvent),
         Srv!HandleEvent(rs, es)
  PROVE  /\ Srv!IInv'
         /\ Waiting # <<>> /\ Content = Head(Waiting)
         /\ Waiting' = Tail(Waiting) \o Bodies(es)
         /\ Wire' = Wire \o Bodies(rs)
         /\ Arriving' = Arriving
<1>1. Srv!IInv'
  <2>2. PICK bodies \in Seq(Replies) \ {<<>>} : TRUE
    <3>1. Msg("SEQUENCE") \in Replies
      BY DEF Replies, Unheard
    <3>2. <<Msg("SEQUENCE")>> \in Seq(Replies) \ {<<>>}
      BY <3>1
    <3> QED BY <3>2
  <2>3. Msg("SEQUENCE") \in Replies
    BY DEF Replies, Unheard
  <2> QED BY <2>2, <2>3, ServerStep
<1>2. /\ events # <<>> /\ events' = Tail(events) \o es
      /\ toServer' = toServer \o Numbered(seq, rs)
      /\ fromServer' = fromServer
  BY DEF Srv!HandleEvent, Srv!SendAll, Numbered
<1>3. Waiting # <<>> /\ Content = Head(Waiting) /\ Arriving' = Arriving
  BY <1>2, Queues DEF Arriving
<1>4. Waiting' = Tail(Waiting) \o Bodies(es)
  <2> DEFINE Q == [seq : Nat, body : Replies]
             t == Tail(events)
  <2>1. t \in Seq(Q) /\ es \in Seq(Q) /\ Bodies(t) = Tail(Waiting)
    <3>1. SP!OwnEvent \subseteq Q
      BY DEF SP!OwnEvent
    <3>2. es \in Seq(Q)
      BY <3>1, SeqMonotonic
    <3>3. t \in Seq(Q)
      BY <1>2, Queues, HeadAndTail
    <3>4. Bodies(t) = Tail(Waiting)
      BY <1>2, Queues, BodiesTail DEF Waiting
    <3> QED BY <3>2, <3>3, <3>4
  <2> HIDE DEF t, Q
  <2>2. Bodies(t \o es) = Bodies(t) \o Bodies(es)
    BY <2>1, BodiesConcat
  <2> QED BY <1>2, <2>1, <2>2 DEF Waiting, t
<1>5. Wire' = Wire \o Bodies(rs)
  <2> DEFINE Q == [seq : Nat, body : Requests]
             t == Numbered(seq, rs)
  <2>1. t \in Seq(Q) /\ Bodies(t) = Bodies(rs)
    <3>1. seq \in Nat
      BY DEF Srv!IInv, Srv!TypeOK
    <3>2. Len(rs) \in Nat /\ \A i \in 1..Len(rs) : rs[i].body \in Requests
      <4>1. Len(rs) \in Nat /\ \A i \in 1..Len(rs) : rs[i] \in Srv!Request
        OBVIOUS
      <4>2. \A x \in Srv!Request : x.body \in Requests
        BY DEF Srv!Request
      <4> QED BY <4>1, <4>2
    <3>3. t \in [1..Len(rs) -> Q]
      BY <3>1, <3>2 DEF Numbered
    <3>4. t \in Seq(Q)
      <4> HIDE DEF t, Q
      <4> QED BY <3>2, <3>3
    <3> QED BY <3>4, BodiesNumbered
  <2>2. toServer \in Seq(Q) /\ toServer' = toServer \o t
    BY <1>2, Queues
  <2> HIDE DEF t, Q
  <2>3. Bodies(toServer \o t) = Bodies(toServer) \o Bodies(t)
    BY <2>1, <2>2, BodiesConcat
  <2> QED BY <2>1, <2>2, <2>3 DEF Wire
<1> QED BY <1>1, <1>3, <1>4, <1>5

LEMMA AnswerMoves ==
  ASSUME Srv!IInv, NEW bodies \in Seq(Replies) \ {<<>>}, Srv!Answer(bodies)
  PROVE  /\ Srv!IInv'
         /\ Wire # <<>> /\ Question = Head(Wire)
         /\ Wire' = Tail(Wire)
         /\ Arriving' = Arriving \o bodies
         /\ Waiting' = Waiting
<1> DEFINE F == [seq : Nat, body : Replies, first : BOOLEAN]
           new == [i \in 1..Len(bodies) |->
                     [seq |-> Head(toServer).seq, body |-> bodies[i], first |-> i = 1]]
<1>1. Srv!IInv'
  <2>1. <<>> \in Seq(Srv!Request) /\ <<>> \in Seq(SP!OwnEvent)
    OBVIOUS
  <2>2. Msg("SEQUENCE") \in Replies
    BY DEF Replies, Unheard
  <2> QED BY <2>1, <2>2, ServerStep
<1>2. /\ toServer # <<>> /\ toServer' = Tail(toServer)
      /\ fromServer' = fromServer \o new
      /\ events' = events
  BY DEF Srv!Answer
<1>3. Wire # <<>> /\ Question = Head(Wire) /\ Wire' = Tail(Wire) /\ Waiting' = Waiting
  BY <1>2, Queues, BodiesTail DEF Wire, Waiting
<1>4. new \in Seq(F) /\ Bodies(new) = bodies
  <2>1. Head(toServer).seq \in Nat
    <3>1. Head(toServer) \in [seq : Nat, body : Requests]
      BY <1>2, Queues, HeadAndTail
    <3> QED BY <3>1
  <2>2. Len(bodies) \in Nat /\ \A i \in 1..Len(bodies) : bodies[i] \in Replies
    OBVIOUS
  <2>3. new \in [1..Len(bodies) -> F] /\ \A i \in 1..Len(bodies) : new[i].body = bodies[i]
    BY <2>1, <2>2
  <2> HIDE DEF new, F
  <2>4. new \in Seq(F) /\ Len(new) = Len(bodies)
    BY <2>2, <2>3
  <2>5. Bodies(new) = [i \in 1..Len(bodies) |-> bodies[i]]
    BY <2>3, <2>4 DEF Bodies
  <2>6. bodies = [i \in 1..Len(bodies) |-> bodies[i]]
    OBVIOUS
  <2> QED BY <2>4, <2>5, <2>6
<1>5. fromServer \in Seq(F)
  BY Queues
<1> HIDE DEF new, F
<1>6. Bodies(fromServer \o new) = Bodies(fromServer) \o Bodies(new)
  BY <1>4, <1>5, BodiesConcat
<1> QED BY <1>1, <1>2, <1>3, <1>4, <1>6 DEF Arriving

LEMMA PushMoves ==
  ASSUME Srv!IInv, NEW body \in Replies, Srv!Push(body)
  PROVE  /\ Srv!IInv'
         /\ Wire' = Wire
         /\ Arriving' = Arriving \o <<body>>
         /\ Waiting' = Waiting
<1> DEFINE F == [seq : Nat, body : Replies, first : BOOLEAN]
           f == [seq |-> 0, body |-> body, first |-> FALSE]
<1>1. Srv!IInv'
  <2>1. <<>> \in Seq(Srv!Request) /\ <<>> \in Seq(SP!OwnEvent)
    OBVIOUS
  <2>2. <<body>> \in Seq(Replies) \ {<<>>}
    OBVIOUS
  <2> QED BY <2>1, <2>2, ServerStep
<1>2. fromServer' = Append(fromServer, f) /\ toServer' = toServer /\ events' = events
  BY DEF Srv!Push
<1>3. fromServer \in Seq(F) /\ f \in F /\ f.body = body
  BY Queues
<1> HIDE DEF f, F
<1>4. <<f>> \in Seq(F) /\ Append(fromServer, f) = fromServer \o <<f>> /\ Bodies(<<f>>) = <<body>>
  BY <1>3, AppendContents DEF Bodies
<1>5. Bodies(fromServer \o <<f>>) = Bodies(fromServer) \o Bodies(<<f>>)
  BY <1>3, <1>4, BodiesConcat
<1> QED BY <1>1, <1>2, <1>4, <1>5 DEF Arriving, Wire, Waiting

LEMMA Said ==
  /\ \A b \in Requests :
       /\ b.type \in {"GetIDs", "GetPage", "Get"} /\ b.kind \in Kinds
       /\ b.type = "GetPage" => b.key \in Seq(Thing) /\ b.pos \in Nat
       /\ b.type = "Get" => b.ids \in Seq(Ids)
  /\ \A b \in Replies :
       /\ b.type = "ListOfIDs" => /\ b.kind \in Kinds /\ b.key \in Seq(Thing)
                                  /\ b.things \in Seq(Thing) /\ b.more \in Nat
       /\ b.type = "Data" => b.kind \in Kinds /\ b.thing \in Thing
       /\ b.type \in {"ObjectNew", "ObjectChanged"} => /\ b.id \in Ids
                                                       /\ b = ObjectEvent(b.type, b.id)
       /\ b.type \in {"SEQUENCE", "TurnEnds", "NewTurn", "Connected", "Fail"} => b = Msg(b.type)
  /\ FramesSent \subseteq Replies /\ EventsSent \subseteq Replies /\ RequestsAsked \subseteq Requests
  /\ FramesSent \ Unheard \subseteq EventsSent
  /\ FramesSent \cap ObjectEvents = {}
  /\ \A type : Msg(type).type = type
<1>1. /\ \A b \in Requests :
           /\ b.type \in {"GetIDs", "GetPage", "Get"} /\ b.kind \in Kinds
           /\ b.type = "GetPage" => b.key \in Seq(Thing) /\ b.pos \in Nat
           /\ b.type = "Get" => b.ids \in Seq(Ids)
  BY DEF Requests
<1>2. \A type : Msg(type).type = type
  BY DEF Msg
<1>3. \A b \in Replies :
        /\ b.type = "ListOfIDs" => /\ b.kind \in Kinds /\ b.key \in Seq(Thing)
                                   /\ b.things \in Seq(Thing) /\ b.more \in Nat
        /\ b.type = "Data" => b.kind \in Kinds /\ b.thing \in Thing
        /\ b.type \in {"ObjectNew", "ObjectChanged"} => /\ b.id \in Ids
                                                        /\ b = ObjectEvent(b.type, b.id)
        /\ b.type \in {"SEQUENCE", "TurnEnds", "NewTurn", "Connected", "Fail"} => b = Msg(b.type)
  <2> SUFFICES ASSUME NEW b \in Replies
               PROVE  /\ b.type = "ListOfIDs" => /\ b.kind \in Kinds /\ b.key \in Seq(Thing)
                                                 /\ b.things \in Seq(Thing) /\ b.more \in Nat
                      /\ b.type = "Data" => b.kind \in Kinds /\ b.thing \in Thing
                      /\ b.type \in {"ObjectNew", "ObjectChanged"} =>
                           b.id \in Ids /\ b = ObjectEvent(b.type, b.id)
                      /\ b.type \in {"SEQUENCE", "TurnEnds", "NewTurn", "Connected", "Fail"} =>
                           b = Msg(b.type)
    OBVIOUS
  <2>1. CASE b \in Unheard \cup {Msg("TurnEnds"), Msg("NewTurn"), Msg("Connected"), Msg("Fail")}
    BY <1>2, <2>1 DEF Unheard
  <2>2. CASE b \in [type : {"ListOfIDs"}, kind : Kinds, key : Seq(Thing), things : Seq(Thing),
                    more : Nat]
    BY <2>2
  <2>3. CASE b \in [type : {"Data"}, kind : Kinds, thing : Thing]
    BY <2>3
  <2>4. CASE b \in [type : {"ObjectNew", "ObjectChanged"}, id : Ids]
    BY <2>4 DEF ObjectEvent
  <2> QED BY <2>1, <2>2, <2>3, <2>4 DEF Replies
<1>4. Registering \subseteq Replies /\ \A b \in Registering : b.type \in {"ListOfIDs", "Data"}
  BY DEF Registering, ListOrData
<1>5. {Msg("SEQUENCE"), Msg("TurnEnds"), Msg("NewTurn"), Msg("Connected"), Msg("Fail")} \subseteq Replies
  BY DEF Replies, Unheard
<1>6. FramesSent \subseteq Replies /\ EventsSent \subseteq Replies /\ RequestsAsked \subseteq Requests
  BY <1>4, <1>5 DEF FramesSent, EventsSent, RequestsAsked, Starting, ObjectEvents
<1>7. FramesSent \ Unheard \subseteq EventsSent
  BY DEF FramesSent, EventsSent, Unheard, Starting
<1>8. FramesSent \cap ObjectEvents = {}
  BY <1>2, <1>4 DEF FramesSent, ObjectEvents
<1> QED BY <1>1, <1>2, <1>3, <1>6, <1>7, <1>8

-----------------------------------------------------------------------------
(* What the steps do to what is under way                                  *)

Count(s, X) == Cardinality(Places(s, X))

LEMMA FrameEffect ==
  ASSUME IInv, Frame
  PROVE  /\ Srv!IInv'
         /\ Wire' = Wire
         /\ Arriving' \in Seq(FramesSent) /\ Waiting' \in Seq(EventsSent)
         /\ Passing' \subseteq Passing /\ Passing \ Unheard \subseteq Passing'
         /\ \E t \in Seq(FramesSent) : Waiting' = Waiting \o t
         /\ \A R : Chain(Waiting, Arriving, R) => Chain(Waiting', Arriving', R)
         /\ \A X : X \cap Unheard = {} =>
              Count(Arriving', X) + Count(Waiting', X) = Count(Arriving, X) + Count(Waiting, X)
<1> DEFINE h == Head(Arriving)
           t == IF h \in Unheard THEN <<>> ELSE <<h>>
<1>1. /\ Srv!IInv' /\ Wire' = Wire
      /\ Arriving # <<>> /\ Arriving' = Tail(Arriving)
      /\ Waiting' = Waiting \o t
  BY FrameMoves DEF IInv, Frame
<1>2. /\ Arriving \in Seq(FramesSent) /\ Waiting \in Seq(EventsSent)
      /\ Arriving \in Seq(Replies) /\ Waiting \in Seq(Replies)
  BY Queues DEF IInv, Typed
<1>3. /\ h \in FramesSent /\ Tail(Arriving) \in Seq(FramesSent)
      /\ ToSet(Arriving) = {h} \cup ToSet(Tail(Arriving))
      /\ h \in Replies /\ (h \notin Unheard => h \in EventsSent)
  BY <1>1, <1>2, HeadAndTail, Said
<1>4. t \in Seq(FramesSent) /\ t \in Seq(EventsSent) /\ t \in Seq(Replies)
      /\ ToSet(t) = {h} \ Unheard
  <2>1. CASE h \in Unheard
    BY <2>1, EmptyContents
  <2>2. CASE h \notin Unheard
    BY <1>3, <2>2, SingleContents
  <2> QED BY <2>1, <2>2
<1>5. \A R : Chain(Waiting, Arriving, R) => Chain(Waiting', Arriving', R)
  <2> SUFFICES ASSUME NEW R, Chain(Waiting, Arriving, R) PROVE Chain(Waiting', Arriving', R)
    OBVIOUS
  <2>1. Chain(Waiting \o <<h>>, Tail(Arriving), R) /\ Chain(Waiting, Tail(Arriving), R)
    BY <1>1, <1>2, ChainPasses
  <2>2. Waiting \o <<>> = Waiting
    BY <1>2, ConcatEmptySeq
  <2> QED BY <1>1, <2>1, <2>2
<1> HIDE DEF t
<1>6. /\ Waiting' \in Seq(EventsSent)
      /\ ToSet(Waiting') = ToSet(Waiting) \cup ToSet(t)
      /\ \A X : Count(Waiting', X) = Count(Waiting, X) + Count(t, X)
  <2>1. Waiting \o t \in Seq(EventsSent) /\ ToSet(Waiting \o t) = ToSet(Waiting) \cup ToSet(t)
    BY <1>2, <1>4, ConcatContents
  <2>2. \A X : Count(Waiting \o t, X) = Count(Waiting, X) + Count(t, X)
    BY <1>2, <1>4, ConcatCount DEF Count
  <2> QED BY <1>1, <2>1, <2>2
<1>7. Passing' = ToSet(Arriving') \cup ToSet(Waiting')
  BY DEF Passing
<1>8. Passing' \subseteq Passing /\ Passing \ Unheard \subseteq Passing'
  BY <1>1, <1>3, <1>4, <1>6, <1>7 DEF Passing
<1>9. ASSUME NEW X, X \cap Unheard = {}
      PROVE  Count(Arriving', X) + Count(Waiting', X) = Count(Arriving, X) + Count(Waiting, X)
  <2>1. Count(Arriving, X) = (IF h \in X THEN 1 ELSE 0) + Count(Tail(Arriving), X)
    BY <1>1, <1>2, TailCount DEF Count
  <2>2. Count(t, X) = IF h \in X THEN 1 ELSE 0
    <3>1. CASE h \in Unheard
      BY <1>9, <3>1, EmptyContents, FS_EmptySet DEF t, Count
    <3>2. CASE h \notin Unheard
      BY <3>2, SingleCount DEF t, Count
    <3> QED BY <3>1, <3>2
  <2>3. Count(Waiting, X) \in Nat /\ Count(Tail(Arriving), X) \in Nat
    BY <1>2, <1>3, PlacesFinite DEF Count
  <2> QED BY <1>1, <1>6, <2>1, <2>2, <2>3
<1> QED BY <1>1, <1>3, <1>4, <1>5, <1>6, <1>8, <1>9

LEMMA EventEffect ==
  ASSUME IInv, NEW bs \in Seq(RequestsAsked), NEW cs \in Seq(EventsSent),
         Srv!HandleEvent(Asks(bs), Events(cs))
  PROVE  /\ Srv!IInv'
         /\ Waiting # <<>> /\ Content = Head(Waiting)
         /\ Content \in EventsSent /\ Content \in ToSet(Waiting) /\ Content \in Passing
         /\ Wire' \in Seq(RequestsAsked) /\ ToSet(Wire') = ToSet(Wire) \cup ToSet(bs)
         /\ Arriving' = Arriving
         /\ Waiting' = Tail(Waiting) \o cs
         /\ Waiting' \in Seq(EventsSent)
         /\ ToSet(Waiting') \subseteq ToSet(Waiting) \cup ToSet(cs)
         /\ Passing' \subseteq Passing \cup ToSet(cs)
         /\ Passing \subseteq Passing' \cup {Content} /\ ToSet(cs) \subseteq Passing'
         /\ \A X : /\ Count(Wire', X) = Count(Wire, X) + Count(bs, X)
                   /\ Count(Waiting', X) + (IF Content \in X THEN 1 ELSE 0)
                        = Count(Waiting, X) + Count(cs, X)
<1>1. bs \in Seq(Requests) /\ cs \in Seq(Replies)
  BY Said, SeqMonotonic
<1>2. /\ Asks(bs) \in Seq(Srv!Request) /\ Bodies(Asks(bs)) = bs
      /\ Events(cs) \in Seq(SP!OwnEvent) /\ Bodies(Events(cs)) = cs
  BY <1>1, Sent
<1>3. /\ Srv!IInv'
      /\ Waiting # <<>> /\ Content = Head(Waiting)
      /\ Waiting' = Tail(Waiting) \o cs
      /\ Wire' = Wire \o bs
      /\ Arriving' = Arriving
  BY <1>2, EventMoves DEF IInv
<1>4. Waiting \in Seq(EventsSent) /\ Wire \in Seq(RequestsAsked)
  BY DEF IInv, Typed
<1>5. /\ Waiting' \in Seq(EventsSent)
      /\ ToSet(Waiting) = {Content} \cup ToSet(Tail(Waiting))
      /\ ToSet(Waiting') = ToSet(Tail(Waiting)) \cup ToSet(cs)
      /\ \A X : Count(Waiting', X) + (IF Content \in X THEN 1 ELSE 0)
                  = Count(Waiting, X) + Count(cs, X)
  BY <1>3, <1>4, StepCount DEF Count
<1>6. Wire' \in Seq(RequestsAsked) /\ ToSet(Wire') = ToSet(Wire) \cup ToSet(bs)
  BY <1>3, <1>4, ConcatContents
<1>7. \A X : Count(Wire', X) = Count(Wire, X) + Count(bs, X)
  BY <1>3, <1>4, ConcatCount DEF Count
<1>8. Content \in EventsSent
  BY <1>3, <1>4, HeadAndTail
<1>9. Passing' = ToSet(Arriving) \cup ToSet(Waiting')
  BY <1>3 DEF Passing
<1>10. /\ Passing' \subseteq Passing \cup ToSet(cs) /\ Content \in Passing
       /\ Passing \subseteq Passing' \cup {Content} /\ ToSet(cs) \subseteq Passing'
  BY <1>5, <1>9 DEF Passing
<1> QED BY <1>3, <1>5, <1>6, <1>7, <1>8, <1>10

LEMMA EventCounts ==
  ASSUME IInv, NEW bs \in Seq(RequestsAsked), NEW cs \in Seq(EventsSent),
         Srv!HandleEvent(Asks(bs), Events(cs)), NEW X
  PROVE  /\ Count(Wire', X) = Count(Wire, X) + Count(bs, X)
         /\ Count(Waiting', X) + (IF Content \in X THEN 1 ELSE 0)
              = Count(Waiting, X) + Count(cs, X)
         /\ Arriving' = Arriving
         /\ {Count(Wire, X), Count(Arriving, X), Count(Waiting, X), Count(Wire', X),
             Count(Waiting', X), Count(bs, X), Count(cs, X)} \subseteq Nat
<1>1. /\ Wire \in Seq(RequestsAsked) /\ Arriving \in Seq(FramesSent) /\ Waiting \in Seq(EventsSent)
  BY DEF IInv, Typed
<1>2. /\ Wire' \in Seq(RequestsAsked) /\ Waiting' \in Seq(EventsSent) /\ Arriving' = Arriving
  BY EventEffect
<1>3. {Count(Wire, X), Count(Arriving, X), Count(Waiting, X), Count(Wire', X),
       Count(Waiting', X), Count(bs, X), Count(cs, X)} \subseteq Nat
  BY <1>1, <1>2, PlacesFinite DEF Count
<1>4. \A Y : /\ Count(Wire', Y) = Count(Wire, Y) + Count(bs, Y)
             /\ Count(Waiting', Y) + (IF Content \in Y THEN 1 ELSE 0)
                  = Count(Waiting, Y) + Count(cs, Y)
  BY EventEffect
<1> QED BY <1>2, <1>3, <1>4

LEMMA AnswerEffect ==
  ASSUME IInv, NEW bodies \in Seq(FramesSent) \ {<<>>}, Srv!Answer(bodies)
  PROVE  /\ Srv!IInv'
         /\ Question \in RequestsAsked /\ Question \in ToSet(Wire)
         /\ Wire' \in Seq(RequestsAsked) /\ ToSet(Wire) = ToSet(Wire') \cup {Question}
         /\ Arriving' = Arriving \o bodies
         /\ Arriving' \in Seq(FramesSent)
         /\ Waiting' = Waiting
         /\ Passing' = Passing \cup ToSet(bodies)
         /\ \A X : /\ Count(Wire', X) + (IF Question \in X THEN 1 ELSE 0) = Count(Wire, X)
                   /\ Count(Arriving', X) = Count(Arriving, X) + Count(bodies, X)
<1>1. bodies \in Seq(Replies) \ {<<>>}
  BY Said, SeqMonotonic
<1>2. /\ Srv!IInv'
      /\ Wire # <<>> /\ Question = Head(Wire)
      /\ Wire' = Tail(Wire)
      /\ Arriving' = Arriving \o bodies
      /\ Waiting' = Waiting
  BY <1>1, AnswerMoves DEF IInv
<1>3. Arriving \in Seq(FramesSent) /\ Wire \in Seq(RequestsAsked)
  BY DEF IInv, Typed
<1>4. /\ Question \in RequestsAsked
      /\ Wire' \in Seq(RequestsAsked) /\ ToSet(Wire) = ToSet(Wire') \cup {Question}
  BY <1>2, <1>3, HeadAndTail
<1>5. \A X : Count(Wire', X) + (IF Question \in X THEN 1 ELSE 0) = Count(Wire, X)
  <2> SUFFICES ASSUME NEW X
               PROVE  Count(Wire', X) + (IF Question \in X THEN 1 ELSE 0) = Count(Wire, X)
    OBVIOUS
  <2>1. Count(Wire, X) = (IF Question \in X THEN 1 ELSE 0) + Count(Wire', X)
    BY <1>2, <1>3, TailCount DEF Count
  <2>2. Count(Wire', X) \in Nat
    BY <1>4, PlacesFinite DEF Count
  <2> QED BY <2>1, <2>2
<1>6. Arriving' \in Seq(FramesSent) /\ ToSet(Arriving') = ToSet(Arriving) \cup ToSet(bodies)
  BY <1>2, <1>3, ConcatContents
<1>7. \A X : Count(Arriving', X) = Count(Arriving, X) + Count(bodies, X)
  BY <1>2, <1>3, ConcatCount DEF Count
<1>8. Passing' = Passing \cup ToSet(bodies)
  BY <1>2, <1>6 DEF Passing
<1> QED BY <1>2, <1>4, <1>5, <1>6, <1>7, <1>8

-----------------------------------------------------------------------------
(* Times, versions and announcements                                       *)

LEMMA SameCache ==
  ASSUME cache' = cache
  PROVE  /\ \A k, id : PlacesOf(k, id)' = PlacesOf(k, id)
         /\ \A k, id : Lookup(k, id)' = Lookup(k, id)
         /\ \A k, id, updated : Cached(k, id, updated)' <=> Cached(k, id, updated)
BY DEF PlacesOf, Lookup, Cached

(* What is cached, by its places.                                          *)
LEMMA CachedThings ==
  ASSUME Typed, NEW k \in seqs
  PROVE  /\ cache[k] \in Seq(Thing) /\ Len(cache[k]) \in Nat
         /\ \A i \in 1..Len(cache[k]) : cache[k][i] \in ToSet(cache[k]) /\ cache[k][i] \in Thing
         /\ \A id : /\ PlacesOf(k, id) \subseteq 1..Len(cache[k])
                    /\ Lookup(k, id) \subseteq PlacesOf(k, id)
                    /\ \A i \in PlacesOf(k, id) : cache[k][i].id = id
                    /\ \A i, j \in Lookup(k, id) : i = j
<1>1. cache[k] \in Seq(Thing)
  BY DEF Typed
<1>2. /\ Len(cache[k]) \in Nat
      /\ \A i \in 1..Len(cache[k]) : cache[k][i] \in ToSet(cache[k]) /\ cache[k][i] \in Thing
  BY <1>1, Contents
<1>3. \A id : /\ PlacesOf(k, id) \subseteq 1..Len(cache[k])
              /\ Lookup(k, id) \subseteq PlacesOf(k, id)
              /\ \A i \in PlacesOf(k, id) : cache[k][i].id = id
  BY DEF PlacesOf, Lookup
<1>4. ASSUME NEW id, NEW i \in Lookup(k, id), NEW j \in Lookup(k, id)
      PROVE  i = j
  <2>1. i <= j /\ j <= i /\ i \in Nat /\ j \in Nat
    BY <1>2, <1>3 DEF Lookup
  <2> QED BY <2>1
<1> QED BY <1>1, <1>2, <1>3, <1>4

LEMMA DatedKept ==
  ASSUME IInv, UNCHANGED <<seqs, cache, catalogue, serverTurn>>,
         \A b \in Passing' : b \in Passing \/ (b.type = "Data" => NotAfter(b.kind, b.thing))
  PROVE  Dated'
<1>1. \A k, thing : NotAfter(k, thing)' <=> NotAfter(k, thing)
  BY DEF NotAfter
<1> QED BY <1>1 DEF IInv, Dated

LEMMA RiseKept ==
  ASSUME IInv, UNCHANGED cache, Chain(Waiting', Arriving', Rising),
         \A b \in Passing' :
           \/ b \in Passing
           \/ b.type = "Data" /\ b.kind \notin Appended =>
                \A i \in Lookup(b.kind, b.thing.id) : cache[b.kind][i].updated <= b.thing.updated
  PROVE  VersionsRise'
BY SameCache DEF IInv, VersionsRise

LEMMA AnnouncingKept ==
  ASSUME IInv, UNCHANGED <<seqs, cache, told>>,
         \A id : Count(Waiting', NewEvents(id)) = Count(Waiting, NewEvents(id)),
         Ordered(Waiting', NewFirst),
         ToSet(Waiting') \cap ObjectEvents \subseteq ToSet(Waiting)
  PROVE  Announcing'
BY SameCache DEF IInv, Announcing, Count

(* A frame that becomes an event.                                          *)
LEMMA FrameKeeps ==
  ASSUME IInv, Frame
  PROVE  Dated' /\ VersionsRise' /\ Announcing'
<1>1. UNCHANGED <<seqs, position, cache, told, catalogue, pageSize, serverTurn>>
  BY DEF Frame, peerVars
<1>2. /\ Passing' \subseteq Passing
      /\ \A R : Chain(Waiting, Arriving, R) => Chain(Waiting', Arriving', R)
  BY FrameEffect
<1>3. Dated'
  BY <1>1, <1>2, DatedKept
<1>4. VersionsRise'
  <2>1. Chain(Waiting', Arriving', Rising)
    BY <1>2 DEF IInv, VersionsRise
  <2> QED BY <1>1, <1>2, <2>1, RiseKept
<1>5. Announcing'
  <2>1. PICK t \in Seq(FramesSent) : Waiting' = Waiting \o t
    BY FrameEffect
  <2>2. /\ Waiting \in Seq(Replies) /\ t \in Seq(Replies) /\ ToSet(t) \subseteq FramesSent
        /\ ToSet(Waiting) \subseteq Replies
    <3>1. t \in Seq(Replies)
      BY Said, SeqMonotonic
    <3> QED BY <3>1, Queues, Contents DEF IInv
  <2>3. ToSet(Waiting') = ToSet(Waiting) \cup ToSet(t)
    BY <2>1, <2>2, ConcatContents
  <2>4. ToSet(Waiting') \cap ObjectEvents \subseteq ToSet(Waiting)
    BY <2>2, <2>3, Said
  <2>5. \A id : Count(Waiting', NewEvents(id)) = Count(Waiting, NewEvents(id))
    <3> SUFFICES ASSUME NEW id
                 PROVE  Count(Waiting', NewEvents(id)) = Count(Waiting, NewEvents(id))
      OBVIOUS
    <3>1. Count(Waiting', NewEvents(id)) = Count(Waiting, NewEvents(id)) + Count(t, NewEvents(id))
      BY <2>1, <2>2, ConcatCount DEF Count
    <3>2. ToSet(t) \cap NewEvents(id) = {}
      <4>1. \A b \in ToSet(t) : b.type # "ObjectNew"
        BY <2>2, Said DEF ObjectEvents
      <4> QED BY <4>1 DEF NewEvents, ObjectEvent
    <3>3. Count(t, NewEvents(id)) = 0 /\ Count(Waiting, NewEvents(id)) \in Nat
      BY <2>2, <3>2, PlacesFinite DEF Count
    <3> QED BY <3>1, <3>3
  <2>6. Ordered(Waiting', NewFirst)
    <3>1. Ordered(Waiting, NewFirst)
      BY DEF IInv, Announcing
    <3>2. \A x \in Replies, y \in ToSet(t) : <<x, y>> \in NewFirst
      <4>1. \A y \in ToSet(t) : y \in Replies /\ y.type # "ObjectNew"
        BY <2>2, Said DEF ObjectEvents
      <4> QED BY <4>1 DEF NewFirst
    <3>3. Across(Waiting, t, NewFirst)
      BY <2>2, <3>2 DEF Across
    <3>4. Ordered(t, NewFirst)
      <4>1. \A i \in 1..Len(t) : t[i] \in ToSet(t) /\ t[i] \in Replies
        BY <2>2, Contents
      <4> QED BY <3>2, <4>1 DEF Ordered
    <3> QED BY <2>1, <2>2, <3>1, <3>3, <3>4, ConcatOrdered
  <2> QED BY <1>1, <2>4, <2>5, <2>6, AnnouncingKept
<1> QED BY <1>3, <1>4, <1>5

(* An event at which nothing is cached and no version is sent.             *)
LEMMA EventKeepsVersions ==
  ASSUME IInv, NEW bs \in Seq(RequestsAsked), NEW cs \in Seq(EventsSent),
         Srv!HandleEvent(Asks(bs), Events(cs)),
         \A b \in ToSet(cs) : b.type # "Data",
         UNCHANGED <<seqs, cache, catalogue, serverTurn>>
  PROVE  Dated' /\ VersionsRise'
<1>1. /\ Waiting # <<>> /\ Arriving' = Arriving /\ Waiting' = Tail(Waiting) \o cs
      /\ Passing' \subseteq Passing \cup ToSet(cs)
  BY EventEffect
<1>2. Dated'
  BY <1>1, DatedKept
<1>3. /\ Waiting \in Seq(Replies) /\ Arriving \in Seq(Replies) /\ cs \in Seq(Replies)
      /\ ToSet(cs) \subseteq Replies
  <2>1. cs \in Seq(Replies)
    BY Said, SeqMonotonic
  <2> QED BY <2>1, Queues, Contents DEF IInv
<1>4. Chain(Waiting', Arriving', Rising)
  <2>1. \A x \in ToSet(cs), y \in Replies : <<x, y>> \in Rising /\ <<y, x>> \in Rising
    BY <1>3 DEF Rising
  <2>2. Chain(Waiting, Arriving, Rising)
    BY DEF IInv, VersionsRise
  <2>3. Chain(Tail(Waiting) \o cs, Arriving, Rising)
    BY <1>1, <1>3, <2>1, <2>2, ChainHandled
  <2> QED BY <1>1, <2>3
<1>5. VersionsRise'
  BY <1>1, <1>4, RiseKept
<1> QED BY <1>2, <1>5

(* An event that is about no thing.                                        *)
LEMMA PlainEventKeeps ==
  ASSUME IInv, NEW bs \in Seq(RequestsAsked), NEW cs \in Seq(EventsSent),
         Srv!HandleEvent(Asks(bs), Events(cs)),
         Content \notin ObjectEvents, ToSet(cs) \subseteq {Msg("NewTurn")},
         UNCHANGED <<seqs, cache, told, catalogue, serverTurn>>
  PROVE  Dated' /\ VersionsRise' /\ Announcing'
<1>1. /\ Waiting # <<>> /\ Content = Head(Waiting)
      /\ Arriving' = Arriving /\ Waiting' = Tail(Waiting) \o cs
      /\ ToSet(Waiting') \subseteq ToSet(Waiting) \cup ToSet(cs)
      /\ \A X : Count(Waiting', X) + (IF Content \in X THEN 1 ELSE 0)
                  = Count(Waiting, X) + Count(cs, X)
  BY EventEffect
<1>2. \A b \in ToSet(cs) : b.type = "NewTurn" /\ b \in Replies
  BY Said, Contents
<1>3. Dated' /\ VersionsRise'
  BY <1>2, EventKeepsVersions
<1>4. /\ Waiting \in Seq(Replies) /\ Arriving \in Seq(Replies) /\ cs \in Seq(Replies)
      /\ Waiting' \in Seq(Replies)
  <2>1. cs \in Seq(Replies)
    BY Said, SeqMonotonic
  <2>2. Waiting' \in Seq(Replies)
    BY EventEffect, Said, SeqMonotonic
  <2> QED BY <2>1, <2>2, Queues DEF IInv
<1>5. Announcing'
  <2>1. ToSet(Waiting') \cap ObjectEvents \subseteq ToSet(Waiting)
    BY <1>1, <1>2 DEF ObjectEvents
  <2>2. \A id : Count(Waiting', NewEvents(id)) = Count(Waiting, NewEvents(id))
    <3> SUFFICES ASSUME NEW id
                 PROVE  Count(Waiting', NewEvents(id)) = Count(Waiting, NewEvents(id))
      OBVIOUS
    <3>1. Content \notin NewEvents(id)
      <4>1. Content \in EventsSent
        BY EventEffect
      <4>2. Content.type # "ObjectNew"
        BY <4>1, Said DEF ObjectEvents
      <4> QED BY <4>2 DEF NewEvents, ObjectEvent
    <3>2. ToSet(cs) \cap NewEvents(id) = {}
      BY <1>2 DEF NewEvents, ObjectEvent
    <3>3. Count(cs, NewEvents(id)) = 0
      BY <1>4, <3>2, PlacesFinite DEF Count
    <3>4. Count(Waiting, NewEvents(id)) \in Nat /\ Count(Waiting', NewEvents(id)) \in Nat
      BY <1>4, PlacesFinite DEF Count
    <3>5. Count(Waiting', NewEvents(id)) + (IF Content \in NewEvents(id) THEN 1 ELSE 0)
                  = Count(Waiting, NewEvents(id)) + Count(cs, NewEvents(id))
      BY <1>1
    <3> QED BY <3>1, <3>3, <3>4, <3>5
  <2>3. Ordered(Waiting', NewFirst)
    <3>1. \A x \in ToSet(cs), y \in Replies : <<x, y>> \in NewFirst /\ <<y, x>> \in NewFirst
      BY <1>2 DEF NewFirst
    <3>2. Chain(Waiting, <<>>, NewFirst)
      BY ShortOrdered, EmptyContents DEF Chain, IInv, Announcing, Across
    <3>3. <<>> \in Seq(Replies)
      OBVIOUS
    <3>4. Chain(Tail(Waiting) \o cs, <<>>, NewFirst)
      BY <1>1, <1>4, <3>1, <3>2, <3>3, ChainHandled
    <3> QED BY <1>1, <3>4 DEF Chain
  <2> QED BY <2>1, <2>2, <2>3, AnnouncingKept
<1> QED BY <1>3, <1>5

(* An answer tells versions as they are.                                   *)
LEMMA AnswerKeeps ==
  ASSUME IInv, NEW bodies \in Seq(FramesSent) \ {<<>>}, Srv!Answer(bodies),
         UNCHANGED <<seqs, cache, told, catalogue, serverTurn>>,
         \A b \in ToSet(bodies) : b.type = "Data" =>
           /\ b.thing.id \in DOMAIN catalogue[b.kind]
           /\ b.thing.updated = catalogue[b.kind][b.thing.id]
  PROVE  Dated' /\ VersionsRise' /\ Announcing'
<1>1. /\ Arriving' = Arriving \o bodies /\ Waiting' = Waiting
      /\ Passing' = Passing \cup ToSet(bodies)
  BY AnswerEffect
<1>2. ToSet(bodies) \subseteq FramesSent /\ FramesSent \subseteq Replies /\ bodies \in Seq(Replies)
  BY Said, Contents, SeqMonotonic
<1>3. \A b \in FramesSent : b.type = "Data" => b.kind \in seqs /\ b.thing \in Thing
  <2>1. \A b \in FramesSent : b.type = "Data" => b \in Registering
    BY Said DEF FramesSent
  <2> QED BY <1>2, <2>1, Said DEF Registering
<1>4. \A b \in ToSet(bodies) : b.type = "Data" => NotAfter(b.kind, b.thing)
  <2> SUFFICES ASSUME NEW b \in ToSet(bodies), b.type = "Data" PROVE NotAfter(b.kind, b.thing)
    OBVIOUS
  <2>1. b.kind \in seqs /\ b.thing \in Thing
    BY <1>2, <1>3
  <2>2. catalogue[b.kind][b.thing.id] \in FirstTime..(FirstTime + serverTurn)
    BY <2>1 DEF IInv, Dated
  <2>3. FirstTime \in Nat /\ serverTurn \in Nat
    BY BoundAssumption DEF IInv, Typed
  <2> QED BY <2>1, <2>2, <2>3 DEF NotAfter
<1>5. Dated'
  BY <1>1, <1>4, DatedKept
<1>6. /\ Waiting \in Seq(Replies) /\ Arriving \in Seq(Replies)
      /\ ToSet(Waiting) \subseteq Replies /\ ToSet(Arriving) \subseteq Replies
  BY Queues, Contents DEF IInv
<1>7. ASSUME NEW x \in Passing, NEW y \in ToSet(bodies)
      PROVE  <<x, y>> \in Rising
  <2> SUFFICES ASSUME x.type = "Data", y.type = "Data", x.kind = y.kind, x.thing.id = y.thing.id
               PROVE  x.thing.updated <= y.thing.updated
    BY <1>2, <1>6 DEF Rising, Passing
  <2>1. NotAfter(x.kind, x.thing)
    BY DEF IInv, Dated
  <2> QED BY <2>1 DEF NotAfter
<1>8. Ordered(bodies, Rising)
  <2> SUFFICES ASSUME NEW i \in 1..Len(bodies), NEW j \in 1..Len(bodies), i < j
               PROVE  <<bodies[i], bodies[j]>> \in Rising
    BY DEF Ordered
  <2> DEFINE x == bodies[i]
             y == bodies[j]
  <2>1. x \in ToSet(bodies) /\ y \in ToSet(bodies)
    BY Contents
  <2> HIDE DEF x, y
  <2> SUFFICES ASSUME x.type = "Data", y.type = "Data", x.kind = y.kind, x.thing.id = y.thing.id
               PROVE  x.thing.updated <= y.thing.updated
    BY <1>2, <2>1 DEF Rising, x, y
  <2>2. y.kind \in seqs /\ y.thing \in Thing
    BY <1>2, <1>3, <2>1
  <2>3. y.thing.updated \in Nat
    BY <2>2 DEF Thing
  <2>4. x.thing.updated = y.thing.updated
    BY <2>1
  <2> QED BY <2>3, <2>4
<1>9. Chain(Waiting', Arriving', Rising)
  <2>1. Chain(Waiting, Arriving, Rising)
    BY DEF IInv, VersionsRise
  <2>2. \A x \in ToSet(Waiting) \cup ToSet(Arriving), y \in ToSet(bodies) : <<x, y>> \in Rising
    BY <1>7 DEF Passing
  <2>3. Chain(Waiting, Arriving \o bodies, Rising)
    BY <1>2, <1>6, <1>8, <2>1, <2>2, ChainAnswered
  <2> QED BY <1>1, <2>3
<1>10. ASSUME NEW b \in ToSet(bodies), b.type = "Data", NEW i \in Lookup(b.kind, b.thing.id)
       PROVE  cache[b.kind][i].updated <= b.thing.updated
  <2>1. b.kind \in seqs
    BY <1>2, <1>3, <1>10
  <2>2. cache[b.kind][i] \in ToSet(cache[b.kind]) /\ cache[b.kind][i].id = b.thing.id
    BY <1>10, <2>1, CachedThings DEF IInv
  <2>3. NotAfter(b.kind, cache[b.kind][i])
    BY <2>1, <2>2 DEF IInv, Dated
  <2> QED BY <1>10, <2>2, <2>3 DEF NotAfter
<1>11. VersionsRise'
  BY <1>1, <1>9, <1>10, RiseKept
<1>12. Announcing'
  BY <1>1, AnnouncingKept DEF IInv, Announcing
<1> QED BY <1>5, <1>11, <1>12

LEMMA PushEffect ==
  ASSUME IInv, Srv!Push(Msg("TurnEnds"))
  PROVE  /\ Srv!IInv'
         /\ Wire' = Wire
         /\ Arriving' = Arriving \o <<Msg("TurnEnds")>>
         /\ Arriving' \in Seq(FramesSent)
         /\ Waiting' = Waiting
         /\ Passing' = Passing \cup {Msg("TurnEnds")}
         /\ \A X : Count(Arriving', X) = Count(Arriving, X) + (IF Msg("TurnEnds") \in X THEN 1 ELSE 0)
<1> DEFINE t == <<Msg("TurnEnds")>>
<1>1. Msg("TurnEnds") \in FramesSent /\ Msg("TurnEnds") \in Replies
  BY Said DEF FramesSent
<1>2. /\ Srv!IInv' /\ Wire' = Wire /\ Waiting' = Waiting
      /\ Arriving' = Arriving \o t
  BY <1>1, PushMoves DEF IInv
<1>3. t \in Seq(FramesSent) /\ ToSet(t) = {Msg("TurnEnds")}
      /\ \A X : Count(t, X) = IF Msg("TurnEnds") \in X THEN 1 ELSE 0
  BY <1>1, SingleContents, SingleCount DEF Count
<1>4. Arriving \in Seq(FramesSent)
  BY DEF IInv, Typed
<1> HIDE DEF t
<1>5. Arriving' \in Seq(FramesSent) /\ ToSet(Arriving') = ToSet(Arriving) \cup {Msg("TurnEnds")}
  BY <1>2, <1>3, <1>4, ConcatContents
<1>6. \A X : Count(Arriving', X) = Count(Arriving, X) + Count(t, X)
  BY <1>2, <1>3, <1>4, ConcatCount DEF Count
<1>7. Passing' = Passing \cup {Msg("TurnEnds")}
  BY <1>2, <1>5 DEF Passing
<1> QED BY <1>2, <1>3, <1>5, <1>6, <1>7 DEF t

(* What the end of a turn does to the catalogue.                           *)
LEMMA TurnChanges ==
  ASSUME IInv, EndTurn
  PROVE  /\ serverTurn' = serverTurn + 1 /\ serverTurn \in Nat /\ serverTurn' \in 0..MaxLists
         /\ catalogue' = [k \in seqs |-> catalogue'[k]]
         /\ \A k \in seqs :
              /\ DOMAIN catalogue'[k] \subseteq Ids
              /\ catalogue'[k] = [id \in DOMAIN catalogue'[k] |-> catalogue'[k][id]]
              /\ \A id \in DOMAIN catalogue'[k] :
                   \/ catalogue'[k][id] = FirstTime + serverTurn'
                   \/ id \in DOMAIN catalogue[k] /\ catalogue'[k][id] = catalogue[k][id]
<1>1. serverTurn' = serverTurn + 1 /\ serverTurn \in Nat /\ MaxLists \in Nat
  BY BoundAssumption DEF IInv, Typed, EndTurn
<1>2. PICK k \in seqs, id \in Ids :
        \E rest \in {[i \in DOMAIN catalogue[k] \ {id} |-> catalogue[k][i]]} :
         \/ catalogue' = [catalogue EXCEPT ![k] = rest]
         \/ catalogue' = [catalogue EXCEPT
              ![k] = [i \in DOMAIN rest \cup {id} |->
                        IF i = id THEN FirstTime + serverTurn' ELSE rest[i]]]
  BY DEF EndTurn
<1>3. serverTurn' \in 0..MaxLists
  <2>1. seqs \in SUBSET Kinds
    BY KindsAssumption DEF IInv, Typed
  <2>2. IsFiniteSet(Kinds)
    <3>1. Kinds = (({"Object"} \cup {"OrderDescription"}) \cup {"Resource"}) \cup {"Design"}
      BY DEF Kinds
    <3> QED BY <3>1, FS_Singleton, FS_Union
  <2>3. Cardinality(seqs) \in Nat /\ Cardinality(seqs) # 0
    BY <1>2, <2>1, <2>2, FS_Subset, FS_CardinalityType, FS_EmptySet
  <2>4. (serverTurn + 1) * Cardinality(seqs) <= MaxLists
    BY DEF EndTurn
  <2>5. ASSUME NEW n \in Nat, NEW c \in Nat, c # 0 PROVE (n + 1) * c >= n + 1
    BY <2>5
  <2> QED BY <1>1, <2>3, <2>4, <2>5
<1>4. catalogue = [j \in seqs |-> catalogue[j]]
  BY DEF IInv, Typed
<1> DEFINE rest == [i \in DOMAIN catalogue[k] \ {id} |-> catalogue[k][i]]
           with == [i \in DOMAIN rest \cup {id} |->
                      IF i = id THEN FirstTime + serverTurn' ELSE rest[i]]
<1>5. PICK c \in {rest, with} : catalogue' = [catalogue EXCEPT ![k] = c]
  BY <1>2
<1>6. /\ DOMAIN c \subseteq Ids
      /\ c = [i \in DOMAIN c |-> c[i]]
      /\ \A i \in DOMAIN c :
           \/ c[i] = FirstTime + serverTurn'
           \/ i \in DOMAIN catalogue[k] /\ c[i] = catalogue[k][i]
  <2>1. DOMAIN catalogue[k] \subseteq Ids
    BY DEF IInv, Typed
  <2>2. CASE c = rest
    BY <2>1, <2>2
  <2>3. CASE c = with
    BY <2>1, <2>3
  <2> HIDE DEF rest, with
  <2> QED BY <2>2, <2>3
<1> HIDE DEF rest, with
<1>7. /\ catalogue' = [j \in seqs |-> catalogue'[j]]
      /\ catalogue'[k] = c /\ \A j \in seqs \ {k} : catalogue'[j] = catalogue[j]
  BY <1>4, <1>5
<1>8. \A j \in seqs : /\ DOMAIN catalogue[j] \subseteq Ids
                      /\ catalogue[j] = [i \in DOMAIN catalogue[j] |-> catalogue[j][i]]
  BY DEF IInv, Typed
<1>9. ASSUME NEW j \in seqs
      PROVE  /\ DOMAIN catalogue'[j] \subseteq Ids
             /\ catalogue'[j] = [i \in DOMAIN catalogue'[j] |-> catalogue'[j][i]]
             /\ \A i \in DOMAIN catalogue'[j] :
                  \/ catalogue'[j][i] = FirstTime + serverTurn'
                  \/ i \in DOMAIN catalogue[j] /\ catalogue'[j][i] = catalogue[j][i]
  <2>1. CASE j = k
    BY <1>6, <1>7, <2>1
  <2>2. CASE j # k
    BY <1>7, <1>8, <2>2
  <2> QED BY <2>1, <2>2
<1> QED BY <1>1, <1>3, <1>7, <1>9

(* The end of a turn.                                                      *)
LEMMA EndTurnKeeps ==
  ASSUME IInv, EndTurn
  PROVE  Typed' /\ Dated' /\ VersionsRise' /\ Announcing'
<1>1. UNCHANGED <<seqs, position, cache, told, pageSize>> /\ Srv!Push(Msg("TurnEnds"))
  BY DEF EndTurn
<1>2. FirstTime \in Nat
  BY BoundAssumption
<1>3. Typed'
  <2>1. /\ Wire' \in Seq(RequestsAsked) /\ Arriving' \in Seq(FramesSent)
        /\ Waiting' \in Seq(EventsSent)
    BY <1>1, PushEffect DEF IInv, Typed
  <2>2. /\ RequestsAsked' = RequestsAsked /\ FramesSent' = FramesSent /\ EventsSent' = EventsSent
    BY <1>1 DEF RequestsAsked, FramesSent, EventsSent, Registering
  <2>3. \A k \in seqs : \A id \in DOMAIN catalogue'[k] : catalogue'[k][id] \in Nat
    <3> SUFFICES ASSUME NEW k \in seqs, NEW id \in DOMAIN catalogue'[k]
                 PROVE  catalogue'[k][id] \in Nat
      OBVIOUS
    <3>1. \A i \in DOMAIN catalogue[k] : catalogue[k][i] \in Nat
      BY DEF IInv, Typed
    <3>2. FirstTime + serverTurn' \in Nat
      BY <1>2, TurnChanges
    <3>3. \/ catalogue'[k][id] = FirstTime + serverTurn'
          \/ id \in DOMAIN catalogue[k] /\ catalogue'[k][id] = catalogue[k][id]
      BY TurnChanges
    <3> QED BY <3>1, <3>2, <3>3
  <2>4. \A k \in seqs : /\ DOMAIN catalogue'[k] \subseteq Ids
                         /\ catalogue'[k] \in [DOMAIN catalogue'[k] -> Nat]
    <3> SUFFICES ASSUME NEW k \in seqs
                 PROVE  /\ DOMAIN catalogue'[k] \subseteq Ids
                        /\ catalogue'[k] \in [DOMAIN catalogue'[k] -> Nat]
      OBVIOUS
    <3>1. /\ DOMAIN catalogue'[k] \subseteq Ids
          /\ catalogue'[k] = [id \in DOMAIN catalogue'[k] |-> catalogue'[k][id]]
      BY TurnChanges
    <3> QED BY <2>3, <3>1
  <2>5. catalogue' = [k \in seqs |-> catalogue'[k]] /\ serverTurn' \in 0..MaxLists
    BY TurnChanges
  <2> QED BY <1>1, <2>1, <2>2, <2>4, <2>5 DEF IInv, Typed
<1>4. ASSUME NEW k \in seqs, NEW thing \in Thing, NotAfter(k, thing)
      PROVE  NotAfter(k, thing)'
  <2>1. thing.updated \in Nat /\ thing.updated <= FirstTime + serverTurn
    BY <1>4 DEF Thing, NotAfter
  <2>2. serverTurn' = serverTurn + 1 /\ serverTurn \in Nat
    BY TurnChanges
  <2>3. thing.updated <= FirstTime + serverTurn'
    BY <1>2, <2>1, <2>2
  <2>4. thing.id \in DOMAIN catalogue'[k] => thing.updated <= catalogue'[k][thing.id]
    <3> SUFFICES ASSUME thing.id \in DOMAIN catalogue'[k]
                 PROVE  thing.updated <= catalogue'[k][thing.id]
      OBVIOUS
    <3>1. \/ catalogue'[k][thing.id] = FirstTime + serverTurn'
          \/ /\ thing.id \in DOMAIN catalogue[k]
             /\ catalogue'[k][thing.id] = catalogue[k][thing.id]
      BY TurnChanges
    <3> QED BY <1>4, <2>3, <3>1 DEF NotAfter
  <2> QED BY <2>3, <2>4 DEF NotAfter
<1>5. Dated'
  <2>1. ASSUME NEW k \in seqs, NEW id \in DOMAIN catalogue'[k]
        PROVE  catalogue'[k][id] \in FirstTime..(FirstTime + serverTurn')
    <3>1. \/ catalogue'[k][id] = FirstTime + serverTurn'
          \/ id \in DOMAIN catalogue[k] /\ catalogue'[k][id] = catalogue[k][id]
      BY TurnChanges
    <3>2. serverTurn' = serverTurn + 1 /\ serverTurn \in Nat
      BY TurnChanges
    <3>3. \A i \in DOMAIN catalogue[k] : catalogue[k][i] \in FirstTime..(FirstTime + serverTurn)
      BY DEF IInv, Dated
    <3> QED BY <1>2, <3>1, <3>2, <3>3
  <2>2. ASSUME NEW k \in seqs, NEW thing \in ToSet(cache[k])
        PROVE  NotAfter(k, thing)'
    <3>1. thing \in Thing
      <4>1. cache[k] \in Seq(Thing)
        BY CachedThings DEF IInv
      <4> QED BY <4>1, Contents
    <3>2. NotAfter(k, thing)
      BY DEF IInv, Dated
    <3> QED BY <1>4, <3>1, <3>2
  <2>3. ASSUME NEW b \in Passing', b.type = "Data"
        PROVE  NotAfter(b.kind, b.thing)'
    <3>1. b \in Passing
      BY <1>1, <2>3, PushEffect, Said
    <3>2. b.kind \in seqs /\ b.thing \in Thing
      <4>1. b \in FramesSent \cup EventsSent
        <5>1. ToSet(Arriving) \subseteq FramesSent /\ ToSet(Waiting) \subseteq EventsSent
          BY Contents DEF IInv, Typed
        <5> QED BY <3>1, <5>1 DEF Passing
      <4>2. b \in Registering
        BY <2>3, <4>1, Said DEF FramesSent, EventsSent, Starting, ObjectEvents
      <4> QED BY <2>3, <4>2, Said DEF Registering, ListOrData
    <3>3. NotAfter(b.kind, b.thing)
      BY <2>3, <3>1 DEF IInv, Dated
    <3> QED BY <1>4, <3>2, <3>3
  <2> QED BY <1>1, <2>1, <2>2, <2>3 DEF Dated
<1>6. /\ Waiting \in Seq(Replies) /\ Arriving \in Seq(Replies)
      /\ ToSet(Waiting) \subseteq Replies /\ ToSet(Arriving) \subseteq Replies
  BY Queues, Contents DEF IInv
<1>7. Chain(Waiting', Arriving', Rising)
  <2> DEFINE t == <<Msg("TurnEnds")>>
  <2>1. Msg("TurnEnds") \in Replies /\ t \in Seq(Replies)
    <3>1. Msg("TurnEnds") \in Replies
      BY DEF Replies
    <3> QED BY <3>1
  <2>2. Ordered(t, Rising) /\ ToSet(t) = {Msg("TurnEnds")}
    BY ShortOrdered, SingleContents
  <2>3. \A x \in ToSet(Waiting) \cup ToSet(Arriving), y \in ToSet(t) : <<x, y>> \in Rising
    <3>1. Msg("TurnEnds").type # "Data"
      BY Said
    <3> QED BY <1>6, <2>1, <2>2, <3>1 DEF Rising
  <2>4. Chain(Waiting, Arriving, Rising)
    BY DEF IInv, VersionsRise
  <2>5. Waiting' = Waiting /\ Arriving' = Arriving \o t
    BY <1>1, PushEffect
  <2> HIDE DEF t
  <2>6. Chain(Waiting, Arriving \o t, Rising)
    BY <1>6, <2>1, <2>2, <2>3, <2>4, ChainAnswered
  <2> QED BY <2>5, <2>6
<1>8. VersionsRise'
  <2>1. \A b \in Passing' : b \in Passing \/ b = Msg("TurnEnds")
    BY <1>1, PushEffect
  <2> QED BY <1>1, <1>7, <2>1, RiseKept, Said
<1>9. Announcing'
  BY <1>1, PushEffect, AnnouncingKept DEF IInv, Announcing
<1> QED BY <1>3, <1>5, <1>8, <1>9

-----------------------------------------------------------------------------
(* What is cached when a thing arrives                                     *)

(* Where there is an entry, a lookup finds one.                            *)
LEMMA LookupFinds ==
  ASSUME Typed, NEW k \in seqs, NEW id, PlacesOf(k, id) # {}
  PROVE  Lookup(k, id) # {}
<1> DEFINE S == PlacesOf(k, id)
<1>1. Len(cache[k]) \in Nat /\ S \subseteq 1..Len(cache[k])
  BY CachedThings
<1>2. S \in SUBSET Nat /\ IsFiniteSet(S) /\ Cardinality(S) \in Nat /\ Cardinality(S) # 0
  <2>1. IsFiniteSet(1..Len(cache[k])) /\ 1..Len(cache[k]) \subseteq Nat
    <3> DEFINE n == Len(cache[k])
    <3>1. n \in Nat
      BY <1>1
    <3> HIDE DEF n
    <3>2. IsFiniteSet(1..n)
      BY <3>1, FS_Interval
    <3> QED BY <3>1, <3>2 DEF n
  <2>2. IsFiniteSet(S)
    BY <1>1, <2>1, FS_Subset
  <2> QED BY <1>1, <2>1, <2>2, FS_CardinalityType, FS_EmptySet
<1> HIDE DEF S
<1>3. PICK i \in S : Rank(S, i) = 1
  BY <1>2, Ranks
<1>4. \A j \in S : Rank(S, j) \in 1..Cardinality(S) /\ (j < i => Rank(S, j) < Rank(S, i))
  BY <1>2, Ranks
<1>5. \A j \in S : i <= j
  <2> SUFFICES ASSUME NEW j \in S PROVE i <= j
    OBVIOUS
  <2>1. ~(j < i)
    BY <1>2, <1>3, <1>4
  <2>2. i \in Nat /\ j \in Nat
    BY <1>2
  <2> QED BY <2>1, <2>2
<1> QED BY <1>5 DEF Lookup, S

(* The cache of a kind that nothing is stored in.                          *)
LEMMA SameKind ==
  ASSUME NEW k, cache'[k] = cache[k]
  PROVE  /\ \A id : PlacesOf(k, id)' = PlacesOf(k, id) /\ Lookup(k, id)' = Lookup(k, id)
         /\ \A id, updated : Cached(k, id, updated)' <=> Cached(k, id, updated)
BY DEF PlacesOf, Lookup, Cached

(* The thing is found where it was stored, and all else where it was.      *)
Storing(k, thing) ==
  /\ cache' \in [seqs -> Seq(Thing)]
  /\ ToSet(cache'[k]) \subseteq ToSet(cache[k]) \cup {thing}
  /\ \A j \in seqs \ {k} : cache'[j] = cache[j]
  /\ \A id : /\ PlacesOf(k, id) \subseteq PlacesOf(k, id)'
             /\ Lookup(k, id) \subseteq Lookup(k, id)'
             /\ id # thing.id => /\ PlacesOf(k, id)' = PlacesOf(k, id)
                                 /\ Lookup(k, id)' = Lookup(k, id)
  /\ \A i \in 1..Len(cache[k]) :
       \/ cache'[k][i] = cache[k][i]
       \/ k \notin Appended /\ i \in Lookup(k, thing.id) /\ cache'[k][i] = thing
  /\ k \notin Appended => \A i \in Lookup(k, thing.id)' : cache'[k][i] = thing
  /\ \E i \in IF k \in Appended THEN PlacesOf(k, thing.id)' ELSE Lookup(k, thing.id)' :
       cache'[k][i] = thing
  /\ PlacesOf(k, thing.id)' # {}

LEMMA StoredIs ==
  ASSUME Typed, NEW k \in seqs, NEW thing \in Thing,
         cache' = [cache EXCEPT ![k] = Stored(k, thing)]
  PROVE  Storing(k, thing)
<1> DEFINE c == Stored(k, thing)
           s == cache[k]
           n == Len(s)
<1>1. /\ s \in Seq(Thing) /\ n \in Nat
      /\ \A i \in 1..n : s[i] \in ToSet(s) /\ s[i] \in Thing
      /\ \A id : /\ PlacesOf(k, id) \subseteq 1..n
                 /\ Lookup(k, id) \subseteq PlacesOf(k, id)
                 /\ \A i \in PlacesOf(k, id) : s[i].id = id
                 /\ \A i, j \in Lookup(k, id) : i = j
  BY CachedThings
<1>2. /\ cache'[k] = c /\ \A j \in seqs \ {k} : cache'[j] = cache[j]
      /\ cache' = [j \in seqs |-> IF j = k THEN c ELSE cache[j]]
      /\ \A j \in seqs : cache[j] \in Seq(Thing)
  BY DEF Typed
<1>3. /\ \A id : PlacesOf(k, id) = {i \in 1..n : s[i].id = id}
      /\ \A id : Lookup(k, id) = {i \in PlacesOf(k, id) : \A j \in PlacesOf(k, id) : i <= j}
      /\ \A id : PlacesOf(k, id)' = {i \in 1..Len(c) : c[i].id = id}
      /\ \A id : Lookup(k, id)' = {i \in PlacesOf(k, id)' : \A j \in PlacesOf(k, id)' : i <= j}
  BY <1>2 DEF PlacesOf, Lookup
<1>4. /\ k \in Appended \/ PlacesOf(k, thing.id) = {} => c = Append(s, thing)
      /\ ~(k \in Appended \/ PlacesOf(k, thing.id) = {}) =>
           c = [i \in 1..n |-> IF i \in Lookup(k, thing.id) THEN thing ELSE s[i]]
  BY DEF Stored
<1> HIDE DEF c, s, n
<1>5. c \in Seq(Thing) => cache' \in [seqs -> Seq(Thing)]
  BY <1>2
<1>6. CASE k \in Appended \/ PlacesOf(k, thing.id) = {}
  <2>1. /\ c \in Seq(Thing) /\ Len(c) = n + 1
        /\ \A i \in 1..n : c[i] = s[i]
        /\ c[n + 1] = thing
    <3>1. PICK q \in Seq(Thing) : q = s
      BY <1>1
    <3>2. thing \in Thing /\ c = Append(q, thing) /\ n = Len(q)
      BY <1>4, <1>6, <3>1 DEF n
    <3> QED BY ONLY <3>1, <3>2, AppendProperties
  <2>2. ToSet(c) \subseteq ToSet(s) \cup {thing}
    <3> DEFINE h == <<thing>>
    <3>1. s \in Seq(Thing) /\ h \in Seq(Thing) /\ c = s \o h
      BY <1>1, <1>4, <1>6, AppendIsConcat
    <3>2. ToSet(h) = {thing}
      BY SingleContents
    <3> HIDE DEF h
    <3>3. ToSet(s \o h) = ToSet(s) \cup ToSet(h)
      BY <3>1, ConcatContents
    <3> QED BY <3>1, <3>2, <3>3
  <2>3. \A id : PlacesOf(k, id)' = PlacesOf(k, id) \cup (IF id = thing.id THEN {n + 1} ELSE {})
    <3> SUFFICES ASSUME NEW id
                 PROVE  {i \in 1..(n + 1) : c[i].id = id}
                          = {i \in 1..n : s[i].id = id} \cup (IF id = thing.id THEN {n + 1} ELSE {})
      BY <1>3, <2>1
    <3>1. 1..(n + 1) = 1..n \cup {n + 1}
      BY <1>1
    <3> QED BY <2>1, <3>1
  <2>4. \A i \in 1..n : i \in Nat /\ i <= n + 1 /\ i # n + 1
    BY <1>1
  <2>5. \A id :
          /\ PlacesOf(k, id) \subseteq PlacesOf(k, id)'
          /\ id # thing.id => /\ PlacesOf(k, id)' = PlacesOf(k, id)
                              /\ Lookup(k, id)' = Lookup(k, id)
    <3> SUFFICES ASSUME NEW id
                 PROVE  /\ PlacesOf(k, id) \subseteq PlacesOf(k, id)'
                        /\ id # thing.id => /\ PlacesOf(k, id)' = PlacesOf(k, id)
                                            /\ Lookup(k, id)' = Lookup(k, id)
      OBVIOUS
    <3> DEFINE a == PlacesOf(k, id)
               b == PlacesOf(k, id)'
    <3>1. /\ b = a \cup (IF id = thing.id THEN {n + 1} ELSE {})
          /\ Lookup(k, id) = {i \in a : \A j \in a : i <= j}
          /\ Lookup(k, id)' = {i \in b : \A j \in b : i <= j}
      BY <1>3, <2>3
    <3> HIDE DEF a, b
    <3>2. a \subseteq b /\ (id # thing.id => b = a)
      BY <3>1
    <3> QED BY <3>1, <3>2 DEF a, b
  <2>6. \A id : Lookup(k, id) \subseteq Lookup(k, id)'
    <3> SUFFICES ASSUME NEW id, NEW i \in Lookup(k, id)
                 PROVE  i \in Lookup(k, id)'
      OBVIOUS
    <3>1. i \in PlacesOf(k, id) /\ \A j \in PlacesOf(k, id) : i <= j
      BY <1>3
    <3>2. i <= n + 1
      BY <1>1, <2>4, <3>1
    <3>3. i \in PlacesOf(k, id)' /\ \A j \in PlacesOf(k, id)' : i <= j
      BY <2>3, <3>1, <3>2
    <3> QED BY <1>3, <3>3
  <2>7. n + 1 \in PlacesOf(k, thing.id)'
    BY <2>3
  <2>8. k \notin Appended => Lookup(k, thing.id)' = {n + 1}
    <3> SUFFICES ASSUME k \notin Appended PROVE Lookup(k, thing.id)' = {n + 1}
      OBVIOUS
    <3>1. PlacesOf(k, thing.id)' = {n + 1}
      BY <1>6, <2>3
    <3> QED BY <1>1, <1>3, <3>1
  <2> QED BY <1>2, <1>5, <2>1, <2>2, <2>5, <2>6, <2>7, <2>8 DEF s, n, Storing
<1>7. CASE ~(k \in Appended \/ PlacesOf(k, thing.id) = {})
  <2>1. c = [i \in 1..n |-> IF i \in Lookup(k, thing.id) THEN thing ELSE s[i]]
    BY <1>4, <1>7
  <2>2. c \in [1..n -> Thing]
    BY <1>1, <2>1
  <2>3. c \in Seq(Thing) /\ Len(c) = n
    BY <1>1, <2>2
  <2>4. \A i \in 1..n : c[i].id = s[i].id
    BY <1>1, <2>1
  <2>5. \A id : PlacesOf(k, id)' = PlacesOf(k, id) /\ Lookup(k, id)' = Lookup(k, id)
    <3> SUFFICES ASSUME NEW id
                 PROVE  PlacesOf(k, id)' = PlacesOf(k, id) /\ Lookup(k, id)' = Lookup(k, id)
      OBVIOUS
    <3> DEFINE a == PlacesOf(k, id)
               b == PlacesOf(k, id)'
    <3>1. /\ a = {i \in 1..n : s[i].id = id} /\ b = {i \in 1..n : c[i].id = id}
          /\ Lookup(k, id) = {i \in a : \A j \in a : i <= j}
          /\ Lookup(k, id)' = {i \in b : \A j \in b : i <= j}
      BY <1>3, <2>3
    <3> HIDE DEF a, b
    <3>2. a = b
      BY <2>4, <3>1
    <3> QED BY <3>1, <3>2 DEF a, b
  <2>6. PICK i \in Lookup(k, thing.id) : TRUE
    BY <1>7, LookupFinds
  <2>7. \A j \in Lookup(k, thing.id) : j \in 1..n /\ c[j] = thing
    BY <1>1, <2>1
  <2>8. ToSet(c) \subseteq ToSet(s) \cup {thing}
    <3>1. ToSet(c) = {c[j] : j \in 1..n}
      BY <2>3, Contents
    <3> QED BY <1>1, <2>1, <3>1
  <2>9. \A j \in 1..n :
          \/ c[j] = s[j]
          \/ k \notin Appended /\ j \in Lookup(k, thing.id) /\ c[j] = thing
    <3>1. k \notin Appended
      BY <1>7
    <3> QED BY <2>1, <3>1
  <2> QED BY <1>2, <1>5, <1>7, <2>3, <2>5, <2>6, <2>7, <2>8, <2>9 DEF s, n, Storing
<1> QED BY <1>6, <1>7

-----------------------------------------------------------------------------
(* The handlers                                                            *)

LEMMA FewSent ==
  /\ Asks(<<>>) = <<>> /\ Events(<<>>) = <<>>
  /\ \A b : Asks(<<b>>) = <<Ask(b)>> /\ Events(<<b>>) = <<Event(b)>>
<1>1. Asks(<<>>) = <<>> /\ Events(<<>>) = <<>>
  BY DEF Asks, Events
<1>2. ASSUME NEW b PROVE Asks(<<b>>) = <<Ask(b)>> /\ Events(<<b>>) = <<Event(b)>>
  BY DEF Asks, Events
<1> QED BY <1>1, <1>2

(* What comes is of a kind that is registered.                             *)
LEMMA KindsSent ==
  ASSUME IInv
  PROVE  /\ Passing \subseteq FramesSent \cup EventsSent
         /\ \A b \in FramesSent \cup EventsSent :
              /\ b.type \in {"ListOfIDs", "Data"} => b \in Registering /\ b.kind \in seqs
              /\ b.type = "Data" => b.thing \in Thing
              /\ b.type = "ListOfIDs" =>
                   b.key \in Seq(Thing) /\ b.things \in Seq(Thing) /\ b.more \in Nat
              /\ b.type \in {"ObjectNew", "ObjectChanged"} =>
                   "Object" \in seqs /\ b.id \in Ids /\ b = ObjectEvent(b.type, b.id)
<1>1. ToSet(Arriving) \subseteq FramesSent /\ ToSet(Waiting) \subseteq EventsSent
  BY Contents DEF IInv, Typed
<1>2. FramesSent \cup EventsSent \subseteq Replies
  BY Said
<1>3. ASSUME NEW b \in FramesSent \cup EventsSent
      PROVE  /\ b.type \in {"ListOfIDs", "Data"} => b \in Registering
             /\ b.type \in {"ObjectNew", "ObjectChanged"} => "Object" \in seqs
  BY Said DEF FramesSent, EventsSent, Starting, Registering, ListOrData, ObjectEvents
<1>4. \A b \in Registering : b.kind \in seqs
  BY DEF Registering
<1>5. \A b \in FramesSent \cup EventsSent :
        /\ b.type = "Data" => b.thing \in Thing
        /\ b.type = "ListOfIDs" =>
             b.key \in Seq(Thing) /\ b.things \in Seq(Thing) /\ b.more \in Nat
        /\ b.type \in {"ObjectNew", "ObjectChanged"} => b.id \in Ids /\ b = ObjectEvent(b.type, b.id)
  BY <1>2, Said
<1> QED BY <1>1, <1>3, <1>4, <1>5 DEF Passing

(* What is announced of a thing that arrives.                              *)
Announcement(k, thing) ==
  IF k # "Object" THEN <<>>
  ELSE IF PlacesOf(k, thing.id) = {}
  THEN <<ObjectEvent("ObjectNew", thing.id)>>
  ELSE <<ObjectEvent("ObjectChanged", thing.id)>>

LEMMA Receiving ==
  ASSUME IInv, Receive
  PROVE  /\ Content.type = "Data" /\ Content.kind \in seqs /\ Content.thing \in Thing
         /\ Content.thing.id \in Ids
         /\ <<>> \in Seq(RequestsAsked)
         /\ Announcement(Content.kind, Content.thing) \in Seq(EventsSent)
         /\ ToSet(Announcement(Content.kind, Content.thing)) \subseteq ObjectEvents
         /\ Srv!HandleEvent(Asks(<<>>), Events(Announcement(Content.kind, Content.thing)))
         /\ cache' = [cache EXCEPT ![Content.kind] = Stored(Content.kind, Content.thing)]
         /\ UNCHANGED <<seqs, position, told, catalogue, pageSize, serverTurn>>
<1> DEFINE k == Content.kind
           thing == Content.thing
           a == Announcement(k, thing)
<1>1. /\ events # <<>> /\ Content.type = "Data"
      /\ Srv!HandleEvent(<<>>, Announced(k, thing))
      /\ cache' = [cache EXCEPT ![k] = Stored(k, thing)]
      /\ UNCHANGED <<seqs, position, told, catalogue, pageSize, serverTurn>>
  BY DEF Receive, Arrives, Content, peerVars
<1>2. Content \in EventsSent
  <2>1. Waiting \in Seq(EventsSent) /\ Waiting # <<>> /\ Content = Head(Waiting)
    BY <1>1, Queues DEF IInv, Typed
  <2> QED BY <2>1, HeadAndTail
<1>3. k \in seqs /\ thing \in Thing /\ thing.id \in Ids
  BY <1>1, <1>2, KindsSent DEF Thing
<1> HIDE DEF k, thing
<1>4. Announced(k, thing) = Events(a)
  BY FewSent DEF Announced, Announcement
<1>5. a \in Seq(EventsSent) /\ ToSet(a) \subseteq ObjectEvents
  <2>1. CASE k # "Object"
    <3>1. a = <<>>
      BY <2>1 DEF Announcement
    <3> QED BY <3>1, EmptyContents
  <2>2. CASE k = "Object"
    <3>1. PICK type \in {"ObjectNew", "ObjectChanged"} : a = <<ObjectEvent(type, thing.id)>>
      BY <2>2 DEF Announcement
    <3> DEFINE b == ObjectEvent(type, thing.id)
    <3>2. b \in ObjectEvents
      BY <1>3 DEF ObjectEvents, ObjectEvent, Replies
    <3>3. b \in EventsSent
      BY <1>3, <2>2, <3>2 DEF EventsSent
    <3> HIDE DEF b
    <3>4. <<b>> \in Seq(EventsSent) /\ ToSet(<<b>>) = {b}
      BY <3>3, SingleContents
    <3> QED BY <3>1, <3>2, <3>4 DEF b
  <2> QED BY <2>1, <2>2
<1>6. <<>> \in Seq(RequestsAsked)
  OBVIOUS
<1> QED BY <1>1, <1>3, <1>4, <1>5, <1>6, FewSent DEF k, thing

(* A thing that arrives is not older than what is known of it.             *)
LEMMA ReceivedIsNewer ==
  ASSUME IInv, Receive
  PROVE  /\ NotAfter(Content.kind, Content.thing)
         /\ Content.kind \notin Appended =>
              \A i \in Lookup(Content.kind, Content.thing.id) :
                cache[Content.kind][i].updated <= Content.thing.updated
         /\ \A b \in Passing' : /\ b.type = "Data" => b \in Passing
                               /\ <<Content, b>> \in Rising
<1>1. /\ Waiting # <<>> /\ Content = Head(Waiting) /\ Content \in Passing
      /\ Arriving' = Arriving
      /\ Waiting' = Tail(Waiting) \o Announcement(Content.kind, Content.thing)
  BY Receiving, EventEffect
<1>2. /\ NotAfter(Content.kind, Content.thing)
      /\ Content.kind \notin Appended =>
           \A i \in Lookup(Content.kind, Content.thing.id) :
             cache[Content.kind][i].updated <= Content.thing.updated
  BY <1>1, Receiving DEF IInv, Dated, VersionsRise
<1>3. /\ Waiting \in Seq(Replies) /\ Arriving \in Seq(Replies)
      /\ Announcement(Content.kind, Content.thing) \in Seq(Replies)
      /\ Content \in Replies
  <2>1. Announcement(Content.kind, Content.thing) \in Seq(Replies)
    BY Receiving, Said, SeqMonotonic
  <2> QED BY <1>1, <2>1, Queues, HeadAndTail DEF IInv
<1>4. /\ ToSet(Waiting') = ToSet(Tail(Waiting)) \cup ToSet(Announcement(Content.kind, Content.thing))
      /\ ToSet(Waiting) = {Content} \cup ToSet(Tail(Waiting))
  <2>1. PICK q \in Seq(Replies), a \in Seq(Replies) :
          q = Waiting /\ a = Announcement(Content.kind, Content.thing)
    BY <1>3
  <2>2. q # <<>> /\ Content = Head(q) /\ Waiting' = Tail(q) \o a
    BY ONLY <1>1, <2>1
  <2>3. /\ ToSet(q) = {Head(q)} \cup ToSet(Tail(q))
        /\ ToSet(Tail(q) \o a) = ToSet(Tail(q)) \cup ToSet(a)
    BY ONLY <2>1, <2>2, StepCount
  <2> QED BY ONLY <2>1, <2>2, <2>3
<1>5. Passing' = ToSet(Arriving) \cup ToSet(Waiting')
  BY <1>1 DEF Passing
<1>6. \A b \in ToSet(Arriving) \cup ToSet(Tail(Waiting)) : <<Content, b>> \in Rising
  <2>1. Ordered(Waiting, Rising) /\ Across(Waiting, Arriving, Rising)
    BY DEF IInv, VersionsRise, Chain
  <2>2. \A b \in ToSet(Tail(Waiting)) : <<Head(Waiting), b>> \in Rising
    BY <1>1, <1>3, <2>1, TailOrdered
  <2> QED BY <1>1, <1>4, <2>1, <2>2 DEF Across
<1>7. \A b \in ToSet(Announcement(Content.kind, Content.thing)) :
        b.type # "Data" /\ <<Content, b>> \in Rising
  <2>1. \A b \in ObjectEvents : b \in Replies /\ b.type # "Data"
    BY DEF ObjectEvents
  <2> QED BY <1>3, <2>1, Receiving DEF Rising
<1> QED BY <1>2, <1>4, <1>5, <1>6, <1>7 DEF Passing

LEMMA SameSent ==
  ASSUME seqs' = seqs
  PROVE  RequestsAsked' = RequestsAsked /\ FramesSent' = FramesSent /\ EventsSent' = EventsSent
BY DEF RequestsAsked, FramesSent, EventsSent, Registering

LEMMA ReceiveKeeps ==
  ASSUME IInv, Receive
  PROVE  Typed' /\ Dated' /\ VersionsRise' /\ Announcing'
<1> PICK k \in seqs, thing \in Thing : k = Content.kind /\ thing = Content.thing
  BY Receiving
<1> DEFINE a == Announcement(k, thing)
<1>1. /\ Content.type = "Data" /\ k \in seqs /\ thing \in Thing /\ thing.id \in Ids
      /\ a \in Seq(EventsSent) /\ ToSet(a) \subseteq ObjectEvents
      /\ Srv!HandleEvent(Asks(<<>>), Events(a)) /\ <<>> \in Seq(RequestsAsked)
      /\ cache' = [cache EXCEPT ![k] = Stored(k, thing)]
      /\ UNCHANGED <<seqs, position, told, catalogue, pageSize, serverTurn>>
  BY Receiving
<1>2. /\ NotAfter(k, thing)
      /\ k \notin Appended => \A i \in Lookup(k, thing.id) : cache[k][i].updated <= thing.updated
      /\ \A b \in Passing' : (b.type = "Data" => b \in Passing) /\ <<Content, b>> \in Rising
  BY ReceivedIsNewer
<1>3. /\ Wire' \in Seq(RequestsAsked) /\ Arriving' = Arriving
      /\ Waiting # <<>> /\ Content = Head(Waiting)
      /\ Waiting' = Tail(Waiting) \o a
      /\ Waiting' \in Seq(EventsSent) /\ ToSet(Waiting') \subseteq ToSet(Waiting) \cup ToSet(a)
  BY <1>1, EventEffect
<1>4. Typed
  BY DEF IInv
<1>5. Storing(k, thing)
  BY <1>1, <1>4, StoredIs
<1>6. /\ cache' \in [seqs -> Seq(Thing)]
      /\ ToSet(cache'[k]) \subseteq ToSet(cache[k]) \cup {thing}
      /\ \A j \in seqs \ {k} : cache'[j] = cache[j]
      /\ \A i \in 1..Len(cache[k]) :
           \/ cache'[k][i] = cache[k][i]
           \/ k \notin Appended /\ i \in Lookup(k, thing.id) /\ cache'[k][i] = thing
  BY <1>5 DEF Storing
<1>7. \A j, id : j \in seqs \ {k} =>
        PlacesOf(j, id)' = PlacesOf(j, id) /\ Lookup(j, id)' = Lookup(j, id)
  BY <1>6, SameKind
<1>8. Typed'
  BY <1>1, <1>3, <1>4, <1>6, SameSent DEF Typed
<1>9. \A j, t : NotAfter(j, t)' <=> NotAfter(j, t)
  BY <1>1 DEF NotAfter
<1>10. Dated'
  <2>1. ASSUME NEW j \in seqs, NEW t \in ToSet(cache'[j])
        PROVE  NotAfter(j, t)
    <3>1. CASE j = k
      BY <1>2, <1>6, <2>1, <3>1 DEF IInv, Dated
    <3>2. CASE j # k
      BY <1>6, <2>1, <3>2 DEF IInv, Dated
    <3> QED BY <3>1, <3>2
  <2>2. \A b \in Passing' : b.type = "Data" => NotAfter(b.kind, b.thing)
    BY <1>2 DEF IInv, Dated
  <2> QED BY <1>1, <1>9, <2>1, <2>2 DEF IInv, Dated
<1>11. /\ Waiting \in Seq(Replies) /\ Arriving \in Seq(Replies) /\ a \in Seq(Replies)
       /\ Waiting' \in Seq(Replies)
       /\ ToSet(a) \subseteq Replies /\ ToSet(Waiting) \subseteq Replies
  <2>1. a \in Seq(Replies) /\ Waiting' \in Seq(Replies)
    BY <1>1, <1>3, Said, SeqMonotonic
  <2> QED BY <2>1, Queues, Contents DEF IInv
<1>12. Chain(Waiting', Arriving', Rising)
  <2>1. \A x \in ToSet(a), y \in Replies : <<x, y>> \in Rising /\ <<y, x>> \in Rising
    BY <1>1, <1>11 DEF Rising, ObjectEvents
  <2>2. Chain(Waiting, Arriving, Rising)
    BY DEF IInv, VersionsRise
  <2> HIDE DEF a
  <2>3. Chain(Tail(Waiting) \o a, Arriving, Rising)
    BY <1>3, <1>11, <2>1, <2>2, ChainHandled
  <2> QED BY <1>3, <2>3
<1>13. VersionsRise'
  <2> SUFFICES ASSUME NEW b \in Passing', b.type = "Data", b.kind \notin Appended,
                      NEW i \in Lookup(b.kind, b.thing.id)'
               PROVE  cache'[b.kind][i].updated <= b.thing.updated
    BY <1>12 DEF VersionsRise
  <2>1. b \in Passing /\ b.kind \in seqs /\ b.thing \in Thing
    <3>1. b \in Passing
      BY <1>2
    <3> QED BY <3>1, KindsSent
  <2>2. \A n \in Lookup(b.kind, b.thing.id) : cache[b.kind][n].updated <= b.thing.updated
    BY <2>1 DEF IInv, VersionsRise
  <2>3. CASE b.kind # k
    BY <1>6, <1>7, <2>1, <2>2, <2>3
  <2>4. CASE b.kind = k /\ b.thing.id # thing.id
    <3>1. i \in Lookup(k, b.thing.id)
      BY <1>5, <2>4 DEF Storing
    <3>2. i \in 1..Len(cache[k]) /\ cache[k][i].id = b.thing.id
      BY <1>1, <1>4, <3>1, CachedThings
    <3>3. i \notin Lookup(k, thing.id)
      BY <1>1, <1>4, <2>4, <3>2, CachedThings
    <3>4. cache'[k][i] = cache[k][i]
      BY <1>6, <3>2, <3>3
    <3> QED BY <2>2, <2>4, <3>1, <3>4
  <2>5. CASE b.kind = k /\ b.thing.id = thing.id
    <3>1. cache'[k][i] = thing
      BY <1>5, <2>5 DEF Storing
    <3>2. <<Content, b>> \in Rising
      BY <1>2
    <3>3. Content.thing.updated <= b.thing.updated
      BY <1>1, <2>5, <3>2 DEF Rising
    <3> QED BY <2>5, <3>1, <3>3
  <2> QED BY <2>3, <2>4, <2>5
<1>14. Announcing'
  <2>1. /\ Content \notin ObjectEvents /\ \A id : Content \notin NewEvents(id)
        /\ \A b \in ToSet(a) : b \in ObjectEvents
    BY <1>1 DEF ObjectEvents, NewEvents, ObjectEvent
  <2>2. ASSUME "Object" \in seqs, NEW id \in Ids
        PROVE  PlacesOf("Object", id)' # {}
                 <=> PlacesOf("Object", id) # {} \/ (k = "Object" /\ id = thing.id)
    <3>1. CASE k # "Object"
      BY <1>7, <2>2, <3>1
    <3>2. CASE k = "Object"
      BY <1>5, <3>2 DEF Storing
    <3> QED BY <3>1, <3>2
  <2>3. ASSUME NEW id
        PROVE  Count(Waiting', NewEvents(id)) = Count(Waiting, NewEvents(id)) + Count(a, NewEvents(id))
    <3> HIDE DEF a
    <3>1. Count(Waiting', NewEvents(id)) + (IF Content \in NewEvents(id) THEN 1 ELSE 0)
            = Count(Waiting, NewEvents(id)) + Count(a, NewEvents(id))
      <4> DEFINE Y == NewEvents(id)
                 none == <<>>
      <4>1. none \in Seq(RequestsAsked) /\ a \in Seq(EventsSent)
            /\ Srv!HandleEvent(Asks(none), Events(a))
        BY <1>1
      <4> HIDE DEF Y, none
      <4>2. Count(Waiting', Y) + (IF Content \in Y THEN 1 ELSE 0) = Count(Waiting, Y) + Count(a, Y)
        BY <4>1, EventCounts
      <4> QED BY <4>2 DEF Y
    <3>2. Count(Waiting', NewEvents(id)) \in Nat
      BY <1>11, PlacesFinite DEF Count
    <3> QED BY <2>1, <3>1, <3>2
  <2>4. ASSUME NEW id
        PROVE  Count(a, NewEvents(id))
                 = IF k = "Object" /\ PlacesOf(k, thing.id) = {} /\ id = thing.id THEN 1 ELSE 0
    <3>1. CASE k = "Object"
      <4>1. PICK type \in {"ObjectNew", "ObjectChanged"} :
              /\ a = <<ObjectEvent(type, thing.id)>>
              /\ type = "ObjectNew" <=> PlacesOf(k, thing.id) = {}
        BY <3>1 DEF Announcement
      <4>2. ObjectEvent(type, thing.id) \in NewEvents(id) <=> type = "ObjectNew" /\ id = thing.id
        BY DEF NewEvents, ObjectEvent
      <4> QED BY <3>1, <4>1, <4>2, SingleCount DEF Count
    <3>2. CASE k # "Object"
      BY <3>2, EmptyContents, FS_EmptySet DEF Announcement, Count
    <3> QED BY <3>1, <3>2
  <2>5. ASSUME NEW id \in Ids
        PROVE  Count(Waiting', NewEvents(id)) + (IF id \in told' THEN 1 ELSE 0)
                 = IF "Object" \in seqs' /\ PlacesOf("Object", id)' # {} THEN 1 ELSE 0
    <3>1. Count(Waiting, NewEvents(id)) + (IF id \in told THEN 1 ELSE 0)
            = IF "Object" \in seqs /\ PlacesOf("Object", id) # {} THEN 1 ELSE 0
      BY DEF IInv, Announcing, Count
    <3>2. Count(Waiting, NewEvents(id)) \in Nat
      BY <1>11, PlacesFinite DEF Count
    <3>3. CASE "Object" \in seqs
      BY <1>1, <2>2, <2>3, <2>4, <3>1, <3>2, <3>3
    <3>4. CASE "Object" \notin seqs
      BY <1>1, <2>3, <2>4, <3>1, <3>2, <3>4
    <3> QED BY <3>3, <3>4
  <2>6. ASSUME NEW b \in ToSet(Waiting'), b \in ObjectEvents
        PROVE  PlacesOf("Object", b.id)' # {}
    <3>1. b \in ToSet(Waiting) \/ b \in ToSet(a)
      BY <1>3
    <3>2. "Object" \in seqs /\ b.id \in Ids
      <4>1. b \in EventsSent
        BY <1>3, Contents
      <4> QED BY <2>6, <4>1, KindsSent DEF ObjectEvents
    <3>3. CASE b \in ToSet(Waiting)
      BY <2>2, <2>6, <3>2, <3>3 DEF IInv, Announcing
    <3>4. CASE b \in ToSet(a)
      <4>1. k = "Object" /\ b.id = thing.id
        BY <3>4, EmptyContents, SingleContents DEF Announcement, ObjectEvent
      <4> QED BY <2>2, <3>2, <4>1
    <3> QED BY <3>1, <3>3, <3>4
  <2>7. Ordered(Waiting', NewFirst)
    <3>1. Tail(Waiting) \in Seq(Replies) /\ Ordered(Tail(Waiting), NewFirst)
      BY <1>3, <1>11, HeadAndTail, TailOrdered DEF IInv, Announcing
    <3>2. Ordered(a, NewFirst)
      BY ShortOrdered DEF Announcement
    <3>3. ASSUME NEW x \in ToSet(Tail(Waiting)), NEW y \in ToSet(a)
          PROVE  <<x, y>> \in NewFirst
      <4>1. x \in ToSet(Waiting) /\ x \in Replies /\ y \in Replies
        <5>1. ToSet(Waiting) = {Head(Waiting)} \cup ToSet(Tail(Waiting))
          BY <1>3, <1>11, HeadAndTail
        <5> HIDE DEF a
        <5> QED BY <1>11, <5>1
      <4> SUFFICES ASSUME x.type = "ObjectChanged", y.type = "ObjectNew", x.id = y.id
                   PROVE  FALSE
        BY <4>1 DEF NewFirst
      <4>2. k = "Object" /\ y.id = thing.id /\ PlacesOf(k, thing.id) = {}
        BY EmptyContents, SingleContents DEF Announcement, ObjectEvent
      <4>3. x \in ObjectEvents
        BY <4>1 DEF ObjectEvents
      <4> QED BY <4>1, <4>2, <4>3 DEF IInv, Announcing
    <3>4. Across(Tail(Waiting), a, NewFirst)
      BY <3>3 DEF Across
    <3> DEFINE r == Tail(Waiting)
    <3>5. r \in Seq(Replies) /\ a \in Seq(Replies) /\ Waiting' = r \o a
      BY <1>3, <1>11, <3>1
    <3> HIDE DEF a, r
    <3>6. Ordered(r \o a, NewFirst)
      BY <3>1, <3>2, <3>4, <3>5, ConcatOrdered DEF r
    <3> QED BY <3>5, <3>6
  <2> QED BY <1>1, <2>5, <2>6, <2>7 DEF Announcing, Count
<1> QED BY <1>8, <1>10, <1>13, <1>14

(* An event that is told, or is about no thing.                            *)
LEMMA OtherEventKeeps ==
  ASSUME IInv, OtherEvent
  PROVE  Typed' /\ Dated' /\ VersionsRise' /\ Announcing'
<1> DEFINE none == <<>>
<1>1. /\ none \in Seq(RequestsAsked) /\ none \in Seq(EventsSent) /\ ToSet(none) = {}
      /\ Srv!HandleEvent(Asks(none), Events(none))
      /\ UNCHANGED <<seqs, position, cache, catalogue, pageSize, serverTurn>>
  BY FewSent, EmptyContents DEF OtherEvent, peerVars
<1>2. \A s : \A S : s \in Seq(S) => s \o none = s
  BY ConcatEmptySeq
<1> HIDE DEF none
<1>3. /\ Wire' \in Seq(RequestsAsked) /\ Waiting' \in Seq(EventsSent) /\ Arriving' = Arriving
      /\ Waiting # <<>> /\ Content = Head(Waiting) /\ Content \in EventsSent
      /\ Waiting' = Tail(Waiting) \o none
      /\ ToSet(Waiting') \subseteq ToSet(Waiting)
  BY <1>1, EventEffect
<1>4. Dated' /\ VersionsRise'
  BY <1>1, EventKeepsVersions
<1>5. /\ Content.type = "ObjectNew" => /\ Content.id \in Ids
                                      /\ Content = ObjectEvent("ObjectNew", Content.id)
      /\ told' = IF Content.type = "ObjectNew" THEN told \cup {Content.id} ELSE told
  <2>1. events # <<>>
    BY <1>1 DEF Srv!HandleEvent
  <2> QED BY <1>3, <2>1, KindsSent DEF OtherEvent, Arrives, Content
<1>6. Typed'
  <2>1. told' \subseteq Ids
    BY <1>5 DEF IInv, Typed
  <2> QED BY <1>1, <1>3, <2>1, SameSent DEF IInv, Typed
<1>7. Announcing'
  <2>1. ASSUME NEW id \in Ids
        PROVE  Count(Waiting', NewEvents(id)) + (IF id \in told' THEN 1 ELSE 0)
                 = IF "Object" \in seqs /\ PlacesOf("Object", id) # {} THEN 1 ELSE 0
    <3>1. Count(Waiting, NewEvents(id)) + (IF id \in told THEN 1 ELSE 0)
            = IF "Object" \in seqs /\ PlacesOf("Object", id) # {} THEN 1 ELSE 0
      BY DEF IInv, Announcing, Count
    <3> DEFINE Y == NewEvents(id)
    <3>2. Content \in Y <=> Content.type = "ObjectNew" /\ Content.id = id
      BY <1>5 DEF NewEvents, ObjectEvent
    <3> HIDE DEF Y
    <3>3. /\ Count(Waiting', Y) + (IF Content \in Y THEN 1 ELSE 0) = Count(Waiting, Y) + Count(none, Y)
          /\ Count(Waiting', Y) \in Nat /\ Count(Waiting, Y) \in Nat
      BY <1>1, EventCounts
    <3>4. Count(none, Y) = 0
      BY <1>1, PlacesFinite DEF Count
    <3>5. CASE Content \in Y
      BY <1>5, <3>1, <3>2, <3>3, <3>4, <3>5 DEF Y
    <3>6. CASE Content \notin Y
      <4>1. id \in told' <=> id \in told
        BY <1>5, <3>2, <3>6
      <4> QED BY <3>1, <3>3, <3>4, <3>6, <4>1 DEF Y
    <3> QED BY <3>5, <3>6
  <2>2. \A id : PlacesOf("Object", id)' = PlacesOf("Object", id)
    BY <1>1, SameCache
  <2>3. Ordered(Waiting', NewFirst)
    <3>1. Tail(Waiting) \in Seq(EventsSent) /\ Waiting \in Seq(EventsSent)
      BY <1>3, HeadAndTail DEF IInv, Typed
    <3>2. Waiting' = Tail(Waiting)
      BY <1>2, <1>3, <3>1
    <3> QED BY <1>3, <3>1, <3>2, TailOrdered DEF IInv, Announcing
  <2>4. \A b \in ToSet(Waiting') : b \in ObjectEvents => PlacesOf("Object", b.id)' # {}
    BY <1>3, <2>2 DEF IInv, Announcing
  <2> QED BY <1>1, <2>1, <2>2, <2>3, <2>4 DEF Announcing, Count
<1> QED BY <1>4, <1>6, <1>7

(* A handler that sends bs and cs and caches nothing.                      *)
LEMMA EventTyped ==
  ASSUME IInv, NEW bs \in Seq(RequestsAsked), NEW cs \in Seq(EventsSent),
         Srv!HandleEvent(Asks(bs), Events(cs)),
         position' \in [seqs -> Nat],
         UNCHANGED <<seqs, cache, told, catalogue, pageSize, serverTurn>>
  PROVE  Typed'
BY EventEffect, SameSent DEF IInv, Typed

(* Nothing to send: a name, where the provers see too much in <<>>.        *)
Nothing == <<>>

LEMMA NothingSent ==
  /\ Asks(Nothing) = <<>> /\ Events(Nothing) = <<>>
  /\ \A S : Nothing \in Seq(S)
  /\ ToSet(Nothing) = {}
  /\ \A X : Count(Nothing, X) = 0
<1>1. \A S : Nothing \in Seq(S)
  BY DEF Nothing
<1>2. \A X : Count(Nothing, X) = 0
  BY EmptyContents, FS_EmptySet DEF Nothing, Count
<1> QED BY <1>1, <1>2, FewSent, EmptyContents DEF Nothing

LEMMA AsksConcat ==
  ASSUME NEW S, NEW s \in Seq(S), NEW t \in Seq(S)
  PROVE  Asks(s \o t) = Asks(s) \o Asks(t)
<1> DEFINE T == {Ask(x) : x \in S}
           u == s \o t
           a == Asks(s)
           b == Asks(t)
           c == Asks(u)
<1>1. /\ u \in Seq(S) /\ Len(u) = Len(s) + Len(t)
      /\ Len(s) \in Nat /\ Len(t) \in Nat
      /\ \A i \in 1..(Len(s) + Len(t)) : u[i] = IF i <= Len(s) THEN s[i] ELSE t[i - Len(s)]
  BY ConcatProperties, LenProperties
<1> HIDE DEF u
<1>2. \A r \in Seq(S) : /\ Asks(r) \in Seq(T) /\ Len(Asks(r)) = Len(r)
                        /\ \A i \in 1..Len(r) : Asks(r)[i] = Ask(r[i])
  <2> SUFFICES ASSUME NEW r \in Seq(S)
               PROVE  /\ Asks(r) \in Seq(T) /\ Len(Asks(r)) = Len(r)
                      /\ \A i \in 1..Len(r) : Asks(r)[i] = Ask(r[i])
    OBVIOUS
  <2>1. Len(r) \in Nat /\ \A i \in 1..Len(r) : r[i] \in S
    OBVIOUS
  <2>2. \A x \in S : Ask(x) \in T
    OBVIOUS
  <2> HIDE DEF T
  <2>3. Asks(r) \in [1..Len(r) -> T] /\ \A i \in 1..Len(r) : Asks(r)[i] = Ask(r[i])
    BY <2>1, <2>2 DEF Asks
  <2>4. Asks(r) \in Seq(T) /\ Len(Asks(r)) = Len(r)
    BY ONLY <2>1, <2>3, FunctionIsSequence
  <2> QED BY ONLY <2>3, <2>4
<1> HIDE DEF T
<1>3. /\ a \in Seq(T) /\ Len(a) = Len(s) /\ \A i \in 1..Len(s) : a[i] = Ask(s[i])
      /\ b \in Seq(T) /\ Len(b) = Len(t) /\ \A i \in 1..Len(t) : b[i] = Ask(t[i])
      /\ c \in Seq(T) /\ Len(c) = Len(u) /\ \A i \in 1..Len(u) : c[i] = Ask(u[i])
  BY <1>1, <1>2
<1> HIDE DEF a, b, c
<1>4. /\ a \o b \in Seq(T) /\ Len(a \o b) = Len(s) + Len(t)
      /\ \A i \in 1..(Len(s) + Len(t)) : (a \o b)[i] = IF i <= Len(s) THEN a[i] ELSE b[i - Len(s)]
  <2> a \in Seq(T) /\ b \in Seq(T)
    BY <1>3
  <2>1. /\ a \o b \in Seq(T) /\ Len(a \o b) = Len(a) + Len(b)
        /\ \A i \in 1..(Len(a) + Len(b)) : (a \o b)[i] = IF i <= Len(a) THEN a[i] ELSE b[i - Len(a)]
    BY ConcatProperties
  <2>2. Len(a) = Len(s) /\ Len(b) = Len(t)
    BY <1>3
  <2> QED BY ONLY <2>1, <2>2
<1>5. ASSUME NEW i \in 1..Len(c) PROVE c[i] = (a \o b)[i]
  <2>1. i \in 1..(Len(s) + Len(t)) /\ c[i] = Ask(u[i])
    BY <1>1, <1>3
  <2>2. CASE i <= Len(s)
    <3>1. i \in 1..Len(s)
      BY <1>1, <2>1, <2>2
    <3> QED BY <1>1, <1>3, <1>4, <2>1, <2>2, <3>1
  <2>3. CASE ~(i <= Len(s))
    <3>1. i - Len(s) \in 1..Len(t)
      BY <1>1, <2>1, <2>3
    <3> QED BY <1>1, <1>3, <1>4, <2>1, <2>3, <3>1
  <2> QED BY <2>2, <2>3
<1>6. c = a \o b
  BY <1>1, <1>3, <1>4, <1>5, SeqEqual
<1> QED BY <1>6 DEF a, b, c, u

(* The end of a turn becomes a new turn.                                   *)
LEMMA TurnIsSeen ==
  ASSUME IInv, TimeRemaining
  PROVE  /\ Content = Msg("TurnEnds")
         /\ <<Msg("NewTurn")>> \in Seq(EventsSent) /\ Nothing \in Seq(RequestsAsked)
         /\ Srv!HandleEvent(Asks(Nothing), Events(<<Msg("NewTurn")>>))
         /\ UNCHANGED <<seqs, position, cache, told, catalogue, pageSize, serverTurn>>
         /\ Typed' /\ Dated' /\ VersionsRise' /\ Announcing'
<1> DEFINE one == <<Msg("NewTurn")>>
<1>1. /\ Content.type = "TurnEnds"
      /\ Nothing \in Seq(RequestsAsked)
      /\ Srv!HandleEvent(Asks(Nothing), Events(one))
      /\ UNCHANGED <<seqs, position, cache, told, catalogue, pageSize, serverTurn>>
  BY NothingSent, FewSent DEF TimeRemaining, Arrives, Content, peerVars
<1>2. one \in Seq(EventsSent) /\ ToSet(one) = {Msg("NewTurn")}
  <2>1. Msg("NewTurn") \in EventsSent
    BY DEF EventsSent, Starting
  <2> QED BY <2>1, SingleContents
<1> HIDE DEF one
<1>3. Content \in EventsSent
  BY <1>1, <1>2, EventEffect
<1>4. Content = Msg("TurnEnds") /\ Content \notin ObjectEvents
  BY <1>1, <1>3, Said DEF ObjectEvents
<1>5. Typed'
  <2>1. position' \in [seqs -> Nat]
    BY <1>1 DEF IInv, Typed
  <2> QED BY <1>1, <1>2, <2>1, EventTyped
<1>6. Dated' /\ VersionsRise' /\ Announcing'
  BY <1>1, <1>2, <1>4, PlainEventKeeps
<1> QED BY <1>1, <1>2, <1>4, <1>5, <1>6 DEF one

(* All lists are asked for, each once.                                     *)
ListsAsked ==
  [i \in 1..Len(Selected(Registered, seqs)) |-> GetIDs(Selected(Registered, seqs)[i])]

LEMMA ListsAre ==
  ASSUME Typed
  PROVE  /\ ListsAsked \in Seq(RequestsAsked)
         /\ ToSet(ListsAsked) = {GetIDs(k) : k \in seqs}
         /\ \A k \in seqs : Count(ListsAsked, ListRequests(k)) = 1
<1> DEFINE kinds == Selected(Registered, seqs)
<1>1. seqs \in SUBSET Kinds
  BY KindsAssumption DEF Typed
<1>2. /\ Registered \in Seq(Kinds) /\ Len(Registered) = 4
      /\ \A i, j \in 1..4 : Registered[i] = Registered[j] => i = j
      /\ \A k \in Kinds : \E i \in 1..4 : Registered[i] = k
  <2>1. Registered \in Seq(Kinds) /\ Len(Registered) = 4
    BY DEF Registered, Kinds
  <2>2. \A i \in 1..4 : i = 1 \/ i = 2 \/ i = 3 \/ i = 4
    OBVIOUS
  <2>3. /\ Registered[1] = "Object" /\ Registered[2] = "OrderDescription"
        /\ Registered[3] = "Resource" /\ Registered[4] = "Design"
    BY DEF Registered
  <2>4. 1 \in 1..4 /\ 2 \in 1..4 /\ 3 \in 1..4 /\ 4 \in 1..4
    OBVIOUS
  <2>5. \A i, j \in 1..4 : Registered[i] = Registered[j] => i = j
    BY <2>2, <2>3
  <2>6. \A k \in Kinds : \E i \in 1..4 : Registered[i] = k
    BY <2>3, <2>4 DEF Kinds
  <2> QED BY <2>1, <2>5, <2>6
<1>3. ToSet(Registered) = Kinds
  <2>1. ToSet(Registered) = {Registered[i] : i \in 1..4} /\ ToSet(Registered) \subseteq Kinds
    BY <1>2, Contents
  <2> QED BY <1>2, <2>1
<1>4. /\ kinds \in Seq(Kinds \cap seqs) /\ ToSet(kinds) = seqs
      /\ \A n, m \in 1..Len(kinds) : kinds[n] = kinds[m] => n = m
  <2>1. PICK s : s = Registered
    OBVIOUS
  <2>2. s \in Seq(Kinds)
    BY <1>2, <2>1
  <2>3. /\ Selected(s, seqs) \in Seq(Kinds \cap seqs)
        /\ ToSet(Selected(s, seqs)) = ToSet(s) \cap seqs
    BY <2>2, SelectedIs
  <2>4. ASSUME \A i, j \in 1..Len(s) : s[i] = s[j] => i = j
        PROVE  \A n, m \in 1..Len(Selected(s, seqs)) :
                 Selected(s, seqs)[n] = Selected(s, seqs)[m] => n = m
    BY ONLY <2>2, <2>4, SelectedIs, ZenonT(30)
  <2>5. \A i, j \in 1..Len(s) : s[i] = s[j] => i = j
    BY <1>2, <2>1
  <2>6. ToSet(s) \cap seqs = seqs
    BY <1>1, <1>3, <2>1
  <2> QED BY <2>1, <2>3, <2>4, <2>5, <2>6
<1>5. /\ Len(kinds) \in Nat /\ \A i \in 1..Len(kinds) : kinds[i] \in seqs
      /\ ToSet(kinds) = {kinds[i] : i \in 1..Len(kinds)}
      /\ ListsAsked = [i \in 1..Len(kinds) |-> GetIDs(kinds[i])]
  <2>1. Len(kinds) \in Nat /\ ToSet(kinds) = {kinds[i] : i \in 1..Len(kinds)}
    BY <1>4, Contents
  <2> QED BY <1>4, <2>1 DEF ListsAsked
<1> HIDE DEF kinds
<1>6. \A k \in seqs : GetIDs(k) \in RequestsAsked
  BY <1>1 DEF GetIDs, RequestsAsked, Requests
<1>7. ListsAsked \in Seq(RequestsAsked) /\ Len(ListsAsked) = Len(kinds)
  <2>1. ListsAsked \in [1..Len(kinds) -> RequestsAsked]
    BY <1>5, <1>6
  <2> QED BY <1>5, <2>1
<1>8. ToSet(ListsAsked) = {GetIDs(k) : k \in seqs}
  <2>1. ToSet(ListsAsked) = {ListsAsked[i] : i \in 1..Len(kinds)}
    BY <1>7, Contents
  <2>2. \A i \in 1..Len(kinds) : ListsAsked[i] = GetIDs(kinds[i])
    BY <1>5
  <2>3. {ListsAsked[i] : i \in 1..Len(kinds)} = {GetIDs(kinds[i]) : i \in 1..Len(kinds)}
    BY <2>2
  <2>4. \A k \in seqs : \E i \in 1..Len(kinds) : kinds[i] = k
    BY <1>4, <1>5
  <2>5. {GetIDs(kinds[i]) : i \in 1..Len(kinds)} = {GetIDs(k) : k \in seqs}
    BY <1>5, <2>4
  <2> QED BY <2>1, <2>3, <2>5
<1>9. ASSUME NEW k \in seqs PROVE Count(ListsAsked, ListRequests(k)) = 1
  <2>1. PICK n \in 1..Len(kinds) : kinds[n] = k
    BY <1>4, <1>5
  <2>2. \A i \in 1..Len(kinds) : ListsAsked[i] \in ListRequests(k) <=> i = n
    <3>1. \A i \in 1..Len(kinds) : ListsAsked[i] \in ListRequests(k) <=> kinds[i] = k
      <4>1. \A j \in seqs : GetIDs(j) \in Requests /\ GetIDs(j).type = "GetIDs" /\ GetIDs(j).kind = j
        BY <1>6, Said DEF GetIDs
      <4> QED BY <1>5, <4>1 DEF ListRequests
    <3> QED BY <1>4, <2>1, <3>1
  <2>3. Places(ListsAsked, ListRequests(k)) = {n}
    BY <1>7, <2>2 DEF Places
  <2> QED BY <2>3, FS_Singleton DEF Count
<1> QED BY <1>7, <1>8, <1>9

LEMMA Begins ==
  ASSUME IInv, Start
  PROVE  /\ Content \in Starting
         /\ ListsAsked \in Seq(RequestsAsked) /\ Nothing \in Seq(EventsSent)
         /\ Srv!HandleEvent(Asks(ListsAsked), Events(Nothing))
         /\ position' = [k \in seqs |-> 0]
         /\ UNCHANGED <<seqs, cache, told, catalogue, pageSize, serverTurn>>
         /\ Typed' /\ Dated' /\ VersionsRise' /\ Announcing'
<1>1. /\ Content.type \in {"Connected", "NewTurn"}
      /\ position' = [k \in seqs |-> 0]
      /\ UNCHANGED <<seqs, cache, told, catalogue, pageSize, serverTurn>>
  BY DEF Start, Arrives, Content, peerVars
<1>2. ListsAsked \in Seq(RequestsAsked) /\ Nothing \in Seq(EventsSent) /\ ToSet(Nothing) = {}
  BY ListsAre, NothingSent DEF IInv
<1>3. Srv!HandleEvent(Asks(ListsAsked), Events(Nothing))
  <2> DEFINE kinds == Selected(Registered, seqs)
  <2>1. Srv!HandleEvent([i \in 1..Len(kinds) |-> Ask(GetIDs(kinds[i]))], Events(Nothing))
    BY NothingSent DEF Start, Nothing
  <2>2. Len(kinds) \in Nat
    <3>1. PICK s : s = Registered
      OBVIOUS
    <3>2. s \in Seq(Kinds)
      BY <3>1 DEF Registered, Kinds
    <3>3. Selected(s, seqs) \in Seq(Kinds \cap seqs)
      BY <3>2, SelectedIs
    <3> QED BY <3>1, <3>3
  <2>3. ListsAsked = [i \in 1..Len(kinds) |-> GetIDs(kinds[i])]
    BY DEF ListsAsked
  <2> HIDE DEF kinds
  <2>4. Len(ListsAsked) = Len(kinds) /\ \A i \in 1..Len(kinds) : ListsAsked[i] = GetIDs(kinds[i])
    BY <2>2, <2>3
  <2>5. Asks(ListsAsked) = [i \in 1..Len(kinds) |-> Ask(GetIDs(kinds[i]))]
    BY <2>4 DEF Asks
  <2> QED BY <2>1, <2>5
<1>4. Content \in EventsSent
  BY <1>2, <1>3, EventEffect
<1>5. Content \in Starting /\ Content \notin ObjectEvents
  BY <1>1, <1>4, Said DEF ObjectEvents, Starting
<1>6. Typed'
  <2>1. position' \in [seqs -> Nat]
    BY <1>1
  <2> QED BY <1>1, <1>2, <1>3, <2>1, EventTyped
<1>7. Dated' /\ VersionsRise' /\ Announcing'
  BY <1>1, <1>2, <1>3, <1>5, PlainEventKeeps
<1> QED BY <1>1, <1>2, <1>3, <1>5, <1>6, <1>7

(* What is fetched of a page.                                              *)
Fetched(k, things) ==
  LET new == Selected(things, {thing \in ToSet(things) : Wanted(k, thing)})
  IN  [i \in 1..Len(new) |-> new[i].id]

LEMMA FetchedIs ==
  ASSUME NEW k, NEW things \in Seq(Thing)
  PROVE  /\ Fetched(k, things) \in Seq(Ids)
         /\ \A thing \in ToSet(things) : Wanted(k, thing) => thing.id \in ToSet(Fetched(k, things))
<1> DEFINE W == {thing \in ToSet(things) : Wanted(k, thing)}
           new == Selected(things, W)
           ids == Fetched(k, things)
<1>1. ids = [i \in 1..Len(new) |-> new[i].id]
  BY DEF Fetched
<1>2. W \subseteq ToSet(things) /\ \A thing \in ToSet(things) : Wanted(k, thing) => thing \in W
  OBVIOUS
<1> HIDE DEF W
<1>3. new \in Seq(Thing \cap W) /\ ToSet(new) = ToSet(things) \cap W
  BY SelectedIs
<1> HIDE DEF new, ids
<1>4. Len(new) \in Nat /\ ToSet(new) = {new[i] : i \in 1..Len(new)}
      /\ \A i \in 1..Len(new) : new[i] \in Thing
  BY <1>3, Contents
<1>5. \A x \in Thing : x.id \in Ids
  BY DEF Thing
<1>6. ids \in Seq(Ids) /\ Len(ids) = Len(new)
  <2>1. ids \in [1..Len(new) -> Ids]
    BY <1>1, <1>4, <1>5
  <2> QED BY <1>4, <2>1
<1>7. \A i \in 1..Len(new) : ids[i] = new[i].id
  BY <1>1
<1>8. ToSet(ids) = {ids[i] : i \in 1..Len(new)}
  BY <1>6, Contents
<1>9. ASSUME NEW thing \in ToSet(things), Wanted(k, thing) PROVE thing.id \in ToSet(ids)
  <2>1. thing \in ToSet(new)
    BY <1>2, <1>3, <1>9
  <2>2. PICK i \in 1..Len(new) : new[i] = thing
    BY <1>4, <2>1
  <2> QED BY <1>7, <1>8, <2>2
<1> QED BY <1>6, <1>9 DEF ids

(* A page is handled: what it asks for, and that the position follows.     *)
LEMMA OidsHandled ==
  ASSUME IInv, HandleOids, NEW k, NEW key, NEW things, NEW more, NEW pos,
         k = Content.kind, key = Content.key, things = Content.things, more = Content.more,
         pos = position[k] + Len(things)
  PROVE  /\ Content.type = "ListOfIDs" /\ Content \in Passing /\ Content \notin ObjectEvents
         /\ k \in seqs /\ key \in Seq(Thing) /\ things \in Seq(Thing) /\ more \in Nat /\ pos \in Nat
         /\ position' = [position EXCEPT ![k] = pos]
         /\ UNCHANGED <<seqs, cache, told, catalogue, pageSize, serverTurn>>
         /\ \E bs \in Seq(RequestsAsked) :
              /\ Srv!HandleEvent(Asks(bs), Events(Nothing))
              /\ \A b \in ToSet(bs) : b.type = "Get" \/ (more > 0 /\ b = GetPage(k, key, pos))
              /\ more > 0 => GetPage(k, key, pos) \in ToSet(bs)
              /\ \A thing \in ToSet(things) : Wanted(k, thing) =>
                   \E b \in ToSet(bs) : b.type = "Get" /\ b.kind = k /\ thing.id \in ToSet(b.ids)
              /\ \A j : Count(bs, ListRequests(j)) = IF j = k /\ more > 0 THEN 1 ELSE 0
<1> DEFINE ids == Fetched(k, things)
           get == IF ids # <<>> THEN <<Get(k, ids)>> ELSE Nothing
           page == IF more > 0 THEN <<GetPage(k, key, pos)>> ELSE Nothing
           bs == get \o page
<1>1. /\ Content.type = "ListOfIDs"
      /\ UNCHANGED <<seqs, cache, told, catalogue, pageSize, serverTurn>>
      /\ position' = [position EXCEPT ![k] = pos]
  BY DEF HandleOids, Arrives, Content, peerVars, PositionAfter
<1>2. Content \in Passing
  <2>1. Waiting # <<>> /\ Waiting \in Seq(EventsSent) /\ Content = Head(Waiting)
    <3>1. events # <<>>
      BY DEF HandleOids, Arrives
    <3> QED BY <3>1, Queues DEF IInv, Typed
  <2>2. Content \in ToSet(Waiting)
    BY <2>1, HeadAndTail
  <2> QED BY <2>2 DEF Passing
<1>3. /\ k \in seqs /\ key \in Seq(Thing) /\ things \in Seq(Thing) /\ more \in Nat
      /\ Content \notin ObjectEvents
  BY <1>1, <1>2, KindsSent DEF ObjectEvents
<1>4. pos \in Nat /\ position'[k] = pos
  BY <1>1, <1>3 DEF IInv, Typed
<1>5. ids \in Seq(Ids) /\ \A thing \in ToSet(things) : Wanted(k, thing) => thing.id \in ToSet(ids)
  BY <1>3, FetchedIs
<1>6. k \in Kinds
  BY <1>3, KindsAssumption DEF IInv, Typed
<1>7. Get(k, ids) \in RequestsAsked /\ GetPage(k, key, pos) \in RequestsAsked
  <2> HIDE DEF ids
  <2> QED BY <1>3, <1>4, <1>5, <1>6 DEF Get, GetPage, RequestsAsked, Requests
<1>8. /\ get \in Seq(RequestsAsked) /\ page \in Seq(RequestsAsked)
      /\ ToSet(get) = IF ids # <<>> THEN {Get(k, ids)} ELSE {}
      /\ ToSet(page) = IF more > 0 THEN {GetPage(k, key, pos)} ELSE {}
  <2> HIDE DEF ids
  <2>1. ASSUME NEW S, NEW x \in S PROVE <<x>> \in Seq(S) /\ ToSet(<<x>>) = {x}
    BY SingleContents
  <2>2. <<Get(k, ids)>> \in Seq(RequestsAsked) /\ ToSet(<<Get(k, ids)>>) = {Get(k, ids)}
    BY <1>7, <2>1
  <2>3. /\ <<GetPage(k, key, pos)>> \in Seq(RequestsAsked)
        /\ ToSet(<<GetPage(k, key, pos)>>) = {GetPage(k, key, pos)}
    BY <1>7, <2>1
  <2>4. Nothing \in Seq(RequestsAsked) /\ ToSet(Nothing) = {}
    BY NothingSent
  <2> QED BY <2>2, <2>3, <2>4
<1>9. ASSUME NEW j
      PROVE  /\ Count(get, ListRequests(j)) = 0
             /\ Count(page, ListRequests(j)) = IF j = k /\ more > 0 THEN 1 ELSE 0
  <2> HIDE DEF ids
  <2>1. Get(k, ids) \notin ListRequests(j) /\ (GetPage(k, key, pos) \in ListRequests(j) <=> j = k)
    BY <1>7, Said DEF Get, GetPage, ListRequests
  <2> QED BY <2>1, NothingSent, SingleCount DEF Count
<1>10. Asks(get) = (IF ids # <<>> THEN <<Ask(Get(k, ids))>> ELSE <<>>)
       /\ Asks(page) = (IF more > 0 THEN <<Ask(GetPage(k, key, pos))>> ELSE <<>>)
  <2> HIDE DEF ids
  <2> QED BY FewSent, NothingSent
<1>11. Srv!HandleEvent(Asks(get) \o Asks(page), Events(Nothing))
  <2>1. Srv!HandleEvent((IF ids # <<>> THEN <<Ask(Get(k, ids))>> ELSE <<>>)
                          \o (IF more > 0 THEN <<Ask(GetPage(k, key, position'[k]))>> ELSE <<>>), <<>>)
    BY DEF HandleOids, Fetched
  <2> HIDE DEF ids, get, page
  <2> QED BY <1>4, <1>10, <2>1, NothingSent
<1> HIDE DEF get, page
<1>12. /\ bs \in Seq(RequestsAsked) /\ ToSet(bs) = ToSet(get) \cup ToSet(page)
       /\ Asks(bs) = Asks(get) \o Asks(page)
       /\ \A X : Count(bs, X) = Count(get, X) + Count(page, X)
  <2>1. get \in Seq(RequestsAsked) /\ page \in Seq(RequestsAsked)
    BY <1>8
  <2>2. bs \in Seq(RequestsAsked) /\ ToSet(bs) = ToSet(get) \cup ToSet(page)
    BY <2>1, ConcatContents
  <2>3. Asks(bs) = Asks(get) \o Asks(page)
    BY <2>1, AsksConcat
  <2>4. \A X : Count(bs, X) = Count(get, X) + Count(page, X)
    BY <2>1, ConcatCount DEF Count
  <2> QED BY <2>2, <2>3, <2>4
<1> HIDE DEF bs
<1>13. \A b \in ToSet(bs) : b.type = "Get" \/ (more > 0 /\ b = GetPage(k, key, pos))
  BY <1>8, <1>12 DEF Get
<1>14. more > 0 => GetPage(k, key, pos) \in ToSet(bs)
  BY <1>8, <1>12
<1>15. ASSUME NEW thing \in ToSet(things), Wanted(k, thing)
       PROVE  \E b \in ToSet(bs) : b.type = "Get" /\ b.kind = k /\ thing.id \in ToSet(b.ids)
  <2> HIDE DEF ids
  <2>1. ids # <<>>
    BY <1>5, <1>15, EmptyContents
  <2>2. Get(k, ids) \in ToSet(bs)
    BY <1>8, <1>12, <2>1
  <2>3. Get(k, ids).type = "Get" /\ Get(k, ids).kind = k /\ Get(k, ids).ids = ids
    BY DEF Get
  <2> QED BY <1>5, <1>15, <2>2, <2>3
<1>16. \A j : Count(bs, ListRequests(j)) = IF j = k /\ more > 0 THEN 1 ELSE 0
  BY <1>9, <1>12
<1>17. Srv!HandleEvent(Asks(bs), Events(Nothing))
  BY <1>11, <1>12
<1> QED BY <1>1, <1>2, <1>3, <1>4, <1>12, <1>13, <1>14, <1>15, <1>16, <1>17

LEMMA HandleOidsKeeps ==
  ASSUME IInv, HandleOids
  PROVE  Typed' /\ Dated' /\ VersionsRise' /\ Announcing'
<1>1. PICK k, key, things, more, pos :
        /\ k = Content.kind /\ key = Content.key /\ things = Content.things /\ more = Content.more
        /\ pos = position[k] + Len(things)
  OBVIOUS
<1>2. /\ Content \notin ObjectEvents /\ k \in seqs /\ pos \in Nat
      /\ position' = [position EXCEPT ![k] = pos]
      /\ UNCHANGED <<seqs, cache, told, catalogue, pageSize, serverTurn>>
  BY <1>1, OidsHandled
<1>3. PICK bs \in Seq(RequestsAsked) : Srv!HandleEvent(Asks(bs), Events(Nothing))
  BY <1>1, OidsHandled
<1>4. Nothing \in Seq(EventsSent) /\ ToSet(Nothing) = {}
  BY NothingSent
<1>5. Typed'
  <2>1. position' \in [seqs -> Nat]
    BY <1>2 DEF IInv, Typed
  <2> QED BY <1>2, <1>3, <1>4, <2>1, EventTyped
<1>6. Dated' /\ VersionsRise' /\ Announcing'
  BY <1>2, <1>3, <1>4, PlainEventKeeps
<1> QED BY <1>5, <1>6

-----------------------------------------------------------------------------
(* The server's answers                                                    *)

(* A list as the server makes it.                                          *)
LEMMA ListOfIs ==
  ASSUME IInv, NEW k \in seqs
  PROVE  /\ ListOf(catalogue[k]) \in Seq(Thing)
         /\ Len(ListOf(catalogue[k])) <= Cardinality(Ids)
         /\ ToSet(ListOf(catalogue[k])) = {Current(k, id) : id \in DOMAIN catalogue[k]}
<1> DEFINE c == catalogue[k]
           ids == Ascending(DOMAIN c)
           list == ListOf(c)
<1>1. /\ DOMAIN c \subseteq Ids /\ c \in [DOMAIN c -> Nat]
      /\ DOMAIN c \in SUBSET Nat /\ IsFiniteSet(DOMAIN c)
      /\ Cardinality(DOMAIN c) <= Cardinality(Ids)
  <2>1. DOMAIN c \subseteq Ids /\ c \in [DOMAIN c -> Nat]
    BY DEF IInv, Typed
  <2> QED BY <2>1, FS_Subset, BoundAssumption
<1>2. list = [i \in 1..Len(ids) |-> [id |-> ids[i], updated |-> c[ids[i]]]]
  BY DEF ListOf
<1>3. /\ ids \in Seq(DOMAIN c) /\ Len(ids) = Cardinality(DOMAIN c) /\ Len(ids) \in Nat
      /\ ToSet(ids) = DOMAIN c
  BY <1>1, AscendingIs
<1>4. /\ ToSet(ids) = {ids[i] : i \in 1..Len(ids)}
      /\ \A i \in 1..Len(ids) : ids[i] \in DOMAIN c
  BY <1>3, Contents
<1>5. \A id \in DOMAIN c : Current(k, id) \in Thing /\ Current(k, id) = [id |-> id, updated |-> c[id]]
  BY <1>1 DEF Current, Thing
<1> HIDE DEF c, ids, list
<1>6. \A i \in 1..Len(ids) : list[i] = Current(k, ids[i])
  BY <1>2, <1>4, <1>5
<1>7. list \in Seq(Thing) /\ Len(list) = Len(ids)
  <2>1. list \in [1..Len(ids) -> Thing]
    BY <1>2, <1>4, <1>5
  <2> QED BY <1>3, <2>1
<1>8. ToSet(list) = {Current(k, id) : id \in DOMAIN c}
  <2>1. ToSet(list) = {list[i] : i \in 1..Len(ids)}
    BY <1>7, Contents
  <2>2. \A id \in DOMAIN c : \E i \in 1..Len(ids) : ids[i] = id
    BY <1>3, <1>4
  <2>3. {list[i] : i \in 1..Len(ids)} = {Current(k, ids[i]) : i \in 1..Len(ids)}
    BY <1>6
  <2>4. {Current(k, ids[i]) : i \in 1..Len(ids)} = {Current(k, id) : id \in DOMAIN c}
    BY <1>4, <2>2
  <2> QED BY <2>1, <2>3, <2>4
<1> QED BY <1>1, <1>3, <1>7, <1>8 DEF c, list

(* A page: what it has of the list, and what is left.                      *)
LEMMA PageIs ==
  ASSUME Typed, NEW k \in seqs, NEW key \in Seq(Thing), NEW pos \in Nat
  PROVE  \E things \in Seq(Thing), more \in Nat :
           /\ Page(k, key, pos) = ListOfIDs(k, key, things, more)
           /\ Page(k, key, pos) \in Registering
           /\ pos <= Len(key) => pos + Len(things) + more = Len(key)
           /\ more > 0 => /\ Len(things) = pageSize /\ pageSize > 0
                          /\ pos + pageSize < Len(key)
           /\ Beyond(key, pos) \subseteq ToSet(things) \cup Beyond(key, pos + Len(things))
<1> DEFINE last == IF pos + pageSize < Len(key) THEN pos + pageSize ELSE Len(key)
           things == SubSeq(key, pos + 1, last)
           more == Len(key) - last
<1>1. pageSize \in Nat /\ pageSize > 0 /\ Len(key) \in Nat
  <2>1. pageSize \in Nat \ {0}
    BY BoundAssumption DEF Typed
  <2> QED BY <2>1
<1>2. last \in Nat /\ (pos <= Len(key) => pos <= last) /\ last <= Len(key) /\ more \in Nat
  BY <1>1
<1>3. more > 0 => pos <= Len(key) /\ last = pos + pageSize /\ pos + pageSize < Len(key)
  BY <1>1
<1>4. Page(k, key, pos) = ListOfIDs(k, key, things, more)
  BY DEF Page
<1> HIDE DEF last
<1>5. /\ things \in Seq(Thing)
      /\ pos <= Len(key) => /\ Len(things) = last - pos
                            /\ \A i \in 1..(last - pos) : things[i] = key[pos + i]
  <2>1. \A i \in (pos + 1)..last : i \in 1..Len(key) /\ key[i] \in Thing
    BY <1>1, <1>2
  <2>2. pos + 1 \in Int /\ last \in Int
    BY <1>2
  <2>3. /\ things \in Seq(Thing)
        /\ Len(things) = IF pos + 1 <= last THEN (last - (pos + 1)) + 1 ELSE 0
        /\ \A i \in 1..((last - (pos + 1)) + 1) : things[i] = key[((pos + 1) + i) - 1]
    BY <2>1, <2>2, SubSeqProperties
  <2> HIDE DEF things
  <2>4. ASSUME pos <= Len(key)
        PROVE  /\ Len(things) = last - pos
               /\ \A i \in 1..(last - pos) : things[i] = key[pos + i]
    <3>1. (last - (pos + 1)) + 1 = last - pos /\ last - pos \in Nat
      BY <1>2, <2>4
    <3>2. Len(things) = last - pos
      BY <1>2, <2>3, <2>4, <3>1
    <3>3. \A i \in 1..(last - pos) : ((pos + 1) + i) - 1 = pos + i
      BY <1>2
    <3> QED BY <2>3, <3>1, <3>2, <3>3
  <2> QED BY <2>3, <2>4
<1> HIDE DEF things
<1>6. /\ pos <= Len(key) => pos + Len(things) + more = Len(key)
      /\ more > 0 => Len(things) = pageSize /\ pos + pageSize < Len(key)
  BY <1>1, <1>2, <1>3, <1>5
<1>7. Page(k, key, pos) \in Registering
  <2>1. k \in Kinds
    BY KindsAssumption DEF Typed
  <2> HIDE DEF more
  <2>2. ListOfIDs(k, key, things, more) \in
          [type : {"ListOfIDs"}, kind : Kinds, key : Seq(Thing), things : Seq(Thing), more : Nat]
    BY <1>2, <1>5, <2>1 DEF ListOfIDs
  <2> QED BY <1>4, <2>2 DEF Registering, ListOrData, Replies, ListOfIDs
<1>8. ASSUME NEW x \in Beyond(key, pos)
      PROVE  x \in ToSet(things) \cup Beyond(key, pos + Len(things))
  <2>1. PICK j \in 1..Len(key) : j > pos /\ x = key[j]
    BY <1>8 DEF Beyond
  <2> pos <= Len(key)
    BY <1>1, <2>1
  <2>2. CASE j <= last
    <3>1. j - pos \in 1..(last - pos) /\ pos + (j - pos) = j
      BY <1>1, <1>2, <2>1, <2>2
    <3>2. x = things[j - pos] /\ j - pos \in 1..Len(things)
      BY <1>5, <2>1, <3>1
    <3> QED BY <1>5, <3>2, Contents
  <2>3. CASE j > last
    <3>1. pos + Len(things) = last
      BY <1>2, <1>5
    <3>2. x \in Beyond(key, last)
      BY <2>1, <2>3 DEF Beyond
    <3> QED BY <3>1, <3>2
  <2> QED BY <1>1, <1>2, <2>1, <2>2, <2>3
<1> QED BY <1>1, <1>2, <1>4, <1>5, <1>6, <1>7, <1>8

(* A list, or a page of one, is sent.                                      *)
LEMMA PageSent ==
  ASSUME IInv, AnswerGetIDs \/ AnswerGetPage
  PROVE  \E k \in seqs, key \in Seq(Thing), pos \in Nat, things \in Seq(Thing), more \in Nat :
           /\ Question \in ListRequests(k) /\ Question.kind = k
           /\ Question.type = "GetIDs" => key = ListOf(catalogue[k]) /\ pos = 0
           /\ Question.type = "GetPage" => key = Question.key /\ pos = Question.pos
           /\ ListOfIDs(k, key, things, more) \in Registering
           /\ Srv!Answer(<<ListOfIDs(k, key, things, more)>>)
           /\ pos <= Len(key) => pos + Len(things) + more = Len(key)
           /\ more > 0 => /\ Len(things) = pageSize /\ pageSize > 0
                          /\ pos + pageSize < Len(key)
           /\ Beyond(key, pos) \subseteq ToSet(things) \cup Beyond(key, pos + Len(things))
<1>1. Question.type \in {"GetIDs", "GetPage"} /\ Question \in RequestsAsked
  <2>1. toServer # <<>> /\ Question.type \in {"GetIDs", "GetPage"}
    BY DEF AnswerGetIDs, AnswerGetPage, Asked, Question
  <2>2. Wire # <<>> /\ Question = Head(Wire) /\ Wire \in Seq(RequestsAsked)
    BY <2>1, Queues DEF IInv, Typed
  <2> QED BY <2>1, <2>2, HeadAndTail
<1>2. PICK k : k = Question.kind
  OBVIOUS
<1>3. k \in seqs /\ Question \in ListRequests(k)
  BY <1>1, <1>2 DEF RequestsAsked, ListRequests
<1>4. PICK key \in Seq(Thing), pos \in Nat :
        /\ Question.type = "GetIDs" => key = ListOf(catalogue[k]) /\ pos = 0
        /\ Question.type = "GetPage" => key = Question.key /\ pos = Question.pos
        /\ Srv!Answer(<<Page(k, key, pos)>>)
  <2>1. CASE Question.type = "GetIDs"
    <3>1. Srv!Answer(<<Page(k, ListOf(catalogue[k]), 0)>>)
      BY <1>2, <2>1 DEF AnswerGetIDs, AnswerGetPage, Asked, Question
    <3>2. ListOf(catalogue[k]) \in Seq(Thing)
      BY <1>3, ListOfIs
    <3> QED BY <2>1, <3>1, <3>2
  <2>2. CASE Question.type = "GetPage"
    <3>1. Srv!Answer(<<Page(k, Question.key, Question.pos)>>)
      BY <1>2, <2>2 DEF AnswerGetIDs, AnswerGetPage, Asked, Question
    <3>2. Question.key \in Seq(Thing) /\ Question.pos \in Nat
      BY <1>1, <2>2, Said
    <3> QED BY <2>2, <3>1, <3>2
  <2> QED BY <1>1, <2>1, <2>2
<1>5. PICK things \in Seq(Thing), more \in Nat :
        /\ Page(k, key, pos) = ListOfIDs(k, key, things, more)
        /\ Page(k, key, pos) \in Registering
        /\ pos <= Len(key) => pos + Len(things) + more = Len(key)
        /\ more > 0 => /\ Len(things) = pageSize /\ pageSize > 0
                       /\ pos + pageSize < Len(key)
        /\ Beyond(key, pos) \subseteq ToSet(things) \cup Beyond(key, pos + Len(things))
  BY <1>3, PageIs DEF IInv
<1> QED BY <1>2, <1>3, <1>4, <1>5

LEMMA PageSentKeeps ==
  ASSUME IInv, AnswerGetIDs \/ AnswerGetPage,
         UNCHANGED <<seqs, position, cache, told, catalogue, pageSize, serverTurn>>
  PROVE  Typed' /\ Dated' /\ VersionsRise' /\ Announcing'
<1>1. PICK page \in Registering : Srv!Answer(<<page>>) /\ page.type = "ListOfIDs"
  <2>1. PICK k \in seqs, key \in Seq(Thing), pos \in Nat, things \in Seq(Thing), more \in Nat :
           /\ Question \in ListRequests(k) /\ Question.kind = k
           /\ Question.type = "GetIDs" => key = ListOf(catalogue[k]) /\ pos = 0
           /\ Question.type = "GetPage" => key = Question.key /\ pos = Question.pos
           /\ ListOfIDs(k, key, things, more) \in Registering
           /\ Srv!Answer(<<ListOfIDs(k, key, things, more)>>)
           /\ pos <= Len(key) => pos + Len(things) + more = Len(key)
           /\ more > 0 => /\ Len(things) = pageSize /\ pageSize > 0
                          /\ pos + pageSize < Len(key)
           /\ Beyond(key, pos) \subseteq ToSet(things) \cup Beyond(key, pos + Len(things))
    BY PageSent
  <2>2. ListOfIDs(k, key, things, more).type = "ListOfIDs"
    BY DEF ListOfIDs
  <2> QED BY <2>1, <2>2
<1>2. page \in FramesSent
  BY DEF FramesSent
<1>3. <<page>> \in Seq(FramesSent) \ {<<>>} /\ ToSet(<<page>>) = {page}
  BY <1>2, SingleContents
<1>4. Typed'
  BY <1>1, <1>3, AnswerEffect, SameSent DEF IInv, Typed
<1>5. Dated' /\ VersionsRise' /\ Announcing'
  BY <1>1, <1>3, AnswerKeeps
<1> QED BY <1>4, <1>5

(* The things asked for are sent as they are.                              *)
LEMMA ThingsSent ==
  ASSUME IInv, AnswerGet
  PROVE  \E bodies \in Seq(FramesSent) \ {<<>>} :
           /\ Srv!Answer(bodies)
           /\ Question.type = "Get" /\ Question.kind \in seqs
           /\ \A b \in ToSet(bodies) :
                /\ b.type \in {"SEQUENCE", "Fail", "Data"}
                /\ b.type = "Data" => /\ b.kind = Question.kind
                                      /\ b.thing.id \in DOMAIN catalogue[b.kind]
                                      /\ b.thing.updated = catalogue[b.kind][b.thing.id]
           /\ \A id \in DOMAIN catalogue[Question.kind] : id \in ToSet(Question.ids) =>
                \E b \in ToSet(bodies) :
                  b.type = "Data" /\ b.kind = Question.kind /\ b.thing = Current(b.kind, id)
<1>1. Question.type = "Get" /\ Question \in RequestsAsked
  <2>1. toServer # <<>> /\ Question.type = "Get"
    BY DEF AnswerGet, Asked, Question
  <2>2. Wire # <<>> /\ Question = Head(Wire) /\ Wire \in Seq(RequestsAsked)
    BY <2>1, Queues DEF IInv, Typed
  <2> QED BY <2>1, <2>2, HeadAndTail
<1>2. PICK k, ids : k = Question.kind /\ ids = Question.ids
  OBVIOUS
<1>3. k \in seqs /\ k \in Kinds /\ ids \in Seq(Ids)
  BY <1>1, <1>2, Said DEF RequestsAsked
<1> DEFINE AnswerTo(id) == IF id \in DOMAIN catalogue[k]
                        THEN Data(k, [id |-> id, updated |-> catalogue[k][id]])
                        ELSE Msg("Fail")
           answer == [i \in 1..Len(ids) |-> AnswerTo(ids[i])]
           bodies == IF Len(answer) = 1 THEN answer ELSE <<Msg("SEQUENCE")>> \o answer
<1>4. Srv!Answer(bodies)
  BY <1>2 DEF AnswerGet
<1>5. ASSUME NEW id \in Ids
      PROVE  /\ AnswerTo(id) \in FramesSent
             /\ AnswerTo(id).type \in {"Fail", "Data"}
             /\ AnswerTo(id).type = "Data" =>
                  /\ AnswerTo(id).kind = k
                  /\ AnswerTo(id).thing.id \in DOMAIN catalogue[k]
                  /\ AnswerTo(id).thing.updated = catalogue[k][AnswerTo(id).thing.id]
             /\ id \in DOMAIN catalogue[k] =>
                  /\ AnswerTo(id).type = "Data" /\ AnswerTo(id).kind = k
                  /\ AnswerTo(id).thing = Current(k, id)
  <2>1. CASE id \in DOMAIN catalogue[k]
    <3> DEFINE thing == [id |-> id, updated |-> catalogue[k][id]]
    <3>1. catalogue[k][id] \in Nat
      BY <1>3, <2>1 DEF IInv, Typed
    <3>2. thing \in Thing /\ thing.id = id /\ thing.updated = catalogue[k][id]
          /\ thing = Current(k, id)
      BY <3>1 DEF Thing, Current
    <3> HIDE DEF thing
    <3>3. Data(k, thing) \in [type : {"Data"}, kind : Kinds, thing : Thing]
      BY <1>3, <3>2 DEF Data
    <3>4. Data(k, thing) \in FramesSent
      BY <1>3, <3>3 DEF FramesSent, Registering, ListOrData, Replies, Data
    <3>5. AnswerTo(id) = Data(k, thing)
      BY <2>1 DEF thing
    <3> HIDE DEF AnswerTo
    <3>6. /\ Data(k, thing).type = "Data" /\ Data(k, thing).kind = k
          /\ Data(k, thing).thing = thing
      BY DEF Data
    <3> QED BY <2>1, <3>2, <3>4, <3>5, <3>6
  <2>2. CASE id \notin DOMAIN catalogue[k]
    <3>1. AnswerTo(id) = Msg("Fail")
      BY <2>2
    <3> HIDE DEF AnswerTo
    <3> QED BY <2>2, <3>1 DEF FramesSent, Msg
  <2> QED BY <2>1, <2>2
<1> HIDE DEF AnswerTo
<1>6. /\ Len(ids) \in Nat /\ \A i \in 1..Len(ids) : ids[i] \in Ids
      /\ ToSet(ids) = {ids[i] : i \in 1..Len(ids)}
  BY <1>3, Contents
<1>7. /\ answer \in Seq(FramesSent) /\ Len(answer) = Len(ids)
      /\ \A i \in 1..Len(ids) : answer[i] = AnswerTo(ids[i])
  <2>1. answer \in [1..Len(ids) -> FramesSent]
    BY <1>5, <1>6
  <2> QED BY <1>6, <2>1
<1> HIDE DEF answer
<1>8. ToSet(answer) = {AnswerTo(id) : id \in ToSet(ids)}
  <2>1. ToSet(answer) = {answer[i] : i \in 1..Len(ids)}
    BY <1>7, Contents
  <2>2. {answer[i] : i \in 1..Len(ids)} = {AnswerTo(ids[i]) : i \in 1..Len(ids)}
    BY <1>7
  <2>3. {AnswerTo(ids[i]) : i \in 1..Len(ids)} = {AnswerTo(id) : id \in ToSet(ids)}
    BY <1>6
  <2> QED BY <2>1, <2>2, <2>3
<1>9. /\ bodies \in Seq(FramesSent) \ {<<>>}
      /\ ToSet(answer) \subseteq ToSet(bodies)
      /\ ToSet(bodies) \subseteq ToSet(answer) \cup {Msg("SEQUENCE")}
  <2> DEFINE head == <<Msg("SEQUENCE")>>
  <2>1. head \in Seq(FramesSent) /\ ToSet(head) = {Msg("SEQUENCE")}
    <3>1. Msg("SEQUENCE") \in FramesSent
      BY DEF FramesSent
    <3> QED BY <3>1, SingleContents
  <2> HIDE DEF head
  <2>2. /\ head \o answer \in Seq(FramesSent)
        /\ ToSet(head \o answer) = {Msg("SEQUENCE")} \cup ToSet(answer)
    BY <1>7, <2>1, ConcatContents
  <2>3. head \o answer # <<>>
    <3>1. ToSet(head \o answer) # {}
      BY <2>2
    <3> QED BY <2>2, <3>1, Contents
  <2>4. Len(answer) = 1 => answer # <<>>
    BY <1>7
  <2> HIDE DEF bodies
  <2>5. bodies = IF Len(answer) = 1 THEN answer ELSE head \o answer
    BY DEF bodies, head
  <2> QED BY <1>7, <2>2, <2>3, <2>4, <2>5
<1> HIDE DEF bodies
<1>10. ToSet(ids) \subseteq Ids
  BY <1>6
<1>11. ASSUME NEW b \in ToSet(bodies)
       PROVE  /\ b.type \in {"SEQUENCE", "Fail", "Data"}
              /\ b.type = "Data" => /\ b.kind = k
                                    /\ b.thing.id \in DOMAIN catalogue[b.kind]
                                    /\ b.thing.updated = catalogue[b.kind][b.thing.id]
  <2>1. CASE b = Msg("SEQUENCE")
    BY <2>1 DEF Msg
  <2>2. CASE b \in ToSet(answer)
    <3>1. PICK id \in ToSet(ids) : b = AnswerTo(id)
      BY <1>8, <2>2
    <3> QED BY <1>5, <1>10, <3>1
  <2> QED BY <1>9, <2>1, <2>2
<1>12. ASSUME NEW id \in DOMAIN catalogue[k], id \in ToSet(ids)
       PROVE  \E b \in ToSet(bodies) : b.type = "Data" /\ b.kind = k /\ b.thing = Current(b.kind, id)
  <2>1. AnswerTo(id) \in ToSet(bodies)
    BY <1>8, <1>9, <1>12
  <2>2. AnswerTo(id).type = "Data" /\ AnswerTo(id).kind = k /\ AnswerTo(id).thing = Current(k, id)
    BY <1>5, <1>10, <1>12
  <2> QED BY <2>1, <2>2
<1> QED BY <1>1, <1>2, <1>3, <1>4, <1>9, <1>11, <1>12

LEMMA ThingsSentKeeps ==
  ASSUME IInv, AnswerGet,
         UNCHANGED <<seqs, position, cache, told, catalogue, pageSize, serverTurn>>
  PROVE  Typed' /\ Dated' /\ VersionsRise' /\ Announcing'
<1>1. PICK bodies \in Seq(FramesSent) \ {<<>>} :
        /\ Srv!Answer(bodies)
        /\ \A b \in ToSet(bodies) : b.type = "Data" =>
             /\ b.thing.id \in DOMAIN catalogue[b.kind]
             /\ b.thing.updated = catalogue[b.kind][b.thing.id]
  BY ThingsSent
<1>2. Typed'
  BY <1>1, AnswerEffect, SameSent DEF IInv, Typed
<1>3. Dated' /\ VersionsRise' /\ Announcing'
  BY <1>1, AnswerKeeps
<1> QED BY <1>2, <1>3

-----------------------------------------------------------------------------
(* Lists in pages                                                          *)

LEMMA ListsAsCounts ==
  ASSUME IInv, NEW k
  PROVE  /\ ListsUnderWay(k) = Count(Wire, ListRequests(k))
                                 + Count(Arriving, ListFrames(k)) + Count(Waiting, ListFrames(k))
         /\ {Count(Wire, ListRequests(k)), Count(Arriving, ListFrames(k)),
             Count(Waiting, ListFrames(k))} \subseteq Nat
BY Queues, PlacesFinite DEF IInv, ListsUnderWay, Count

LEMMA ListFramesAre ==
  /\ \A k : ListFrames(k) \cap Unheard = {}
  /\ \A b, k : b \in ListFrames(k) <=> b \in Starting \/ b \in ListsOf(k)
  /\ \A b \in Starting : b.type \in {"Connected", "NewTurn", "TurnEnds"}
  /\ \A b \in Replies : b.type \in {"Data", "Fail", "SEQUENCE", "ObjectNew", "ObjectChanged"} =>
       \A k : b \notin ListFrames(k)
BY Said DEF ListFrames, Starting, ListsOf, Unheard

(* What an event does to the lists under way.                              *)
LEMMA EventLists ==
  ASSUME IInv, NEW bs \in Seq(RequestsAsked), NEW cs \in Seq(EventsSent),
         Srv!HandleEvent(Asks(bs), Events(cs)), NEW k
  PROVE  /\ ListsUnderWay(k)' + (IF Content \in ListFrames(k) THEN 1 ELSE 0)
              = ListsUnderWay(k) + Count(bs, ListRequests(k)) + Count(cs, ListFrames(k))
         /\ {ListsUnderWay(k)', ListsUnderWay(k), Count(bs, ListRequests(k)),
             Count(cs, ListFrames(k))} \subseteq Nat
<1> DEFINE R == ListRequests(k)
           F == ListFrames(k)
<1>1. ListsUnderWay(k) = Count(Wire, R) + Count(Arriving, F) + Count(Waiting, F)
  BY ListsAsCounts
<1>2. ListsUnderWay(k)' = Count(Wire', R) + Count(Arriving', F) + Count(Waiting', F)
  BY DEF ListsUnderWay, Count
<1> HIDE DEF R, F
<1>3. /\ Count(Wire', R) = Count(Wire, R) + Count(bs, R)
      /\ {Count(Wire, R), Count(Wire', R), Count(bs, R)} \subseteq Nat
  BY EventCounts
<1>4. /\ Count(Waiting', F) + (IF Content \in F THEN 1 ELSE 0) = Count(Waiting, F) + Count(cs, F)
      /\ Count(Arriving', F) = Count(Arriving, F)
      /\ {Count(Arriving, F), Count(Waiting, F), Count(Waiting', F), Count(cs, F)} \subseteq Nat
  BY EventCounts
<1>5. PICK n \in Nat : n = IF Content \in F THEN 1 ELSE 0
  OBVIOUS
<1>6. /\ ListsUnderWay(k)' + n = ListsUnderWay(k) + Count(bs, R) + Count(cs, F)
      /\ {ListsUnderWay(k)', ListsUnderWay(k), Count(bs, R), Count(cs, F)} \subseteq Nat
  <2>1. Count(Waiting', F) + n = Count(Waiting, F) + Count(cs, F)
    BY <1>4, <1>5
  <2>2. /\ Count(Wire, R) \in Nat /\ Count(Wire', R) \in Nat /\ Count(bs, R) \in Nat
        /\ Count(Arriving, F) \in Nat /\ Count(Waiting, F) \in Nat /\ Count(Waiting', F) \in Nat
        /\ Count(cs, F) \in Nat
    BY <1>3, <1>4
  <2>3. /\ ListsUnderWay(k) = Count(Wire, R) + Count(Arriving, F) + Count(Waiting, F)
        /\ ListsUnderWay(k)' = (Count(Wire, R) + Count(bs, R)) + Count(Arriving, F) + Count(Waiting', F)
    BY <1>1, <1>2, <1>3, <1>4
  <2>4. ListsUnderWay(k)' + n = ListsUnderWay(k) + Count(bs, R) + Count(cs, F)
    <3>1. PICK w \in Nat, b \in Nat, a \in Nat, v \in Nat, u \in Nat, c \in Nat :
            /\ w = Count(Wire, R) /\ b = Count(bs, R) /\ a = Count(Arriving, F)
            /\ v = Count(Waiting, F) /\ u = Count(Waiting', F) /\ c = Count(cs, F)
      BY ONLY <2>2
    <3>2. /\ {w, b, a, v, u, c, n} \subseteq Nat /\ u + n = v + c
      BY ONLY <1>5, <2>1, <3>1
    <3>3. /\ ListsUnderWay(k) = w + a + v
          /\ ListsUnderWay(k)' = (w + b) + a + u
      BY ONLY <2>3, <3>1
    <3>4. ((w + b) + a + u) + n = (w + a + v) + b + c
      BY ONLY <3>2
    <3> QED BY ONLY <3>1, <3>3, <3>4
  <2>5. ListsUnderWay(k) \in Nat /\ ListsUnderWay(k)' \in Nat
    BY ONLY <2>2, <2>3
  <2> QED BY <2>2, <2>4, <2>5
<1> QED BY <1>5, <1>6 DEF R, F

(* A list in pages that is handled was the only one of its kind.           *)
LEMMA AloneHandled ==
  ASSUME IInv, Patient, Paged, NEW bs \in Seq(RequestsAsked), NEW cs \in Seq(EventsSent),
         Srv!HandleEvent(Asks(bs), Events(cs)), NEW k \in seqs, Content \in ListFrames(k),
         Count(cs, ListFrames(k)) = 0
  PROVE  ToSet(Wire) \cap ListRequests(k) = {} /\ Passing' \cap ListFrames(k) = {}
<1> DEFINE R == ListRequests(k)
           F == ListFrames(k)
<1>1. ListsUnderWay(k) <= 1
  BY DEF IInv, Pages
<1>2. /\ ListsUnderWay(k) = Count(Wire, R) + Count(Arriving, F) + Count(Waiting, F)
      /\ Count(cs, F) = 0
      /\ Content \in F
  BY ListsAsCounts
<1> HIDE DEF R, F
<1>3. /\ Count(Waiting', F) + (IF Content \in F THEN 1 ELSE 0) = Count(Waiting, F) + Count(cs, F)
      /\ Arriving' = Arriving
      /\ {Count(Arriving, F), Count(Waiting, F), Count(Waiting', F), Count(cs, F)} \subseteq Nat
  BY EventCounts
<1>4. Count(Wire, R) \in Nat
  BY EventCounts
<1>5. Count(Wire, R) = 0 /\ Count(Arriving', F) = 0 /\ Count(Waiting', F) = 0
  BY <1>1, <1>2, <1>3, <1>4
<1>6. /\ Wire \in Seq(Requests) /\ Arriving' \in Seq(Replies) /\ Waiting' \in Seq(EventsSent)
  BY <1>3, Queues, EventEffect DEF IInv
<1>7. ToSet(Wire) \cap R = {} /\ ToSet(Arriving') \cap F = {} /\ ToSet(Waiting') \cap F = {}
  <2>1. ToSet(Wire) \cap R = {}
    BY <1>5, <1>6, PlacesFinite DEF Count
  <2>2. ToSet(Arriving') \cap F = {}
    BY <1>5, <1>6, PlacesFinite DEF Count
  <2>3. ToSet(Waiting') \cap F = {}
    BY <1>5, <1>6, PlacesFinite DEF Count
  <2> QED BY <2>1, <2>2, <2>3
<1> QED BY <1>7 DEF Passing, R, F

(* Where no position changes, the pages asked for and sent stay right.     *)
LEMMA PagesKept ==
  ASSUME IInv, Patient, UNCHANGED <<seqs, position, pageSize>>,
         Paged => \A k \in seqs : ListsUnderWay(k)' <= 1,
         ToSet(Wire') \subseteq ToSet(Wire),
         \A b \in Passing' : b \in Passing \/ PageCame(b)
  PROVE  Pages'
<1>1. Paged' <=> Paged
  BY DEF Paged
<1>2. \A b : PageAsked(b)' <=> PageAsked(b)
  BY <1>1 DEF PageAsked
<1>3. \A b : PageCame(b)' <=> PageCame(b)
  BY <1>1 DEF PageCame
<1> QED BY <1>1, <1>2, <1>3 DEF IInv, Pages

LEMMA FramePages ==
  ASSUME IInv, Patient, Frame
  PROVE  Pages'
<1>1. /\ Wire' = Wire /\ Passing' \subseteq Passing
      /\ UNCHANGED <<seqs, position, pageSize>>
  BY FrameEffect DEF Frame, peerVars
<1>2. ASSUME Paged, NEW k \in seqs PROVE ListsUnderWay(k)' <= 1
  <2> DEFINE R == ListRequests(k)
             F == ListFrames(k)
  <2>1. ListsUnderWay(k) = Count(Wire, R) + Count(Arriving, F) + Count(Waiting, F)
        /\ {Count(Wire, R), Count(Arriving, F), Count(Waiting, F)} \subseteq Nat
    BY ListsAsCounts
  <2>2. ListsUnderWay(k)' = Count(Wire', R) + Count(Arriving', F) + Count(Waiting', F)
    BY DEF ListsUnderWay, Count
  <2>3. F \cap Unheard = {}
    BY ListFramesAre
  <2> HIDE DEF R, F
  <2>4. Count(Arriving', F) + Count(Waiting', F) = Count(Arriving, F) + Count(Waiting, F)
    BY <2>3, FrameEffect
  <2>5. Arriving' \in Seq(FramesSent) /\ Waiting' \in Seq(EventsSent)
    BY FrameEffect
  <2>6. Count(Arriving', F) \in Nat /\ Count(Waiting', F) \in Nat
    BY <2>5, PlacesFinite DEF Count
  <2>7. ListsUnderWay(k) <= 1
    BY <1>2 DEF IInv, Pages
  <2>8. Count(Wire', R) = Count(Wire, R)
    BY <1>1
  <2> QED BY <2>1, <2>2, <2>4, <2>6, <2>7, <2>8
<1> QED BY <1>1, <1>2, PagesKept

(* An event at which no list is asked for: what it brings is not more than *)
(* what it was.                                                            *)
LEMMA EventPages ==
  ASSUME IInv, Patient, NEW bs \in Seq(RequestsAsked), NEW cs \in Seq(EventsSent),
         Srv!HandleEvent(Asks(bs), Events(cs)), bs = Nothing,
         UNCHANGED <<seqs, position, pageSize>>,
         \A b \in ToSet(cs) : b.type # "ListOfIDs",
         \A k \in seqs : Count(cs, ListFrames(k)) <= IF Content \in ListFrames(k) THEN 1 ELSE 0
  PROVE  Pages'
<1>1. /\ ToSet(bs) = {}
      /\ \A X : Count(bs, X) = 0
  BY NothingSent
<1>2. ToSet(Wire') \subseteq ToSet(Wire) /\ Passing' \subseteq Passing \cup ToSet(cs)
  <2> HIDE DEF Nothing
  <2>1. ToSet(Wire') = ToSet(Wire) \cup ToSet(bs) /\ Passing' \subseteq Passing \cup ToSet(cs)
    BY EventEffect
  <2> QED BY <1>1, <2>1
<1>3. ASSUME Paged, NEW k \in seqs PROVE ListsUnderWay(k)' <= 1
  <2>1. /\ ListsUnderWay(k)' + (IF Content \in ListFrames(k) THEN 1 ELSE 0)
             = ListsUnderWay(k) + Count(bs, ListRequests(k)) + Count(cs, ListFrames(k))
        /\ {ListsUnderWay(k)', ListsUnderWay(k), Count(bs, ListRequests(k)),
            Count(cs, ListFrames(k))} \subseteq Nat
    BY EventLists
  <2>2. ListsUnderWay(k) <= 1
    BY <1>3 DEF IInv, Pages
  <2>3. PICK n \in Nat : n = IF Content \in ListFrames(k) THEN 1 ELSE 0
    OBVIOUS
  <2>4. Count(bs, ListRequests(k)) = 0 /\ Count(cs, ListFrames(k)) <= n
    BY <1>1, <2>3
  <2>5. ListsUnderWay(k)' + n = ListsUnderWay(k) + Count(bs, ListRequests(k)) + Count(cs, ListFrames(k))
    BY <2>1, <2>3
  <2>6. /\ ListsUnderWay(k)' \in Nat /\ ListsUnderWay(k) \in Nat
        /\ Count(bs, ListRequests(k)) \in Nat /\ Count(cs, ListFrames(k)) \in Nat
    BY <2>1
  <2> QED BY ONLY <2>2, <2>4, <2>5, <2>6, <2>3
<1>4. \A b \in Passing' : b \in Passing \/ PageCame(b)
  BY <1>2 DEF PageCame
<1> QED BY <1>2, <1>3, <1>4, PagesKept

LEMMA TurnPages ==
  ASSUME IInv, Patient, TimeRemaining
  PROVE  Pages'
<1> DEFINE cs == <<Msg("NewTurn")>>
<1>1. /\ Content = Msg("TurnEnds")
      /\ cs \in Seq(EventsSent) /\ Nothing \in Seq(RequestsAsked)
      /\ Srv!HandleEvent(Asks(Nothing), Events(cs))
      /\ UNCHANGED <<seqs, position, pageSize>>
  BY TurnIsSeen
<1>2. \A b \in ToSet(cs) : b.type # "ListOfIDs"
  BY SingleContents DEF Msg
<1>3. ASSUME NEW k \in seqs
      PROVE  Count(cs, ListFrames(k)) <= IF Content \in ListFrames(k) THEN 1 ELSE 0
  <2>1. Content \in ListFrames(k) /\ Msg("NewTurn") \in ListFrames(k)
    BY <1>1 DEF ListFrames, Starting
  <2>2. Count(cs, ListFrames(k)) = 1
    BY <2>1, SingleCount DEF Count
  <2> QED BY <2>1, <2>2
<1> HIDE DEF cs
<1> QED BY <1>1, <1>2, <1>3, EventPages

LEMMA ReceivePages ==
  ASSUME IInv, Patient, Receive
  PROVE  Pages'
<1>1. PICK cs : cs = Announcement(Content.kind, Content.thing)
  OBVIOUS
<1>2. /\ Nothing \in Seq(RequestsAsked) /\ cs \in Seq(EventsSent) /\ ToSet(cs) \subseteq ObjectEvents
      /\ Srv!HandleEvent(Asks(Nothing), Events(cs))
      /\ UNCHANGED <<seqs, position, pageSize>>
  BY <1>1, Receiving DEF Nothing
<1>3. \A b \in ToSet(cs) : b.type # "ListOfIDs" /\ \A k : b \notin ListFrames(k)
  BY <1>2, ListFramesAre DEF ObjectEvents
<1>4. ASSUME NEW k \in seqs
      PROVE  Count(cs, ListFrames(k)) <= IF Content \in ListFrames(k) THEN 1 ELSE 0
  <2>1. ToSet(cs) \cap ListFrames(k) = {}
    BY <1>3
  <2>2. Count(cs, ListFrames(k)) = 0
    BY <1>2, <2>1, PlacesFinite DEF Count
  <2> QED BY <2>2
<1> QED BY <1>2, <1>3, <1>4, EventPages

LEMMA OtherPages ==
  ASSUME IInv, Patient, OtherEvent
  PROVE  Pages'
<1>1. /\ Nothing \in Seq(RequestsAsked) /\ Nothing \in Seq(EventsSent) /\ ToSet(Nothing) = {}
      /\ \A X : Count(Nothing, X) = 0
      /\ Srv!HandleEvent(Asks(Nothing), Events(Nothing))
      /\ UNCHANGED <<seqs, position, pageSize>>
  BY NothingSent, FewSent DEF OtherEvent, peerVars, Nothing
<1> QED BY <1>1, EventPages

(* A new list: what was under way is the event that starts it.             *)
LEMMA StartPages ==
  ASSUME IInv, Patient, Start
  PROVE  Pages'
<1>1. /\ Content \in Starting
      /\ ListsAsked \in Seq(RequestsAsked) /\ Nothing \in Seq(EventsSent)
      /\ Srv!HandleEvent(Asks(ListsAsked), Events(Nothing))
      /\ position' = [k \in seqs |-> 0]
      /\ UNCHANGED <<seqs, pageSize>>
  BY Begins
<1>2. /\ ToSet(ListsAsked) = {GetIDs(k) : k \in seqs}
      /\ \A k \in seqs : Count(ListsAsked, ListRequests(k)) = 1
  BY ListsAre DEF IInv
<1>3. PICK bs, cs : bs = ListsAsked /\ cs = Nothing
  OBVIOUS
<1>4. ToSet(cs) = {} /\ \A X : Count(cs, X) = 0
  BY <1>3, NothingSent
<1>5. /\ bs \in Seq(RequestsAsked) /\ cs \in Seq(EventsSent)
      /\ Srv!HandleEvent(Asks(bs), Events(cs))
  BY <1>1, <1>3
<1>6. /\ ToSet(Wire') = ToSet(Wire) \cup ToSet(bs) /\ Passing' \subseteq Passing
      /\ Wire \in Seq(RequestsAsked)
  BY <1>4, <1>5, EventEffect DEF IInv, Typed
<1>7. \A k : Content \in ListFrames(k)
  BY <1>1 DEF ListFrames
<1>8. Paged' <=> Paged
  BY <1>1 DEF Paged
<1>9. ASSUME Paged, NEW k \in seqs
      PROVE  /\ ListsUnderWay(k)' <= 1
             /\ ToSet(Wire) \cap ListRequests(k) = {} /\ Passing' \cap ListFrames(k) = {}
  <2>1. /\ ListsUnderWay(k)' + (IF Content \in ListFrames(k) THEN 1 ELSE 0)
             = ListsUnderWay(k) + Count(bs, ListRequests(k)) + Count(cs, ListFrames(k))
        /\ {ListsUnderWay(k)', ListsUnderWay(k), Count(bs, ListRequests(k)),
            Count(cs, ListFrames(k))} \subseteq Nat
    BY <1>5, EventLists
  <2>2. ListsUnderWay(k) <= 1
    BY <1>9 DEF IInv, Pages
  <2>3. Count(bs, ListRequests(k)) = 1 /\ Count(cs, ListFrames(k)) = 0
    BY <1>2, <1>3, <1>4
  <2>4. ListsUnderWay(k)' + 1 = ListsUnderWay(k) + 1 + 0
    BY <1>7, <2>1, <2>3
  <2>5. ToSet(Wire) \cap ListRequests(k) = {} /\ Passing' \cap ListFrames(k) = {}
    BY <1>5, <1>7, <1>9, <2>3, AloneHandled
  <2> QED BY <2>1, <2>2, <2>4, <2>5
<1>10. ASSUME NEW b \in ToSet(Wire') PROVE PageAsked(b)'
  <2>1. CASE b \in ToSet(Wire)
    <3>1. b \in RequestsAsked /\ b \in Requests /\ b.kind \in seqs
      BY <1>6, <2>1, Contents DEF RequestsAsked
    <3>2. b.type # "GetPage"
      <4>1. b.type = "GetPage" => Paged
        BY <2>1 DEF IInv, Pages, PageAsked
      <4>2. b.type = "GetPage" => b \in ListRequests(b.kind)
        BY <3>1 DEF ListRequests
      <4> QED BY <1>9, <2>1, <3>1, <4>1, <4>2
    <3>3. position'[b.kind] = 0
      BY <1>1, <3>1
    <3> QED BY <3>2, <3>3 DEF PageAsked
  <2>2. CASE b \in ToSet(bs)
    <3>1. PICK k \in seqs : b = GetIDs(k)
      BY <1>2, <1>3, <2>2
    <3>2. b.type = "GetIDs" /\ b.kind = k
      BY <3>1 DEF GetIDs
    <3>3. position'[b.kind] = 0
      BY <1>1, <3>2
    <3> QED BY <3>2, <3>3 DEF PageAsked
  <2> QED BY <1>6, <2>1, <2>2
<1>11. ASSUME NEW b \in Passing' PROVE PageCame(b)'
  <2>1. b \in Passing /\ b \in Replies /\ (b.type = "ListOfIDs" => b.kind \in seqs)
    BY <1>6, KindsSent, Said
  <2>2. b.type = "ListOfIDs" /\ b.more > 0 => Paged
    BY <2>1 DEF IInv, Pages, PageCame
  <2>3. b.type = "ListOfIDs" => b \in ListFrames(b.kind)
    BY <2>1 DEF ListFrames, ListsOf
  <2>4. ~(b.type = "ListOfIDs" /\ b.more > 0)
    BY <1>9, <2>1, <2>2, <2>3
  <2> QED BY <2>4 DEF PageCame
<1>12. Paged' => \A k \in seqs' : ListsUnderWay(k)' <= 1
  BY <1>1, <1>8, <1>9
<1> QED BY <1>10, <1>11, <1>12 DEF Pages

(* A page that is handled: the next one is asked for where it ends.        *)
LEMMA OidsPages ==
  ASSUME IInv, Patient, HandleOids
  PROVE  Pages'
<1>1. PICK k, key, things, more, pos :
        /\ k = Content.kind /\ key = Content.key /\ things = Content.things /\ more = Content.more
        /\ pos = position[k] + Len(things)
  OBVIOUS
<1>2. /\ Content.type = "ListOfIDs" /\ Content \in Passing
      /\ k \in seqs /\ key \in Seq(Thing) /\ things \in Seq(Thing) /\ more \in Nat /\ pos \in Nat
      /\ position' = [position EXCEPT ![k] = pos]
      /\ UNCHANGED <<seqs, pageSize>>
  BY <1>1, OidsHandled
<1>3. PICK bs \in Seq(RequestsAsked) :
        /\ Srv!HandleEvent(Asks(bs), Events(Nothing))
        /\ \A b \in ToSet(bs) : b.type = "Get" \/ (more > 0 /\ b = GetPage(k, key, pos))
        /\ \A j : Count(bs, ListRequests(j)) = IF j = k /\ more > 0 THEN 1 ELSE 0
  BY <1>1, OidsHandled
<1>4. PICK cs : cs = Nothing
  OBVIOUS
<1>5. /\ cs \in Seq(EventsSent) /\ ToSet(cs) = {} /\ \A X : Count(cs, X) = 0
      /\ Srv!HandleEvent(Asks(bs), Events(cs))
  BY <1>3, <1>4, NothingSent
<1>6. /\ ToSet(Wire') = ToSet(Wire) \cup ToSet(bs) /\ Passing' \subseteq Passing
      /\ Wire \in Seq(RequestsAsked)
  BY <1>5, EventEffect DEF IInv, Typed
<1>7. \A j : Content \in ListFrames(j) <=> j = k
  <2>1. Content \in Replies
    BY <1>2, KindsSent, Said
  <2> QED BY <1>1, <1>2, <2>1, ListFramesAre DEF ListsOf
<1>8. Paged' <=> Paged
  BY <1>2 DEF Paged
<1>9. ASSUME Paged, NEW j \in seqs PROVE ListsUnderWay(j)' <= 1
  <2>1. /\ ListsUnderWay(j)' + (IF Content \in ListFrames(j) THEN 1 ELSE 0)
             = ListsUnderWay(j) + Count(bs, ListRequests(j)) + Count(cs, ListFrames(j))
        /\ {ListsUnderWay(j)', ListsUnderWay(j), Count(bs, ListRequests(j)),
            Count(cs, ListFrames(j))} \subseteq Nat
    BY <1>5, EventLists
  <2>2. ListsUnderWay(j) <= 1
    BY <1>9 DEF IInv, Pages
  <2>3. /\ Count(bs, ListRequests(j)) = IF j = k /\ more > 0 THEN 1 ELSE 0
        /\ Count(cs, ListFrames(j)) = 0
    BY <1>3, <1>5
  <2>4. ListsUnderWay(j)' + (IF j = k THEN 1 ELSE 0)
          = ListsUnderWay(j) + (IF j = k /\ more > 0 THEN 1 ELSE 0) + 0
    BY <1>7, <2>1, <2>3
  <2> QED BY <2>1, <2>2, <2>4
<1>10. Paged => ToSet(Wire) \cap ListRequests(k) = {} /\ Passing' \cap ListFrames(k) = {}
  BY <1>2, <1>5, <1>7, AloneHandled
<1>11. more > 0 => /\ Paged /\ Len(things) > 0
                   /\ position[k] + Len(things) + more = Len(key)
  BY <1>1, <1>2 DEF IInv, Pages, PageCame
<1>12. position[k] \in Nat /\ Len(things) \in Nat /\ position'[k] = pos
       /\ \A j \in seqs : j # k => position'[j] = position[j]
  BY <1>2 DEF IInv, Typed
<1>13. ASSUME NEW b \in ToSet(Wire') PROVE PageAsked(b)'
  <2>1. CASE b \in ToSet(Wire)
    <3>1. b \in RequestsAsked /\ b \in Requests /\ b.kind \in seqs
      BY <1>6, <2>1, Contents DEF RequestsAsked
    <3>2. PageAsked(b)
      BY <2>1 DEF IInv, Pages
    <3>3. CASE b.kind = k
      <4>1. b.type \in {"GetPage", "GetIDs"} => b \in ListRequests(k)
        BY <3>1, <3>3 DEF ListRequests
      <4>2. b.type \in {"GetPage", "GetIDs"} => ~Paged
        BY <1>10, <2>1, <4>1
      <4> QED BY <1>8, <3>2, <4>2 DEF PageAsked
    <3>4. CASE b.kind # k
      <4>1. position'[b.kind] = position[b.kind]
        BY <1>12, <3>1, <3>4
      <4> QED BY <1>8, <3>2, <4>1 DEF PageAsked
    <3> QED BY <3>3, <3>4
  <2>2. CASE b \in ToSet(bs)
    <3>1. CASE b.type = "Get"
      BY <3>1 DEF PageAsked
    <3>2. CASE more > 0 /\ b = GetPage(k, key, pos)
      <4>1. b.type = "GetPage" /\ b.kind = k /\ b.key = key /\ b.pos = pos
        BY <3>2 DEF GetPage
      <4>2. 0 < pos /\ pos < Len(key)
        BY <1>1, <1>2, <1>11, <1>12, <3>2
      <4> QED BY <1>8, <1>11, <1>12, <3>2, <4>1, <4>2 DEF PageAsked
    <3> QED BY <1>3, <2>2, <3>1, <3>2
  <2> QED BY <1>6, <2>1, <2>2
<1>14. ASSUME NEW b \in Passing' PROVE PageCame(b)'
  <2>1. b \in Passing /\ b \in Replies /\ (b.type = "ListOfIDs" => b.kind \in seqs)
    BY <1>6, KindsSent, Said
  <2>2. PageCame(b)
    BY <2>1 DEF IInv, Pages
  <2>3. CASE b.type = "ListOfIDs" /\ b.kind = k
    <3>1. b \in ListFrames(k)
      BY <2>1, <2>3 DEF ListFrames, ListsOf
    <3>2. ~(b.more > 0)
      BY <1>10, <2>2, <2>3, <3>1 DEF PageCame
    <3> QED BY <3>2 DEF PageCame
  <2>4. CASE b.type = "ListOfIDs" /\ b.kind # k
    <3>1. position'[b.kind] = position[b.kind]
      BY <1>12, <2>1, <2>4
    <3> QED BY <1>8, <2>2, <3>1 DEF PageCame
  <2> QED BY <2>3, <2>4 DEF PageCame
<1>15. Paged' => \A j \in seqs' : ListsUnderWay(j)' <= 1
  BY <1>2, <1>8, <1>9
<1> QED BY <1>13, <1>14, <1>15 DEF Pages

(* What an answer does to the lists under way.                             *)
LEMMA AnswerLists ==
  ASSUME IInv, NEW bodies \in Seq(FramesSent) \ {<<>>}, Srv!Answer(bodies), NEW k
  PROVE  /\ ListsUnderWay(k)' + (IF Question \in ListRequests(k) THEN 1 ELSE 0)
              = ListsUnderWay(k) + Count(bodies, ListFrames(k))
         /\ {ListsUnderWay(k)', ListsUnderWay(k), Count(bodies, ListFrames(k))} \subseteq Nat
<1> DEFINE R == ListRequests(k)
           F == ListFrames(k)
<1>1. ListsUnderWay(k) = Count(Wire, R) + Count(Arriving, F) + Count(Waiting, F)
      /\ {Count(Wire, R), Count(Arriving, F), Count(Waiting, F)} \subseteq Nat
  BY ListsAsCounts
<1>2. ListsUnderWay(k)' = Count(Wire', R) + Count(Arriving', F) + Count(Waiting', F)
  BY DEF ListsUnderWay, Count
<1> HIDE DEF R, F
<1>3. PICK n \in Nat : n = IF Question \in R THEN 1 ELSE 0
  OBVIOUS
<1>4. /\ Count(Wire', R) + n = Count(Wire, R)
      /\ Count(Arriving', F) = Count(Arriving, F) + Count(bodies, F)
      /\ Waiting' = Waiting /\ Wire' \in Seq(RequestsAsked) /\ Arriving' \in Seq(FramesSent)
  <2>1. /\ Count(Wire', R) + (IF Question \in R THEN 1 ELSE 0) = Count(Wire, R)
        /\ Count(Arriving', F) = Count(Arriving, F) + Count(bodies, F)
    BY AnswerEffect
  <2>2. Waiting' = Waiting /\ Wire' \in Seq(RequestsAsked) /\ Arriving' \in Seq(FramesSent)
    BY AnswerEffect
  <2> QED BY <1>3, <2>1, <2>2
<1>5. Count(Wire', R) \in Nat /\ Count(bodies, F) \in Nat
  BY <1>4, PlacesFinite DEF Count
<1>6. /\ Count(Wire, R) \in Nat /\ Count(Arriving, F) \in Nat /\ Count(Waiting, F) \in Nat
      /\ Count(Waiting', F) = Count(Waiting, F)
  BY <1>1, <1>4
<1>7. ListsUnderWay(k)' + n = ListsUnderWay(k) + Count(bodies, F)
      /\ ListsUnderWay(k)' \in Nat /\ ListsUnderWay(k) \in Nat
  <2>1. /\ ListsUnderWay(k) = Count(Wire, R) + Count(Arriving, F) + Count(Waiting, F)
        /\ ListsUnderWay(k)' = Count(Wire', R) + (Count(Arriving, F) + Count(bodies, F)) + Count(Waiting, F)
        /\ Count(Wire', R) + n = Count(Wire, R)
    BY <1>1, <1>2, <1>4, <1>6
  <2>2. PICK w \in Nat, x \in Nat, a \in Nat, v \in Nat, b \in Nat :
          /\ w = Count(Wire, R) /\ x = Count(Wire', R) /\ a = Count(Arriving, F)
          /\ v = Count(Waiting, F) /\ b = Count(bodies, F)
    BY ONLY <1>5, <1>6
  <2>3. {w, x, a, v, b, n} \subseteq Nat /\ x + n = w
    BY ONLY <2>1, <2>2, n \in Nat
  <2>4. ListsUnderWay(k) = w + a + v /\ ListsUnderWay(k)' = x + (a + b) + v
    BY ONLY <2>1, <2>2
  <2>5. /\ (x + (a + b) + v) + n = (w + a + v) + b
        /\ w + a + v \in Nat /\ x + (a + b) + v \in Nat
    BY ONLY <2>3
  <2> QED BY ONLY <2>2, <2>4, <2>5
<1>8. {ListsUnderWay(k)', ListsUnderWay(k), Count(bodies, F)} \subseteq Nat
  BY <1>5, <1>7
<1> QED BY <1>3, <1>7, <1>8 DEF R, F

(* What a page continues: nothing, or what has been received so far.       *)
LEMMA PageContinues ==
  ASSUME IInv, Patient, NEW k \in seqs, NEW key \in Seq(Thing), NEW pos \in Nat,
         NEW more \in Nat,
         Question \in ToSet(Wire), Question \in ListRequests(k), Question.kind = k,
         Question.type = "GetIDs" => key = ListOf(catalogue[k]) /\ pos = 0,
         Question.type = "GetPage" => key = Question.key /\ pos = Question.pos,
         more > 0 => pos + pageSize < Len(key)
  PROVE  pos <= Len(key) /\ (more > 0 => Paged /\ position[k] = pos)
<1>1. PageAsked(Question) /\ Question.type \in {"GetIDs", "GetPage"} /\ Len(key) \in Nat
  BY DEF IInv, Pages, ListRequests
<1>2. pageSize \in Nat /\ Cardinality(Ids) \in Nat
  BY BoundAssumption, FS_CardinalityType DEF IInv, Typed
<1>3. CASE Question.type = "GetIDs"
  <2>1. pos = 0 /\ Len(key) <= Cardinality(Ids)
    BY <1>3, ListOfIs
  <2>2. more > 0 => Paged
    BY <1>1, <1>2, <2>1 DEF Paged
  <2> QED BY <1>1, <1>3, <2>1, <2>2 DEF PageAsked
<1>4. CASE Question.type = "GetPage"
  BY <1>1, <1>4 DEF PageAsked
<1> QED BY <1>1, <1>3, <1>4

LEMMA PageSentPages ==
  ASSUME IInv, Patient, AnswerGetIDs \/ AnswerGetPage, UNCHANGED <<seqs, position, pageSize>>
  PROVE  Pages'
<1>1. PICK k \in seqs, key \in Seq(Thing), pos \in Nat, things \in Seq(Thing), more \in Nat :
        /\ Question \in ListRequests(k) /\ Question.kind = k
        /\ Question.type = "GetIDs" => key = ListOf(catalogue[k]) /\ pos = 0
        /\ Question.type = "GetPage" => key = Question.key /\ pos = Question.pos
        /\ ListOfIDs(k, key, things, more) \in Registering
        /\ Srv!Answer(<<ListOfIDs(k, key, things, more)>>)
        /\ pos <= Len(key) => pos + Len(things) + more = Len(key)
        /\ more > 0 => /\ Len(things) = pageSize /\ pageSize > 0
                       /\ pos + pageSize < Len(key)
        /\ Beyond(key, pos) \subseteq ToSet(things) \cup Beyond(key, pos + Len(things))
  BY PageSent
<1>2. PICK page : page = ListOfIDs(k, key, things, more)
  OBVIOUS
<1>3. /\ page.type = "ListOfIDs" /\ page.kind = k /\ page.key = key /\ page.things = things
      /\ page.more = more
  BY <1>2 DEF ListOfIDs
<1>4. page \in FramesSent /\ page \in Replies
  BY <1>1, <1>2, Said DEF FramesSent
<1>5. PICK bodies \in Seq(FramesSent) \ {<<>>} :
        bodies = <<page>> /\ ToSet(bodies) = {page} /\ Srv!Answer(bodies)
  <2>1. <<page>> \in Seq(FramesSent) \ {<<>>} /\ ToSet(<<page>>) = {page}
    BY <1>4, SingleContents
  <2> QED BY <1>1, <1>2, <2>1
<1>6. /\ Question \in ToSet(Wire) /\ ToSet(Wire') \subseteq ToSet(Wire)
      /\ Passing' = Passing \cup {page}
  <2>1. /\ Question \in ToSet(Wire) /\ ToSet(Wire) = ToSet(Wire') \cup {Question}
        /\ Passing' = Passing \cup ToSet(bodies)
    BY <1>5, AnswerEffect
  <2> QED BY <1>5, <2>1
<1>7. pos <= Len(key) /\ (more > 0 => Paged /\ position[k] = pos)
  BY <1>1, <1>6, PageContinues
<1>8. PageCame(page)
  BY <1>1, <1>3, <1>7 DEF PageCame
<1>9. ASSUME Paged, NEW j \in seqs PROVE ListsUnderWay(j)' <= 1
  <2>1. /\ ListsUnderWay(j)' + (IF Question \in ListRequests(j) THEN 1 ELSE 0)
             = ListsUnderWay(j) + Count(bodies, ListFrames(j))
        /\ {ListsUnderWay(j)', ListsUnderWay(j), Count(bodies, ListFrames(j))} \subseteq Nat
    BY <1>5, AnswerLists
  <2>2. ListsUnderWay(j) <= 1
    BY <1>9 DEF IInv, Pages
  <2>3. Question \in ListRequests(j) <=> j = k
    BY <1>1 DEF ListRequests
  <2>4. page \in ListFrames(j) <=> j = k
    BY <1>3, <1>4, ListFramesAre DEF ListsOf
  <2>5. Count(bodies, ListFrames(j)) = IF j = k THEN 1 ELSE 0
    BY <1>5, <2>4, SingleCount DEF Count
  <2>6. ListsUnderWay(j)' + (IF j = k THEN 1 ELSE 0) = ListsUnderWay(j) + (IF j = k THEN 1 ELSE 0)
    BY <2>1, <2>3, <2>5
  <2> QED BY <2>1, <2>2, <2>6
<1>10. \A b \in Passing' : b \in Passing \/ PageCame(b)
  BY <1>6, <1>8
<1> QED BY <1>6, <1>9, <1>10, PagesKept

LEMMA ThingsSentPages ==
  ASSUME IInv, Patient, AnswerGet, UNCHANGED <<seqs, position, pageSize>>
  PROVE  Pages'
<1>1. PICK bodies \in Seq(FramesSent) \ {<<>>} :
        /\ Srv!Answer(bodies) /\ Question.type = "Get"
        /\ \A b \in ToSet(bodies) : b.type \in {"SEQUENCE", "Fail", "Data"}
  BY ThingsSent
<1>2. /\ Question \in ToSet(Wire) /\ ToSet(Wire) = ToSet(Wire') \cup {Question}
      /\ Passing' = Passing \cup ToSet(bodies)
  BY <1>1, AnswerEffect
<1>3. ASSUME Paged, NEW j \in seqs PROVE ListsUnderWay(j)' <= 1
  <2>1. /\ ListsUnderWay(j)' + (IF Question \in ListRequests(j) THEN 1 ELSE 0)
             = ListsUnderWay(j) + Count(bodies, ListFrames(j))
        /\ {ListsUnderWay(j)', ListsUnderWay(j), Count(bodies, ListFrames(j))} \subseteq Nat
    BY <1>1, AnswerLists
  <2>2. ListsUnderWay(j) <= 1
    BY <1>3 DEF IInv, Pages
  <2>3. Question \notin ListRequests(j)
    BY <1>1 DEF ListRequests
  <2>4. ToSet(bodies) \subseteq Replies
    BY <1>1, Contents, Said
  <2>5. ToSet(bodies) \cap ListFrames(j) = {}
    BY <1>1, <2>4, ListFramesAre
  <2>6. Count(bodies, ListFrames(j)) = 0
    BY <1>1, <2>5, PlacesFinite DEF Count
  <2>7. ListsUnderWay(j)' + 0 = ListsUnderWay(j) + 0
    BY <2>1, <2>3, <2>6
  <2> QED BY <2>1, <2>2, <2>7
<1>4. \A b \in Passing' : b \in Passing \/ PageCame(b)
  BY <1>1, <1>2 DEF PageCame
<1> QED BY <1>2, <1>3, <1>4, PagesKept

(* Where lists come in pages, a turn ends when nothing is under way.       *)
LEMMA EndTurnPages ==
  ASSUME IInv, Patient, EndTurn
  PROVE  Pages'
<1>1. /\ UNCHANGED <<seqs, position, pageSize>> /\ Srv!Push(Msg("TurnEnds"))
      /\ Paged => Quiet
  BY DEF EndTurn, Paged
<1>2. /\ Wire' = Wire /\ Waiting' = Waiting /\ Passing' = Passing \cup {Msg("TurnEnds")}
      /\ \A X : Count(Arriving', X) = Count(Arriving, X) + (IF Msg("TurnEnds") \in X THEN 1 ELSE 0)
  BY <1>1, PushEffect
<1>3. ASSUME Paged, NEW k \in seqs PROVE ListsUnderWay(k)' <= 1
  <2> DEFINE R == ListRequests(k)
             F == ListFrames(k)
  <2>1. Wire = <<>> /\ Arriving = <<>> /\ Waiting = <<>>
    BY <1>1, <1>3, Queues DEF Quiet, IInv
  <2>2. ListsUnderWay(k)' = Count(Wire', R) + Count(Arriving', F) + Count(Waiting', F)
    BY DEF ListsUnderWay, Count
  <2>3. Count(Wire, R) = 0 /\ Count(Arriving, F) = 0 /\ Count(Waiting, F) = 0
    BY <2>1, EmptyContents, FS_EmptySet DEF Count
  <2>4. Msg("TurnEnds") \in F
    BY DEF ListFrames, Starting
  <2> HIDE DEF R, F
  <2>5. Count(Arriving', F) = 1
    BY <1>2, <2>3, <2>4
  <2>6. Count(Wire', R) = 0 /\ Count(Waiting', F) = 0
    BY <1>2, <2>3
  <2> QED BY <2>2, <2>5, <2>6
<1>4. \A b \in Passing' : b \in Passing \/ PageCame(b)
  BY <1>2 DEF PageCame, Msg
<1> QED BY <1>1, <1>2, <1>3, <1>4, PagesKept

-----------------------------------------------------------------------------
(* What the server has is cached or coming                                 *)

Present(k, thing) ==
  /\ thing \in Thing /\ thing.id \in DOMAIN catalogue[k]
  /\ thing.updated = catalogue[k][thing.id]

LEMMA CoveredThings ==
  Typed => (Covered <=> \A k \in seqs : \A thing \in Thing : Present(k, thing) =>
                          Cached(k, thing.id, thing.updated) \/ Coming(k, thing))
<1> SUFFICES ASSUME Typed
             PROVE  Covered <=> \A k \in seqs : \A thing \in Thing : Present(k, thing) =>
                                  Cached(k, thing.id, thing.updated) \/ Coming(k, thing)
  OBVIOUS
<1>1. ASSUME Covered, NEW k \in seqs, NEW thing \in Thing, Present(k, thing)
      PROVE  Cached(k, thing.id, thing.updated) \/ Coming(k, thing)
  <2>1. thing = Current(k, thing.id)
    BY <1>1 DEF Present, Current, Thing
  <2>2. thing.id \in DOMAIN catalogue[k] /\ thing.updated = catalogue[k][thing.id]
    BY <1>1 DEF Present
  <2>3. Cached(k, thing.id, catalogue[k][thing.id]) \/ Coming(k, Current(k, thing.id))
    BY <1>1, <2>2 DEF Covered
  <2> QED BY <2>1, <2>2, <2>3
<1>2. ASSUME NEW k \in seqs, NEW id \in DOMAIN catalogue[k],
             \A thing \in Thing : Present(k, thing) =>
               Cached(k, thing.id, thing.updated) \/ Coming(k, thing)
      PROVE  Cached(k, id, catalogue[k][id]) \/ Coming(k, Current(k, id))
  <2>1. id \in Ids /\ catalogue[k][id] \in Nat
    BY DEF Typed
  <2>2. /\ Current(k, id) \in Thing /\ Current(k, id).id = id
        /\ Current(k, id).updated = catalogue[k][id]
    BY <2>1 DEF Current, Thing
  <2>3. Present(k, Current(k, id))
    BY <2>2 DEF Present
  <2> QED BY <1>2, <2>2, <2>3
<1> QED BY <1>1, <1>2 DEF Covered

LEMMA CoveredThingsNext ==
  Typed' => (Covered' <=> \A k \in seqs' : \A thing \in Thing : Present(k, thing)' =>
                            Cached(k, thing.id, thing.updated)' \/ Coming(k, thing)')
<1>1. Typed' => (Covered' <=> (\A k \in seqs : \A thing \in Thing : Present(k, thing) =>
                                 Cached(k, thing.id, thing.updated) \/ Coming(k, thing))')
  BY CoveredThings, PTL
<1> QED BY <1>1

(* Where nothing is cached and the catalogue stays as it is.               *)
LEMMA CoveredKept ==
  ASSUME IInv, Patient, Typed', UNCHANGED <<seqs, cache, catalogue>>,
         \A k \in seqs : \A thing \in Thing : Present(k, thing) /\ Coming(k, thing) =>
           Cached(k, thing.id, thing.updated) \/ Coming(k, thing)'
  PROVE  Covered'
<1>1. \A k \in seqs : \A thing \in Thing : Present(k, thing) =>
        Cached(k, thing.id, thing.updated) \/ Coming(k, thing)
  BY CoveredThings DEF IInv
<1>2. \A k, thing : Present(k, thing)' <=> Present(k, thing)
  BY DEF Present
<1>3. \A k, id, updated : Cached(k, id, updated)' <=> Cached(k, id, updated)
  BY SameCache
<1>4. \A k \in seqs' : \A thing \in Thing : Present(k, thing)' =>
        Cached(k, thing.id, thing.updated)' \/ Coming(k, thing)'
  BY <1>1, <1>2, <1>3
<1> QED BY <1>4, CoveredThingsNext

LEMMA FrameCovered ==
  ASSUME IInv, Patient, Frame, Typed'
  PROVE  Covered'
<1>1. /\ Wire' = Wire /\ Passing \ Unheard \subseteq Passing'
      /\ UNCHANGED <<seqs, position, cache, catalogue>>
  BY FrameEffect DEF Frame, peerVars
<1>2. ASSUME NEW k \in seqs, NEW thing \in Thing, Coming(k, thing)
      PROVE  Coming(k, thing)'
  <2>1. ASSUME NEW b \in ToSet(Wire), AskedFor(b, k, thing)
        PROVE  Coming(k, thing)'
    BY <1>1, <2>1 DEF Coming, AskedFor
  <2>2. ASSUME NEW b \in Passing, Brings(b, k, thing)
        PROVE  Coming(k, thing)'
    <3>1. b \notin Unheard
      BY <2>2 DEF Brings, Unheard, Starting, Msg
    <3>2. b \in Passing'
      BY <1>1, <3>1
    <3>3. Brings(b, k, thing)'
      BY <1>1, <2>2 DEF Brings
    <3> QED BY <3>2, <3>3 DEF Coming
  <2> QED BY <1>2, <2>1, <2>2 DEF Coming
<1> QED BY <1>1, <1>2, CoveredKept

(* A turn or a list that starts brings everything.                         *)
LEMMA StartingCovers ==
  ASSUME Typed', \E b \in Passing' : b \in Starting
  PROVE  Covered'
<1>1. \A k \in seqs' : \A thing \in Thing : Coming(k, thing)'
  BY DEF Coming, Brings
<1> QED BY <1>1, CoveredThingsNext

LEMMA TurnCovered ==
  ASSUME IInv, Patient, TimeRemaining, Typed'
  PROVE  Covered'
<1> DEFINE cs == <<Msg("NewTurn")>>
<1>1. /\ cs \in Seq(EventsSent) /\ Nothing \in Seq(RequestsAsked)
      /\ Srv!HandleEvent(Asks(Nothing), Events(cs))
      /\ ToSet(cs) = {Msg("NewTurn")}
  BY TurnIsSeen, SingleContents
<1> HIDE DEF cs
<1>2. ToSet(cs) \subseteq Passing'
  BY <1>1, EventEffect
<1>3. Msg("NewTurn") \in Passing' /\ Msg("NewTurn") \in Starting
  BY <1>1, <1>2 DEF Starting
<1> QED BY <1>3, StartingCovers

LEMMA EndTurnCovered ==
  ASSUME IInv, Patient, EndTurn, Typed'
  PROVE  Covered'
<1>1. Srv!Push(Msg("TurnEnds"))
  BY DEF EndTurn
<1>2. Passing' = Passing \cup {Msg("TurnEnds")}
  BY <1>1, PushEffect
<1>3. Msg("TurnEnds") \in Passing' /\ Msg("TurnEnds") \in Starting
  BY <1>2 DEF Starting
<1> QED BY <1>3, StartingCovers

LEMMA StartCovered ==
  ASSUME IInv, Patient, Start, Typed'
  PROVE  Covered'
<1>1. PICK bs, cs : bs = ListsAsked /\ cs = Nothing
  OBVIOUS
<1>2. /\ bs \in Seq(RequestsAsked) /\ cs \in Seq(EventsSent)
      /\ Srv!HandleEvent(Asks(bs), Events(cs))
      /\ ToSet(bs) = {GetIDs(k) : k \in seqs}
      /\ seqs' = seqs
  BY <1>1, Begins, ListsAre DEF IInv
<1>3. ToSet(bs) \subseteq ToSet(Wire')
  BY <1>2, EventEffect
<1>4. ASSUME NEW k \in seqs', NEW thing \in Thing PROVE Coming(k, thing)'
  <2>1. GetIDs(k) \in ToSet(Wire')
    BY <1>2, <1>3
  <2>2. AskedFor(GetIDs(k), k, thing)
    BY DEF AskedFor, GetIDs
  <2> QED BY <2>1, <2>2 DEF Coming, AskedFor
<1> QED BY <1>4, CoveredThingsNext

(* What is not wanted is cached as the server has it.                      *)
LEMMA UnwantedIsCached ==
  ASSUME IInv, NEW k \in seqs, NEW thing \in Thing, Present(k, thing), ~Wanted(k, thing)
  PROVE  Cached(k, thing.id, thing.updated)
<1>1. /\ catalogue[k][thing.id] = thing.updated /\ thing.updated \in Nat
      /\ FirstTime \in Nat /\ FirstTime > 0 /\ serverTurn \in Nat
      /\ thing.updated >= FirstTime
  <2>1. thing.id \in DOMAIN catalogue[k] /\ thing.updated = catalogue[k][thing.id]
    BY DEF Present
  <2>2. catalogue[k][thing.id] \in FirstTime..(FirstTime + serverTurn)
    BY <2>1 DEF IInv, Dated
  <2>3. FirstTime \in Nat /\ FirstTime > 0 /\ serverTurn \in Nat
    BY BoundAssumption DEF IInv, Typed
  <2> QED BY <2>1, <2>2, <2>3
<1>2. Lookup(k, thing.id) # {}
  <2> SUFFICES ASSUME Lookup(k, thing.id) = {} PROVE FALSE
    OBVIOUS
  <2>1. LastUpdate(k, thing.id) = Always \/ LastUpdate(k, thing.id) = 0
    BY DEF LastUpdate
  <2> QED BY <1>1, <2>1 DEF Wanted
<1>3. PICK i : i \in Lookup(k, thing.id) /\ LastUpdate(k, thing.id) = cache[k][i].updated
  BY <1>2 DEF LastUpdate
<1>4. /\ i \in PlacesOf(k, thing.id) /\ cache[k][i] \in ToSet(cache[k]) /\ cache[k][i] \in Thing
      /\ cache[k][i].id = thing.id
  BY <1>3, CachedThings DEF IInv
<1>5. cache[k][i].updated \in Nat /\ cache[k][i].updated <= thing.updated
  <2>1. NotAfter(k, cache[k][i])
    BY <1>4 DEF IInv, Dated
  <2> QED BY <1>1, <1>4, <2>1 DEF NotAfter, Present, Thing
<1>6. cache[k][i].updated = thing.updated
  BY <1>1, <1>3, <1>5 DEF Wanted
<1> QED BY <1>3, <1>4, <1>6 DEF Cached

LEMMA OidsCovered ==
  ASSUME IInv, Patient, HandleOids, Typed'
  PROVE  Covered'
<1>1. PICK k, key, things, more, pos :
        /\ k = Content.kind /\ key = Content.key /\ things = Content.things /\ more = Content.more
        /\ pos = position[k] + Len(things)
  OBVIOUS
<1>2. /\ Content.type = "ListOfIDs" /\ Content \in Passing
      /\ k \in seqs /\ pos \in Nat
      /\ position' = [position EXCEPT ![k] = pos]
      /\ UNCHANGED <<seqs, cache, catalogue>>
  BY <1>1, OidsHandled
<1>3. PICK bs \in Seq(RequestsAsked) :
        /\ Srv!HandleEvent(Asks(bs), Events(Nothing))
        /\ more > 0 => GetPage(k, key, pos) \in ToSet(bs)
        /\ \A thing \in ToSet(things) : Wanted(k, thing) =>
             \E b \in ToSet(bs) : b.type = "Get" /\ b.kind = k /\ thing.id \in ToSet(b.ids)
  <2> HIDE DEF Nothing
  <2>1. PICK bs \in Seq(RequestsAsked) :
          /\ Srv!HandleEvent(Asks(bs), Events(Nothing))
          /\ \A b \in ToSet(bs) : b.type = "Get" \/ (more > 0 /\ b = GetPage(k, key, pos))
          /\ more > 0 => GetPage(k, key, pos) \in ToSet(bs)
          /\ \A thing \in ToSet(things) : Wanted(k, thing) =>
               \E b \in ToSet(bs) : b.type = "Get" /\ b.kind = k /\ thing.id \in ToSet(b.ids)
          /\ \A j : Count(bs, ListRequests(j)) = IF j = k /\ more > 0 THEN 1 ELSE 0
    BY <1>1, OidsHandled
  <2> QED BY <2>1
<1>4. PICK cs : cs = Nothing
  OBVIOUS
<1>5. /\ cs \in Seq(EventsSent) /\ ToSet(cs) = {} /\ \A X : Count(cs, X) = 0
      /\ Srv!HandleEvent(Asks(bs), Events(cs))
  BY <1>3, <1>4, NothingSent
<1>6. /\ ToSet(Wire') = ToSet(Wire) \cup ToSet(bs)
      /\ Passing \subseteq Passing' \cup {Content}
  BY <1>5, EventEffect
<1>7. Content \in Replies /\ Content \in ListFrames(k)
  <2>1. Content \in Replies
    BY <1>2, KindsSent, Said
  <2> QED BY <1>1, <1>2, <2>1, ListFramesAre DEF ListsOf
<1>8. Paged => Passing' \cap ListFrames(k) = {}
  BY <1>2, <1>5, <1>7, AloneHandled
<1>9. \A j \in seqs : j # k => position'[j] = position[j]
  BY <1>2 DEF IInv, Typed
<1>10. ASSUME NEW j \in seqs, NEW thing \in Thing, Present(j, thing), Coming(j, thing)
       PROVE  Cached(j, thing.id, thing.updated) \/ Coming(j, thing)'
  <2>1. ASSUME NEW b \in ToSet(Wire), AskedFor(b, j, thing)
        PROVE  Coming(j, thing)'
    BY <1>6, <2>1 DEF Coming, AskedFor
  <2>2. ASSUME NEW b \in Passing, b # Content, Brings(b, j, thing)
        PROVE  Coming(j, thing)'
    <3>1. b \in Passing' /\ b \in Replies
      BY <1>6, <2>2, KindsSent, Said
    <3>2. Brings(b, j, thing)'
      <4>1. CASE j # k
        <5>1. position'[j] = position[j]
          BY <1>9, <4>1
        <5> QED BY <2>2, <5>1 DEF Brings
      <4>2. CASE j = k
        <5>1. b.type = "ListOfIDs" /\ b.kind = k => b \in ListFrames(k)
          BY <3>1 DEF ListFrames, ListsOf
        <5>2. b.type = "ListOfIDs" /\ b.more > 0 => Paged
          BY <2>2 DEF IInv, Pages, PageCame
        <5>3. ~(b.type = "ListOfIDs" /\ b.kind = k /\ b.more > 0)
          BY <1>8, <3>1, <5>1, <5>2
        <5> QED BY <2>2, <4>2, <5>3 DEF Brings
      <4> QED BY <4>1, <4>2
    <3> QED BY <3>1, <3>2 DEF Coming
  <2>3. ASSUME Brings(Content, j, thing)
        PROVE  Cached(j, thing.id, thing.updated) \/ Coming(j, thing)'
    <3>1. Content.type # "Data" /\ Content \notin Starting
      BY <1>2, ListFramesAre
    <3>2. /\ j = k
          /\ thing \in ToSet(things) \/ (more > 0 /\ thing \in Beyond(key, pos))
      BY <1>1, <2>3, <3>1 DEF Brings
    <3>3. CASE thing \in ToSet(things)
      <4>1. CASE Wanted(k, thing)
        <5>1. PICK b \in ToSet(bs) : b.type = "Get" /\ b.kind = k /\ thing.id \in ToSet(b.ids)
          BY <1>3, <3>3, <4>1
        <5>2. AskedFor(b, j, thing)
          BY <3>2, <5>1 DEF AskedFor
        <5> QED BY <1>6, <5>2 DEF Coming, AskedFor
      <4>2. CASE ~Wanted(k, thing)
        BY <1>10, <3>2, <4>2, UnwantedIsCached
      <4> QED BY <4>1, <4>2
    <3>4. CASE more > 0 /\ thing \in Beyond(key, pos)
      <4>1. GetPage(k, key, pos) \in ToSet(Wire')
        BY <1>3, <1>6, <3>4
      <4>2. AskedFor(GetPage(k, key, pos), j, thing)
        BY <3>2, <3>4 DEF AskedFor, GetPage
      <4> QED BY <4>1, <4>2 DEF Coming, AskedFor
    <3> QED BY <3>2, <3>3, <3>4
  <2> QED BY <1>10, <2>1, <2>2, <2>3 DEF Coming
<1> QED BY <1>2, <1>10, CoveredKept

(* A thing that arrives is cached; one that was is not lost by that.       *)
LEMMA ReceiveCovered ==
  ASSUME IInv, Patient, Receive, Typed'
  PROVE  Covered'
<1>1. PICK k, new : k = Content.kind /\ new = Content.thing
  OBVIOUS
<1>2. PICK cs : cs = Announcement(k, new)
  OBVIOUS
<1>3. /\ Content.type = "Data" /\ k \in seqs /\ new \in Thing
      /\ Nothing \in Seq(RequestsAsked) /\ cs \in Seq(EventsSent)
      /\ Srv!HandleEvent(Asks(Nothing), Events(cs))
      /\ cache' = [cache EXCEPT ![k] = Stored(k, new)]
      /\ UNCHANGED <<seqs, position, catalogue>>
  BY <1>1, <1>2, Receiving DEF Nothing
<1>4. Storing(k, new)
  BY <1>3, StoredIs DEF IInv
<1>5. /\ NotAfter(k, new)
      /\ k \notin Appended => \A i \in Lookup(k, new.id) : cache[k][i].updated <= new.updated
  BY <1>1, ReceivedIsNewer
<1>6. ToSet(Wire') = ToSet(Wire) /\ Passing \subseteq Passing' \cup {Content}
  <2>1. ToSet(Wire') = ToSet(Wire) \cup ToSet(Nothing) /\ Passing \subseteq Passing' \cup {Content}
    BY <1>3, EventEffect
  <2> QED BY <2>1, NothingSent
<1>7. \A j, thing : Present(j, thing)' <=> Present(j, thing)
  BY <1>3 DEF Present
<1>8. ASSUME NEW j \in seqs, NEW thing \in Thing, Present(j, thing),
             Cached(j, thing.id, thing.updated)
      PROVE  Cached(j, thing.id, thing.updated)'
  <2>1. CASE j # k
    <3>1. cache'[j] = cache[j]
      BY <1>4, <2>1 DEF Storing
    <3> QED BY <1>8, <3>1, SameKind
  <2>2. CASE j = k
    <3>1. PICK i \in IF k \in Appended THEN PlacesOf(k, thing.id) ELSE Lookup(k, thing.id) :
            cache[k][i].updated = thing.updated
      BY <1>8, <2>2 DEF Cached
    <3>2. i \in PlacesOf(k, thing.id) /\ i \in 1..Len(cache[k]) /\ cache[k][i].id = thing.id
          /\ cache[k][i] \in Thing
      BY <1>3, <3>1, CachedThings DEF IInv
    <3>3. i \in IF k \in Appended THEN PlacesOf(k, thing.id)' ELSE Lookup(k, thing.id)'
      BY <1>4, <3>1 DEF Storing
    <3>4. cache'[k][i].updated = thing.updated
      <4>1. CASE cache'[k][i] = cache[k][i]
        BY <3>1, <4>1
      <4>2. CASE k \notin Appended /\ i \in Lookup(k, new.id) /\ cache'[k][i] = new
        <5>1. new.id = thing.id
          BY <1>3, <3>2, <4>2, CachedThings DEF IInv
        <5>2. cache[k][i].updated <= new.updated
          BY <1>5, <4>2
        <5>3. new.updated <= thing.updated
          BY <1>5, <1>8, <2>2, <5>1 DEF NotAfter, Present
        <5>4. new.updated \in Nat /\ thing.updated \in Nat
          BY <1>3 DEF Thing
        <5> QED BY <3>1, <4>2, <5>2, <5>3, <5>4
      <4> QED BY <1>4, <3>2, <4>1, <4>2 DEF Storing
    <3> QED BY <2>2, <3>3, <3>4 DEF Cached
  <2> QED BY <2>1, <2>2
<1>9. ASSUME NEW j \in seqs, NEW thing \in Thing, Coming(j, thing)
      PROVE  Cached(j, thing.id, thing.updated)' \/ Coming(j, thing)'
  <2>1. ASSUME NEW b \in ToSet(Wire), AskedFor(b, j, thing)
        PROVE  Coming(j, thing)'
    BY <1>6, <2>1 DEF Coming, AskedFor
  <2>2. ASSUME NEW b \in Passing, b # Content, Brings(b, j, thing)
        PROVE  Coming(j, thing)'
    <3>1. b \in Passing'
      BY <1>6, <2>2
    <3>2. Brings(b, j, thing)'
      BY <1>3, <2>2 DEF Brings
    <3> QED BY <3>1, <3>2 DEF Coming
  <2>3. ASSUME Brings(Content, j, thing)
        PROVE  Cached(j, thing.id, thing.updated)'
    <3>1. Content \notin Starting
      BY <1>3, ListFramesAre
    <3>2. j = k /\ thing = new
      BY <1>1, <1>3, <2>3, <3>1 DEF Brings
    <3>3. PICK i \in IF k \in Appended THEN PlacesOf(k, new.id)' ELSE Lookup(k, new.id)' :
            cache'[k][i] = new
      BY <1>4 DEF Storing
    <3> QED BY <3>2, <3>3 DEF Cached
  <2> QED BY <1>9, <2>1, <2>2, <2>3 DEF Coming
<1>10. \A j \in seqs : \A thing \in Thing : Present(j, thing) =>
         Cached(j, thing.id, thing.updated) \/ Coming(j, thing)
  BY CoveredThings DEF IInv
<1>11. \A j \in seqs' : \A thing \in Thing : Present(j, thing)' =>
         Cached(j, thing.id, thing.updated)' \/ Coming(j, thing)'
  BY <1>3, <1>7, <1>8, <1>9, <1>10
<1> QED BY <1>11, CoveredThingsNext

LEMMA OtherCovered ==
  ASSUME IInv, Patient, OtherEvent, Typed'
  PROVE  Covered'
<1>1. PICK cs : cs = Nothing
  OBVIOUS
<1>2. /\ cs \in Seq(RequestsAsked) /\ cs \in Seq(EventsSent) /\ ToSet(cs) = {}
      /\ Srv!HandleEvent(Asks(cs), Events(cs))
      /\ UNCHANGED <<seqs, position, cache, catalogue>>
      /\ Content.type \in {"ObjectNew", "ObjectChanged", "Fail"}
  BY <1>1, NothingSent, FewSent DEF OtherEvent, Arrives, Content, peerVars, Nothing
<1>3. /\ ToSet(Wire') = ToSet(Wire) /\ Passing \subseteq Passing' \cup {Content}
  BY <1>2, EventEffect
<1>4. ASSUME NEW j \in seqs, NEW thing \in Thing, Coming(j, thing)
      PROVE  Coming(j, thing)'
  <2>1. ASSUME NEW b \in ToSet(Wire), AskedFor(b, j, thing)
        PROVE  Coming(j, thing)'
    BY <1>3, <2>1 DEF Coming, AskedFor
  <2>2. ASSUME NEW b \in Passing, Brings(b, j, thing)
        PROVE  Coming(j, thing)'
    <3>1. b # Content
      BY <1>2, <2>2, ListFramesAre DEF Brings
    <3>2. b \in Passing'
      BY <1>3, <3>1
    <3>3. Brings(b, j, thing)'
      BY <1>2, <2>2 DEF Brings
    <3> QED BY <3>2, <3>3 DEF Coming
  <2> QED BY <1>4, <2>1, <2>2 DEF Coming
<1> QED BY <1>2, <1>4, CoveredKept

LEMMA PageSentCovered ==
  ASSUME IInv, Patient, AnswerGetIDs \/ AnswerGetPage, Typed',
         UNCHANGED <<seqs, position, cache, catalogue>>
  PROVE  Covered'
<1>1. PICK k \in seqs, key \in Seq(Thing), pos \in Nat, things \in Seq(Thing), more \in Nat :
        /\ Question \in ListRequests(k) /\ Question.kind = k
        /\ Question.type = "GetIDs" => key = ListOf(catalogue[k]) /\ pos = 0
        /\ Question.type = "GetPage" => key = Question.key /\ pos = Question.pos
        /\ ListOfIDs(k, key, things, more) \in Registering
        /\ Srv!Answer(<<ListOfIDs(k, key, things, more)>>)
        /\ pos <= Len(key) => pos + Len(things) + more = Len(key)
        /\ more > 0 => /\ Len(things) = pageSize /\ pageSize > 0
                       /\ pos + pageSize < Len(key)
        /\ Beyond(key, pos) \subseteq ToSet(things) \cup Beyond(key, pos + Len(things))
  BY PageSent
<1>2. PICK page : page = ListOfIDs(k, key, things, more)
  OBVIOUS
<1>3. /\ page.type = "ListOfIDs" /\ page.kind = k /\ page.key = key /\ page.things = things
      /\ page.more = more
  BY <1>2 DEF ListOfIDs
<1>4. page \in FramesSent
  BY <1>1, <1>2 DEF FramesSent
<1>5. PICK bodies \in Seq(FramesSent) \ {<<>>} :
        bodies = <<page>> /\ ToSet(bodies) = {page} /\ Srv!Answer(bodies)
  <2>1. <<page>> \in Seq(FramesSent) \ {<<>>} /\ ToSet(<<page>>) = {page}
    BY <1>4, SingleContents
  <2> QED BY <1>1, <1>2, <2>1
<1>6. /\ Question \in ToSet(Wire) /\ ToSet(Wire) = ToSet(Wire') \cup {Question}
      /\ Passing' = Passing \cup {page}
  <2>1. /\ Question \in ToSet(Wire) /\ ToSet(Wire) = ToSet(Wire') \cup {Question}
        /\ Passing' = Passing \cup ToSet(bodies)
    BY <1>5, AnswerEffect
  <2> QED BY <1>5, <2>1
<1>7. pos <= Len(key) /\ (more > 0 => Paged /\ position[k] = pos)
  BY <1>1, <1>6, PageContinues
<1>8. ASSUME NEW j \in seqs, NEW thing \in Thing, Present(j, thing), Coming(j, thing)
      PROVE  Coming(j, thing)'
  <2>1. ASSUME NEW b \in ToSet(Wire'), AskedFor(b, j, thing)
        PROVE  Coming(j, thing)'
    BY <2>1 DEF Coming, AskedFor
  <2>2. ASSUME NEW b \in Passing, Brings(b, j, thing)
        PROVE  Coming(j, thing)'
    <3>1. Brings(b, j, thing)' /\ b \in Passing'
      BY <1>6, <2>2 DEF Brings
    <3> QED BY <3>1 DEF Coming
  <2>3. ASSUME AskedFor(Question, j, thing)
        PROVE  Coming(j, thing)'
    <3>1. j = k /\ Question.type \in {"GetIDs", "GetPage"}
      BY <1>1, <2>3 DEF AskedFor, ListRequests
    <3>2. thing \in Beyond(key, pos)
      <4>1. CASE Question.type = "GetIDs"
        <5>1. thing = Current(k, thing.id) /\ thing.id \in DOMAIN catalogue[k]
          BY <1>8, <3>1 DEF Present, Current, Thing
        <5>2. thing \in ToSet(ListOf(catalogue[k]))
          BY <5>1, ListOfIs
        <5>3. PICK i \in 1..Len(key) : key[i] = thing
          BY <1>1, <4>1, <5>2, Contents
        <5> QED BY <1>1, <4>1, <5>3 DEF Beyond
      <4>2. CASE Question.type = "GetPage"
        BY <1>1, <2>3, <4>2 DEF AskedFor
      <4> QED BY <3>1, <4>1, <4>2
    <3>3. page \in Passing'
      BY <1>6
    <3>4. CASE thing \in ToSet(things)
      <4>1. Brings(page, j, thing)'
        BY <1>3, <3>1, <3>4 DEF Brings
      <4> QED BY <3>3, <4>1 DEF Coming
    <3>5. CASE thing \in Beyond(key, pos + Len(things))
      <4>1. more > 0
        <5>1. PICK i \in 1..Len(key) : i > pos + Len(things)
          BY <3>5 DEF Beyond
        <5> QED BY <1>1, <1>7, <5>1
      <4>2. position'[k] = pos
        BY <1>7, <4>1
      <4>3. Brings(page, j, thing)'
        BY <1>3, <3>1, <3>5, <4>1, <4>2 DEF Brings
      <4> QED BY <3>3, <4>3 DEF Coming
    <3> QED BY <1>1, <3>2, <3>4, <3>5
  <2> QED BY <1>6, <1>8, <2>1, <2>2, <2>3 DEF Coming
<1> QED BY <1>8, CoveredKept

LEMMA ThingsSentCovered ==
  ASSUME IInv, Patient, AnswerGet, Typed', UNCHANGED <<seqs, position, cache, catalogue>>
  PROVE  Covered'
<1>1. PICK bodies \in Seq(FramesSent) \ {<<>>} :
        /\ Srv!Answer(bodies) /\ Question.type = "Get"
        /\ \A id \in DOMAIN catalogue[Question.kind] : id \in ToSet(Question.ids) =>
             \E b \in ToSet(bodies) :
               b.type = "Data" /\ b.kind = Question.kind /\ b.thing = Current(b.kind, id)
  BY ThingsSent
<1>2. /\ ToSet(Wire) = ToSet(Wire') \cup {Question}
      /\ Passing' = Passing \cup ToSet(bodies)
  BY <1>1, AnswerEffect
<1>3. ASSUME NEW j \in seqs, NEW thing \in Thing, Present(j, thing), Coming(j, thing)
      PROVE  Coming(j, thing)'
  <2>1. ASSUME NEW b \in ToSet(Wire'), AskedFor(b, j, thing)
        PROVE  Coming(j, thing)'
    BY <2>1 DEF Coming, AskedFor
  <2>2. ASSUME NEW b \in Passing, Brings(b, j, thing)
        PROVE  Coming(j, thing)'
    <3>1. Brings(b, j, thing)' /\ b \in Passing'
      BY <1>2, <2>2 DEF Brings
    <3> QED BY <3>1 DEF Coming
  <2>3. ASSUME AskedFor(Question, j, thing)
        PROVE  Coming(j, thing)'
    <3>1. Question.kind = j /\ thing.id \in ToSet(Question.ids)
      BY <1>1, <2>3 DEF AskedFor
    <3>2. thing.id \in DOMAIN catalogue[j] /\ thing = Current(j, thing.id)
      BY <1>3 DEF Present, Current, Thing
    <3>3. PICK b \in ToSet(bodies) : b.type = "Data" /\ b.kind = j /\ b.thing = thing
      BY <1>1, <3>1, <3>2
    <3>4. Brings(b, j, thing)'
      BY <3>3 DEF Brings
    <3> QED BY <1>2, <3>3, <3>4 DEF Coming
  <2> QED BY <1>2, <1>3, <2>1, <2>2, <2>3 DEF Coming
<1> QED BY <1>3, CoveredKept

-----------------------------------------------------------------------------
(* The invariant holds                                                     *)

LEMMA InitInv == Init => IInv
<1> SUFFICES ASSUME Init PROVE IInv
  OBVIOUS
<1> DEFINE connected == Msg("Connected")
<1>1. /\ seq = 1 /\ conncb = FALSE /\ cbs = {} /\ pushed = 0
      /\ toServer = <<>> /\ fromServer = <<>> /\ events = <<Event(connected)>>
      /\ seqs \in KindSets
      /\ position = [k \in seqs |-> 0]
      /\ cache = [k \in seqs |-> <<>>]
      /\ told = {}
      /\ pageSize \in PageSizes /\ serverTurn = 0
  BY DEF Init
<1>2. PICK there \in SUBSET Ids : catalogue = [k \in seqs |-> [id \in there |-> FirstTime]]
  BY DEF Init
<1>3. connected \in Replies /\ connected \in EventsSent /\ connected \in Starting
      /\ connected.type = "Connected"
  BY DEF Replies, EventsSent, Starting, Msg
<1> HIDE DEF connected
<1>4. Srv!IInv
  <2>1. events \in Seq([seq : Nat, body : Replies])
    <3>1. Event(connected) \in [seq : Nat, body : Replies]
      BY <1>3 DEF Event
    <3> QED BY <1>1, <3>1
  <2>2. Srv!TypeOK
    <3>1. \A S : Nothing \in Seq(S)
      BY NothingSent
    <3>2. toServer \in Seq([seq : 2..seq, body : Requests]) /\ fromServer \in Seq(Srv!Frame)
      BY <1>1, <3>1 DEF Nothing
    <3>3. /\ conncb \in BOOLEAN /\ seq \in Nat \ {0} /\ pushed \in Nat
          /\ cbs \subseteq [seq : 2..seq, cb : {} \cup {"none"}]
      <4>1. seq = 1 /\ conncb = FALSE /\ cbs = {} /\ pushed = 0
        BY <1>1
      <4>2. \A S : {} \subseteq S
        OBVIOUS
      <4>3. cbs \subseteq [seq : 2..seq, cb : {} \cup {"none"}]
        BY <4>1, <4>2
      <4>4. seq \in Nat \ {0} /\ pushed \in Nat
        BY <4>1
      <4>5. conncb \in BOOLEAN
        BY <4>1, Zenon
      <4> QED BY ONLY <4>3, <4>4, <4>5
    <3> QED BY <2>1, <3>2, <3>3 DEF Srv!TypeOK
  <2>3. Srv!Open = {} /\ Srv!Firsts = {} /\ Srv!FirstNumbers = {} /\ Srv!NumbersOf(toServer) = {}
    BY <1>1 DEF Srv!Open, Srv!Firsts, Srv!FirstNumbers, Srv!NumbersOf
  <2>4. \A i \in 1..Len(events) : events[i].seq = 0
    BY <1>1 DEF Event
  <2>5. Srv!TableMatchesWire /\ Srv!OneEntryPerNumber /\ Srv!EventAfterCallback
    BY <1>1, <2>3 DEF Srv!TableMatchesWire, Srv!OneEntryPerNumber, Srv!EventAfterCallback
  <2>6. Srv!NumbersUsed /\ Srv!WireInOrder /\ Srv!RestBehindFirst
    BY <1>1, <2>3, <2>4 DEF Srv!NumbersUsed, Srv!WireInOrder, Srv!RestBehindFirst
  <2> QED BY <2>2, <2>5, <2>6 DEF Srv!IInv
<1>5. /\ Wire = <<>> /\ Arriving = <<>> /\ Waiting = <<connected>>
      /\ ToSet(Wire) = {} /\ ToSet(Arriving) = {} /\ ToSet(Waiting) = {connected}
      /\ Passing = {connected}
  <2>1. Wire = <<>> /\ Arriving = <<>>
    BY <1>1 DEF Wire, Arriving, Bodies
  <2>2. Waiting = <<connected>>
    BY <1>1 DEF Waiting, Bodies, Event
  <2>3. ToSet(Wire) = {} /\ ToSet(Arriving) = {} /\ ToSet(Waiting) = {connected}
    BY <2>1, <2>2, EmptyContents, SingleContents
  <2> QED BY <2>1, <2>2, <2>3 DEF Passing
<1>6. /\ \A k \in seqs : cache[k] = <<>> /\ ToSet(cache[k]) = {} /\ position[k] = 0
      /\ \A k \in seqs : \A id : PlacesOf(k, id) = {} /\ Lookup(k, id) = {}
      /\ \A k \in seqs : catalogue[k] = [id \in there |-> FirstTime]
  <2>1. \A k \in seqs : cache[k] = <<>> /\ ToSet(cache[k]) = {} /\ position[k] = 0
    BY <1>1, EmptyContents
  <2>2. \A k \in seqs : \A id : PlacesOf(k, id) = {}
    BY <2>1 DEF PlacesOf
  <2> QED BY <1>2, <2>1, <2>2 DEF Lookup
<1>7. Typed
  <2>1. Wire \in Seq(RequestsAsked) /\ Arriving \in Seq(FramesSent) /\ Waiting \in Seq(EventsSent)
    BY <1>3, <1>5
  <2>2. /\ position \in [seqs -> Nat] /\ cache \in [seqs -> Seq(Thing)]
        /\ serverTurn \in 0..MaxLists
    BY <1>1, BoundAssumption
  <2>3. /\ catalogue = [k \in seqs |-> catalogue[k]]
        /\ \A k \in seqs : /\ DOMAIN catalogue[k] \subseteq Ids
                            /\ catalogue[k] \in [DOMAIN catalogue[k] -> Nat]
    BY <1>2, <1>6, BoundAssumption
  <2> QED BY <1>1, <2>1, <2>2, <2>3 DEF Typed
<1>8. Dated
  <2>1. \A k \in seqs : \A id \in DOMAIN catalogue[k] :
          catalogue[k][id] \in FirstTime..(FirstTime + serverTurn)
    <3>1. FirstTime \in FirstTime..(FirstTime + serverTurn)
      BY <1>1, BoundAssumption
    <3>2. \A k \in seqs : \A id \in DOMAIN catalogue[k] : catalogue[k][id] = FirstTime
      BY <1>6
    <3> QED BY <3>1, <3>2
  <2> QED BY <1>3, <1>5, <1>6, <2>1 DEF Dated
<1>9. VersionsRise
  <2>1. Chain(Waiting, Arriving, Rising)
    BY <1>5, ShortOrdered DEF Chain, Across
  <2> QED BY <1>3, <1>5, <2>1 DEF VersionsRise
<1>10. Announcing
  <2>1. \A id : connected \notin NewEvents(id)
    BY <1>3 DEF NewEvents, ObjectEvent
  <2>2. \A id : Count(Waiting, NewEvents(id)) = 0
    BY <1>5, <2>1, SingleCount DEF Count
  <2>3. Ordered(Waiting, NewFirst)
    BY <1>5, ShortOrdered
  <2>4. connected \notin ObjectEvents
    BY <1>3 DEF ObjectEvents
  <2> QED BY <1>1, <1>5, <1>6, <2>2, <2>3, <2>4 DEF Announcing, Count
<1>11. Pages
  <2>1. ASSUME NEW k PROVE ListsUnderWay(k) <= 1
    <3>1. connected \in ListFrames(k)
      BY <1>3 DEF ListFrames
    <3>2. Count(Wire, ListRequests(k)) = 0 /\ Count(Arriving, ListFrames(k)) = 0
      BY <1>5, EmptyContents, FS_EmptySet DEF Count
    <3>3. Count(Waiting, ListFrames(k)) = 1
      BY <1>5, <3>1, SingleCount DEF Count
    <3> QED BY <3>2, <3>3 DEF ListsUnderWay, Count
  <2>2. \A b \in Passing : PageCame(b)
    BY <1>3, <1>5 DEF PageCame
  <2> QED BY <1>5, <2>1, <2>2 DEF Pages
<1>12. Covered
  BY <1>3, <1>5 DEF Covered, Coming, Brings
<1> QED BY <1>4, <1>7, <1>8, <1>9, <1>10, <1>11, <1>12 DEF IInv

LEMMA StutterInv ==
  ASSUME IInv, UNCHANGED vars
  PROVE  IInv'
<1>1. /\ UNCHANGED <<conncb, seq, cbs, toServer, fromServer, events, pushed>>
      /\ UNCHANGED <<seqs, position, cache, told, catalogue, pageSize, serverTurn>>
  BY DEF vars, netVars, peerVars
<1>2. Srv!IInv'
  <2>1. SP!IInv
    BY SameInvariant DEF IInv
  <2>2. UNCHANGED SP!serverVars
    BY <1>1 DEF SP!serverVars
  <2>3. SP!IInv'
    BY <2>1, <2>2, ServerAssumptions, SP!StepInv
  <2> QED BY <2>3, SameInvariantNext
<1>3. Wire' = Wire /\ Arriving' = Arriving /\ Waiting' = Waiting /\ Passing' = Passing
  BY <1>1 DEF Wire, Arriving, Waiting, Passing
<1>4. Typed'
  BY <1>1, <1>3, SameSent DEF IInv, Typed
<1>5. Dated'
  BY <1>1, <1>3, DatedKept
<1>6. VersionsRise'
  BY <1>1, <1>3, RiseKept DEF IInv, VersionsRise
<1>7. Announcing'
  BY <1>1, <1>3, AnnouncingKept DEF IInv, Announcing
<1>8. ASSUME Patient PROVE Pages' /\ Covered'
  <2>1. Pages'
    <3>1. \A k : ListsUnderWay(k)' = ListsUnderWay(k)
      BY <1>3 DEF ListsUnderWay
    <3>2. Paged => \A k \in seqs : ListsUnderWay(k)' <= 1
      BY <1>8, <3>1 DEF IInv, Pages
    <3> QED BY <1>1, <1>3, <1>8, <3>2, PagesKept
  <2>2. \A k, thing : Coming(k, thing)' <=> Coming(k, thing)
    BY <1>1, <1>3 DEF Coming, AskedFor, Brings
  <2>3. Covered'
    BY <1>1, <1>4, <1>8, <2>2, CoveredKept
  <2> QED BY <2>1, <2>3
<1> QED BY <1>2, <1>4, <1>5, <1>6, <1>7, <1>8 DEF IInv

LEMMA EventInv ==
  ASSUME IInv, HandleAnyEvent
  PROVE  IInv'
<1>1. CASE TimeRemaining
  <2>1. Typed' /\ Dated' /\ VersionsRise' /\ Announcing'
    BY <1>1, TurnIsSeen
  <2>2. Patient => Pages' /\ Covered'
    BY <1>1, <2>1, TurnPages, TurnCovered
  <2>3. Srv!IInv'
    BY <1>1, TurnIsSeen, EventEffect
  <2> QED BY <2>1, <2>2, <2>3 DEF IInv
<1>2. CASE Start
  <2>1. Typed' /\ Dated' /\ VersionsRise' /\ Announcing'
    BY <1>2, Begins
  <2>2. Patient => Pages' /\ Covered'
    BY <1>2, <2>1, StartPages, StartCovered
  <2>3. Srv!IInv'
    BY <1>2, Begins, EventEffect
  <2> QED BY <2>1, <2>2, <2>3 DEF IInv
<1>3. CASE HandleOids
  <2>1. Typed' /\ Dated' /\ VersionsRise' /\ Announcing'
    BY <1>3, HandleOidsKeeps
  <2>2. Patient => Pages' /\ Covered'
    BY <1>3, <2>1, OidsPages, OidsCovered
  <2>3. Srv!IInv'
    <3>1. PICK bs \in Seq(RequestsAsked) : Srv!HandleEvent(Asks(bs), Events(Nothing))
      BY <1>3, OidsHandled
    <3>2. Nothing \in Seq(EventsSent)
      BY NothingSent
    <3> QED BY <3>1, <3>2, EventEffect
  <2> QED BY <2>1, <2>2, <2>3 DEF IInv
<1>4. CASE Receive
  <2>1. Typed' /\ Dated' /\ VersionsRise' /\ Announcing'
    BY <1>4, ReceiveKeeps
  <2>2. Patient => Pages' /\ Covered'
    BY <1>4, <2>1, ReceivePages, ReceiveCovered
  <2>3. Srv!IInv'
    <3>1. /\ Nothing \in Seq(RequestsAsked)
          /\ Announcement(Content.kind, Content.thing) \in Seq(EventsSent)
          /\ Srv!HandleEvent(Asks(Nothing), Events(Announcement(Content.kind, Content.thing)))
      BY <1>4, Receiving DEF Nothing
    <3>2. PICK cs : cs = Announcement(Content.kind, Content.thing)
      OBVIOUS
    <3> QED BY <3>1, <3>2, EventEffect
  <2> QED BY <2>1, <2>2, <2>3 DEF IInv
<1>5. CASE OtherEvent
  <2>1. Typed' /\ Dated' /\ VersionsRise' /\ Announcing'
    BY <1>5, OtherEventKeeps
  <2>2. Patient => Pages' /\ Covered'
    BY <1>5, <2>1, OtherPages, OtherCovered
  <2>3. Srv!IInv'
    <3>1. /\ Nothing \in Seq(RequestsAsked) /\ Nothing \in Seq(EventsSent)
          /\ Srv!HandleEvent(Asks(Nothing), Events(Nothing))
      BY <1>5, NothingSent, FewSent DEF OtherEvent, Nothing
    <3> QED BY <3>1, EventEffect
  <2> QED BY <2>1, <2>2, <2>3 DEF IInv
<1> QED BY <1>1, <1>2, <1>3, <1>4, <1>5 DEF HandleAnyEvent

LEMMA AnswersInv ==
  ASSUME IInv, Answer
  PROVE  IInv'
<1>1. UNCHANGED <<seqs, position, cache, told, catalogue, pageSize, serverTurn>>
  BY DEF Answer, peerVars
<1>2. CASE AnswerGetIDs \/ AnswerGetPage
  <2>1. Typed' /\ Dated' /\ VersionsRise' /\ Announcing'
    BY <1>1, <1>2, PageSentKeeps
  <2>2. Patient => Pages' /\ Covered'
    BY <1>1, <1>2, <2>1, PageSentPages, PageSentCovered
  <2>3. Srv!IInv'
    <3>1. PICK page \in Registering : Srv!Answer(<<page>>)
      BY <1>2, PageSent
    <3>2. <<page>> \in Seq(FramesSent) \ {<<>>}
      BY DEF FramesSent
    <3> QED BY <3>1, <3>2, AnswerEffect
  <2> QED BY <2>1, <2>2, <2>3 DEF IInv
<1>3. CASE AnswerGet
  <2>1. Typed' /\ Dated' /\ VersionsRise' /\ Announcing'
    BY <1>1, <1>3, ThingsSentKeeps
  <2>2. Patient => Pages' /\ Covered'
    BY <1>1, <1>3, <2>1, ThingsSentPages, ThingsSentCovered
  <2>3. Srv!IInv'
    <3>1. PICK bodies \in Seq(FramesSent) \ {<<>>} : Srv!Answer(bodies)
      BY <1>3, ThingsSent
    <3> QED BY <3>1, AnswerEffect
  <2> QED BY <2>1, <2>2, <2>3 DEF IInv
<1> QED BY <1>2, <1>3 DEF Answer

LEMMA StepInv == IInv /\ [Next]_vars => IInv'
<1> SUFFICES ASSUME IInv, [Next]_vars PROVE IInv'
  OBVIOUS
<1>1. CASE Frame
  <2>1. Typed'
    <3>1. UNCHANGED <<seqs, position, cache, told, catalogue, pageSize, serverTurn>>
      BY <1>1 DEF Frame, peerVars
    <3>2. /\ Wire' = Wire
          /\ Arriving' \in Seq(FramesSent) /\ Waiting' \in Seq(EventsSent)
      BY <1>1, FrameEffect
    <3> QED BY <3>1, <3>2, SameSent DEF IInv, Typed
  <2>2. Dated' /\ VersionsRise' /\ Announcing'
    BY <1>1, FrameKeeps
  <2>3. Patient => Pages' /\ Covered'
    BY <1>1, <2>1, FramePages, FrameCovered
  <2>4. Srv!IInv'
    BY <1>1, FrameEffect
  <2> QED BY <2>1, <2>2, <2>3, <2>4 DEF IInv
<1>2. CASE HandleAnyEvent
  BY <1>2, EventInv
<1>3. CASE Answer
  BY <1>3, AnswersInv
<1>4. CASE EndTurn
  <2>1. Typed' /\ Dated' /\ VersionsRise' /\ Announcing'
    BY <1>4, EndTurnKeeps
  <2>2. Patient => Pages' /\ Covered'
    BY <1>4, <2>1, EndTurnPages, EndTurnCovered
  <2>3. Srv!IInv'
    BY <1>4, PushEffect DEF EndTurn
  <2> QED BY <2>1, <2>2, <2>3 DEF IInv
<1>5. CASE UNCHANGED vars
  BY <1>5, StutterInv
<1> QED BY <1>1, <1>2, <1>3, <1>4, <1>5 DEF Next

(* The sequences of tpe_sequence.c, the caches they keep and what is under *)
(* way for them stay consistent.                                           *)
THEOREM InductiveInvariant == Spec => []IInv
BY InitInv, StepInv, PTL DEF Spec

-----------------------------------------------------------------------------
(* The properties                                                          *)

(* The variables keep their types: in particular nothing cached is of a    *)
(* later time than the server's, which UINT64_MAX stands above.            *)
THEOREM TypeCorrect == Spec => []TypeOK
<1>1. IInv => TypeOK
  <2> SUFFICES ASSUME IInv PROVE TypeOK
    OBVIOUS
  <2> DEFINE Old == [id : Ids, updated : 0..(Always - 1)]
  <2>1. Srv!TypeOK /\ seqs \in KindSets /\ position \in [seqs -> Nat] /\ told \subseteq Ids
        /\ serverTurn \in 0..MaxLists
    BY DEF IInv, Typed, Srv!IInv
  <2>2. ASSUME NEW k \in seqs PROVE cache[k] \in Seq(Old)
    <3>1. /\ cache[k] \in Seq(Thing) /\ Len(cache[k]) \in Nat
          /\ \A i \in 1..Len(cache[k]) : cache[k][i] \in ToSet(cache[k]) /\ cache[k][i] \in Thing
      BY CachedThings DEF IInv
    <3>2. ASSUME NEW i \in 1..Len(cache[k]) PROVE cache[k][i] \in Old
      <4>1. PICK thing \in Thing : thing = cache[k][i] /\ NotAfter(k, thing)
        BY <3>1 DEF IInv, Dated
      <4>2. thing.updated \in Nat /\ thing.id \in Ids
            /\ thing = [id |-> thing.id, updated |-> thing.updated]
        BY DEF Thing
      <4>3. thing.updated <= FirstTime + serverTurn /\ FirstTime \in Nat /\ MaxLists \in Nat
        BY <4>1, BoundAssumption DEF NotAfter
      <4>4. thing.updated \in 0..(Always - 1)
        BY <2>1, <4>2, <4>3 DEF Always
      <4> QED BY <4>1, <4>2, <4>4
    <3> HIDE DEF Old
    <3> QED BY <3>1, <3>2
  <2>3. cache \in [seqs -> Seq(Old)]
    <3>1. cache = [k \in seqs |-> cache[k]]
      BY DEF IInv, Typed
    <3> HIDE DEF Old
    <3> QED BY <2>2, <3>1
  <2> QED BY <2>1, <2>3 DEF TypeOK
<1> QED BY <1>1, InductiveInvariant, PTL

(* An object is announced as new exactly once, when it is first cached, and *)
(* as changed only behind that: whatever turns end in between and in       *)
(* whatever order lists and objects pass each other.                       *)
THEOREM NewIsAnnouncedOnce == Spec => []NewOnceFirst
<1>1. IInv => NewOnceFirst
  <2> SUFFICES ASSUME IInv, NEW id \in Ids
               PROVE  LET new == PlacesIn(events, "ObjectNew", id)
                          changed == PlacesIn(events, "ObjectChanged", id)
                      IN  /\ Cardinality(new) + (IF id \in told THEN 1 ELSE 0)
                               = IF "Object" \in seqs /\ PlacesOf("Object", id) # {} THEN 1 ELSE 0
                          /\ \A i \in new, j \in changed : i < j
    BY DEF NewOnceFirst
  <2>1. /\ Len(Waiting) = Len(events) /\ Len(events) \in Nat
        /\ \A i \in 1..Len(events) : Waiting[i] = events[i].body /\ Waiting[i] \in Replies
    <3>1. events \in Seq([seq : Nat, body : Replies]) /\ Waiting \in Seq(Replies)
      BY Queues DEF IInv
    <3>2. \A x \in [seq : Nat, body : Replies] : x.body \in Replies
      OBVIOUS
    <3>3. Len(Waiting) = Len(events) /\ \A i \in 1..Len(events) : Waiting[i] = events[i].body
      BY <3>1, <3>2, BodiesOf DEF Waiting
    <3> QED BY <3>1, <3>3
  <2>2. PlacesIn(events, "ObjectNew", id) = Places(Waiting, NewEvents(id))
    BY <2>1 DEF PlacesIn, Places, NewEvents
  <2>3. ASSUME NEW i \in PlacesIn(events, "ObjectNew", id),
               NEW j \in PlacesIn(events, "ObjectChanged", id)
        PROVE  i < j
    <3>1. /\ i \in 1..Len(Waiting) /\ j \in 1..Len(Waiting)
          /\ Waiting[i] = ObjectEvent("ObjectNew", id) /\ Waiting[j] = ObjectEvent("ObjectChanged", id)
      BY <2>1 DEF PlacesIn
    <3>2. /\ Waiting[i].type = "ObjectNew" /\ Waiting[j].type = "ObjectChanged"
          /\ Waiting[i].id = id /\ Waiting[j].id = id
      BY <3>1 DEF ObjectEvent
    <3>3. ~(j < i)
      <4>1. j < i => <<Waiting[j], Waiting[i]>> \in NewFirst
        BY <3>1 DEF IInv, Announcing, Ordered
      <4> QED BY <3>2, <4>1 DEF NewFirst
    <3>4. i # j
      BY <3>2
    <3> QED BY <2>1, <3>1, <3>3, <3>4
  <2>4. Cardinality(Places(Waiting, NewEvents(id))) + (IF id \in told THEN 1 ELSE 0)
          = IF "Object" \in seqs /\ PlacesOf("Object", id) # {} THEN 1 ELSE 0
    BY DEF IInv, Announcing
  <2> QED BY <2>2, <2>3, <2>4
<1> QED BY <1>1, InductiveInvariant, PTL

(* Where no turn ends while a list in pages is under way, the next page of *)
(* a list is asked for where the items received end: none is asked for     *)
(* twice, and none is left out.                                            *)
THEOREM PagesComeInOrder ==
  ASSUME Patient
  PROVE  Spec => []PagesInOrder
<1>1. IInv => PagesInOrder
  <2> SUFFICES ASSUME IInv, NEW i \in 1..Len(toServer), toServer[i].body.type = "GetPage"
               PROVE  /\ toServer[i].body.pos = position[toServer[i].body.kind]
                      /\ 0 < toServer[i].body.pos
                      /\ toServer[i].body.pos < Len(toServer[i].body.key)
    BY DEF PagesInOrder
  <2>1. toServer[i].body \in ToSet(Wire)
    <3>1. toServer \in Seq([seq : Nat, body : Requests]) /\ Wire \in Seq(Requests)
      BY Queues DEF IInv
    <3>2. \A x \in [seq : Nat, body : Requests] : x.body \in Requests
      OBVIOUS
    <3>3. Len(Wire) = Len(toServer) /\ Wire[i] = toServer[i].body
      BY <3>1, <3>2, BodiesOf DEF Wire
    <3> QED BY <3>1, <3>3, Contents
  <2>2. PageAsked(toServer[i].body)
    BY <2>1 DEF IInv, Pages
  <2> QED BY <2>2 DEF PageAsked
<1> QED BY <1>1, InductiveInvariant, PTL

(* Under the same condition the lists do what they are for: when nothing   *)
(* is under way, all the server has is cached as the server has it.        *)
THEOREM SyncIsComplete ==
  ASSUME Patient
  PROVE  Spec => []SyncComplete
<1>1. IInv => SyncComplete
  <2> SUFFICES ASSUME IInv, Quiet, NEW k \in seqs, NEW id \in DOMAIN catalogue[k]
               PROVE  Cached(k, id, catalogue[k][id])
    BY DEF SyncComplete, Cached
  <2>1. Wire = <<>> /\ Arriving = <<>> /\ Waiting = <<>>
    BY Queues DEF IInv, Quiet
  <2>2. ToSet(Wire) = {} /\ Passing = {}
    BY <2>1, EmptyContents DEF Passing
  <2>3. ~Coming(k, Current(k, id))
    BY <2>2 DEF Coming
  <2> QED BY <2>3 DEF IInv, Covered
<1> QED BY <1>1, InductiveInvariant, PTL

LEMMA NeverBack ==
  ASSUME IInv, [Next]_vars, NEW k \in seqs', NEW id \in Ids,
         Lookup(k, id) # {}
  PROVE  LastUpdate(k, id) <= LastUpdate(k, id)'
<1>1. seqs' = seqs /\ (cache' = cache \/ Receive)
  BY DEF Next, Frame, HandleAnyEvent, TimeRemaining, Start, HandleOids, Receive, OtherEvent,
         Answer, EndTurn, vars
<1>2. PICK i : i \in Lookup(k, id) /\ LastUpdate(k, id) = cache[k][i].updated
  BY DEF LastUpdate
<1>3. /\ i \in PlacesOf(k, id) /\ i \in 1..Len(cache[k]) /\ cache[k][i].id = id
      /\ cache[k][i] \in Thing /\ cache[k][i].updated \in Nat
  <2>1. /\ i \in PlacesOf(k, id) /\ i \in 1..Len(cache[k]) /\ cache[k][i].id = id
        /\ cache[k][i] \in Thing
    BY <1>1, <1>2, CachedThings DEF IInv
  <2> QED BY <2>1 DEF Thing
<1>4. CASE cache' = cache
  <2>1. Lookup(k, id)' = Lookup(k, id)
    BY <1>4, SameCache
  <2>2. LastUpdate(k, id)' = LastUpdate(k, id)
    BY <1>4, <2>1 DEF LastUpdate
  <2> QED BY <1>2, <1>3, <2>2
<1>5. CASE Receive
  <2>1. PICK j, new : j = Content.kind /\ new = Content.thing
    OBVIOUS
  <2>2. j \in seqs /\ new \in Thing /\ cache' = [cache EXCEPT ![j] = Stored(j, new)]
    BY <1>5, <2>1, Receiving
  <2>3. Storing(j, new)
    BY <2>2, StoredIs DEF IInv
  <2>4. CASE j # k
    <3>1. cache'[k] = cache[k]
      BY <1>1, <2>3, <2>4 DEF Storing
    <3>2. Lookup(k, id)' = Lookup(k, id)
      BY <3>1, SameKind
    <3>3. LastUpdate(k, id)' = LastUpdate(k, id)
      BY <3>1, <3>2 DEF LastUpdate
    <3> QED BY <1>2, <1>3, <3>3
  <2>5. CASE j = k
    <3>1. i \in Lookup(k, id)'
      BY <1>2, <2>3, <2>5 DEF Storing
    <3>2. LastUpdate(k, id)' = cache'[k][i].updated
      <4>1. PICK n : n \in Lookup(k, id)' /\ LastUpdate(k, id)' = cache'[k][n].updated
        BY <3>1 DEF LastUpdate
      <4>2. n <= i /\ i <= n /\ i \in Int /\ n \in Int
        <5>1. n \in PlacesOf(k, id)' /\ i \in PlacesOf(k, id)' /\ n <= i /\ i <= n
          BY <3>1, <4>1 DEF Lookup
        <5>2. \A m \in PlacesOf(k, id)' : m \in Int
          BY DEF PlacesOf
        <5> QED BY <5>1, <5>2
      <4> QED BY <4>1, <4>2
    <3>3. CASE cache'[k][i] = cache[k][i]
      BY <1>2, <1>3, <3>2, <3>3
    <3>4. CASE k \notin Appended /\ i \in Lookup(k, new.id) /\ cache'[k][i] = new
      <4>1. cache[k][i].updated <= new.updated
        BY <1>5, <2>1, <2>5, <3>4, ReceivedIsNewer
      <4> QED BY <1>2, <3>2, <3>4, <4>1
    <3> QED BY <1>3, <2>3, <2>5, <3>3, <3>4 DEF Storing
  <2> QED BY <2>4, <2>5
<1> QED BY <1>1, <1>4, <1>5

(* What a lookup finds is never replaced by an older version, though lists *)
(* of several turns and the things fetched for them pass each other.       *)
THEOREM CacheNeverGoesBack == Spec => CacheMonotone
<1>1. IInv /\ [Next]_vars =>
        [\A k \in seqs, id \in Ids :
           Lookup(k, id) # {} => LastUpdate(k, id) <= LastUpdate(k, id)']_vars
  <2> SUFFICES ASSUME IInv, [Next]_vars, NEW k \in seqs, NEW id \in Ids, Lookup(k, id) # {}
               PROVE  LastUpdate(k, id) <= LastUpdate(k, id)'
    OBVIOUS
  <2>1. seqs' = seqs
    BY DEF Next, Frame, HandleAnyEvent, TimeRemaining, Start, HandleOids, Receive, OtherEvent,
           Answer, EndTurn, vars
  <2> QED BY <2>1, NeverBack
<1> QED BY <1>1, InductiveInvariant, PTL DEF Spec, CacheMonotone
=============================================================================
