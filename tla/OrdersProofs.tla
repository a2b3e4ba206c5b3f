---------------------------- MODULE OrdersProofs ----------------------------
(***************************************************************************)
(* Proofs about Orders, for any planets, types of orders, pages, portions  *)
(* and number of turns.                                                    *)
(***************************************************************************)
EXTENDS Orders, QueueLemmas

(* What is proved about Server holds of the server.c Orders runs on.       *)
SP == INSTANCE ServerProofs
        WITH Body <- RequestBodies, Reply <- Replies, Callback <- {"smith"},
             NoCallback <- "none", Heard <- Replies \ Unheard,
             MaxSeq <- 1, MaxSends <- 0, MaxReply <- 0, MaxPush <- MaxTurns

-----------------------------------------------------------------------------
(* The inductive invariant                                                 *)

(* What is said on the wire, in the frames and in the events.              *)
Wire == Bodies(toServer)
Arriving == Bodies(fromServer)
Waiting == Bodies(events)
Passing == ToSet(Arriving) \cup ToSet(Waiting)
UnderWay == ToSet(Wire) \cup Passing

ServerOrder == [no : Nat, type : Types]

Typed ==
  /\ paramsRead \in BOOLEAN /\ patient \in BOOLEAN
  /\ pageSize \in Nat \ {0}
  /\ stopped \in {"no", "slot", "description"}
  /\ clock \in Nat
  /\ DOMAIN queues = Planets /\ changed \in [Planets -> Nat]
  /\ \A p \in Planets :
       /\ queues[p] \in Seq(ServerOrder)
       /\ changed[p] \in 0..clock

(* An object as it was described, with a slot for each of its orders.      *)
OrderType == {NoOrder} \cup ServerOrder
ObjectType ==
  [updated : Nat, norders : Nat, orders : UNION {[Slots(n) -> OrderType] : n \in Nat}]

ObjectOK(p) ==
  /\ objects[p] \in ObjectType
  /\ DOMAIN objects[p].orders = Slots(objects[p].norders)
  /\ objects[p].updated <= changed[p]

ObjectsKept ==
  /\ DOMAIN objects \subseteq Planets
  /\ \A p \in DOMAIN objects : ObjectOK(p)

(* smith_order_insert_cb() is entered for probes and hears their answers.  *)
CallsSmith(n) == \E e \in cbs : e.seq = n /\ e.cb = "smith"
OfProbe(r) == r.type = "Order" => r.slot = -1
SmithAsked ==
  \A i \in 1..Len(toServer) : CallsSmith(toServer[i].seq) => toServer[i].body.type = "ProbeOrder"
SmithAnswered ==
  \A i \in 1..Len(fromServer) : CallsSmith(fromServer[i].seq) => OfProbe(fromServer[i].body)
SmithCalled == SmithAsked /\ SmithAnswered

(* An order, not the answer to a probe.                                    *)
IsOrder(r) == r.type = "Order" /\ r.slot # -1
Announces(r) == r.type \in {"ObjectNew", "ObjectChanged"}

(* What is said is said about what there is.                               *)
RequestMeant(r) ==
  /\ r.type = "GetObjects" =>
       /\ ToSet(r.ids) \subseteq Planets
       /\ \A i, j \in 1..Len(r.ids) : r.ids[i] = r.ids[j] => i = j
  /\ r.type = "GetDescs" => ToSet(r.ids) \subseteq Types
  /\ r.type = "GetOrder" => r.id \in DOMAIN objects

ReplyMeant(r) ==
  /\ r.type = "Object" => r.updated <= changed[r.id]
  /\ IsOrder(r) \/ Announces(r) => r.id \in DOMAIN objects

Meant ==
  /\ \A r \in ToSet(Wire) : RequestMeant(r)
  /\ \A r \in Passing : ReplyMeant(r)

(* Without the parameters of objects there are no orders.                  *)
AboutOrders(r) ==
  r.type \in {"GetOrder", "ProbeOrder", "InsertOrder", "Order", "PlanetNoOrders"}
NoneRead ==
  ~paramsRead =>
    /\ stopped = "no"
    /\ \A p \in DOMAIN objects : objects[p].norders = 0
    /\ \A r \in UnderWay : ~AboutOrders(r)

(* When descriptions come in one page: what announces orders is behind     *)
(* what brings their descriptions.                                         *)
Said == RequestBodies \cup Replies
Describing(t) ==
  {r \in Said : (r.type = "GetDescs" /\ t \in ToSet(r.ids)) \/ (r.type = "Desc" /\ r.id = t)}
Paging ==
  {r \in Said : \/ r.type = "GetDescPage" /\ r.pos = 0
                \/ r.type = "ListOfDescs" /\ r.next = 0 /\ ToSet(r.ids) = Types}
OrderThings == {r \in Said : r.type = "GetOrder" \/ IsOrder(r)}
ObjectThings == {r \in Said : r.type \in {"GetObjects", "Object"} \/ Announces(r)}
ListThings == {r \in Said : r.type \in {"GetObjectIDs", "ListOfObjects"}}

(* Each element of s that is in X has one of Y before it.                  *)
Guarded(s, X, Y) == \A j \in 1..Len(s) : s[j] \in X => \E i \in 1..(j - 1) : s[i] \in Y
Has(s, Y) == ToSet(s) \cap Y # {}
Behind(X, Y) ==
  /\ Guarded(Waiting, X, Y)
  /\ Has(Waiting, Y) \/ Guarded(Arriving, X, Y)
  /\ Has(Waiting, Y) \/ Has(Arriving, Y) \/ Guarded(Wire, X, Y)
IsUnderWay(Y) == UnderWay \cap Y # {}

OnePage == pageSize >= Cardinality(Types)
DescribedFirst(t) ==
  /\ Behind(OrderThings, Describing(t))
  /\ IsUnderWay(Describing(t)) \/ Behind(ObjectThings, Paging)
  /\ IsUnderWay(Describing(t)) \/ IsUnderWay(Paging) \/ ~IsUnderWay(ListThings)
AllDescribed == \A p \in DOMAIN objects : StrGet(objects[p].orders)
DescriptionsFirst ==
  OnePage =>
    /\ stopped # "description"
    /\ AllDescribed
    /\ \A t \in Types \ descs : DescribedFirst(t)

(* With the parameters, and turns that end in quiet moments.  The client   *)
(* is on one errand at a time for a planet: it looks for changed objects,  *)
(* fetches the planet, or gives it an order.                               *)
Reading == patient /\ paramsRead

Lists(r) == r.type \in {"Connected", "NewTurn", "ListOfObjects"}
AskedOf(p) ==
  {r \in RequestBodies :
     \/ r.type = "GetObjectIDs"
     \/ r.type = "GetObjects" /\ p \in ToSet(r.ids)
     \/ r.type \in {"ProbeOrder", "InsertOrder"} /\ r.id = p}
HeardOf(p) ==
  {r \in Replies : Lists(r) \/ (r.type \in {"Object", "PlanetNoOrders"} /\ r.id = p)}
Probed(p) == {r \in Replies : r.type = "Order" /\ r.slot = -1 /\ r.id = p}
AnsweredOf(p) == HeardOf(p) \cup Probed(p)

Count(s, X) == Cardinality(Places(s, X))
Errands(p) ==
  Count(Wire, AskedOf(p)) + Count(Arriving, AnsweredOf(p)) + Count(Waiting, HeardOf(p))
OneErrand == \A p \in Planets : Errands(p) <= 1

(* The object is as its planet is.                                         *)
Fresh(p) == p \in DOMAIN objects /\ objects[p].updated = changed[p]
WithoutOrders(p) == p \in DOMAIN objects /\ objects[p].norders = 0 /\ queues[p] = <<>>
AskedSlots(n) == Slots(n) \ Unasked(n)
SlotThere(p, s) == Fresh(p) /\ s \in AskedSlots(objects[p].norders)

RequestTrue(r) ==
  /\ r.type = "GetOrder" => \A s \in ToSet(r.slots) : SlotThere(r.id, s)
  /\ r.type \in {"ProbeOrder", "InsertOrder"} => WithoutOrders(r.id)
ReplyTrue(r) ==
  /\ r.type = "ListOfObjects" => r.updated = changed
  /\ r.type = "Object" => r.updated = changed[r.id] /\ r.norders = Len(queues[r.id])
  /\ IsOrder(r) => SlotThere(r.id, r.slot) /\ r.order = queues[r.id][r.slot + 1]
  /\ r.type = "PlanetNoOrders" => WithoutOrders(r.id)
  /\ Announces(r) => Fresh(r.id) \/ objects[r.id].norders = 0
AllTrue ==
  /\ \A r \in ToSet(Wire) : RequestTrue(r)
  /\ \A r \in Passing : ReplyTrue(r)
  /\ \A p \in Planets : \A r \in ToSet(Arriving) : r \in Probed(p) => WithoutOrders(p)

(* An object that is not as its planet is will be fetched.                 *)
Renews(p) ==
  {r \in Said : \/ Lists(r) \/ r.type = "GetObjectIDs"
                \/ r.type = "GetObjects" /\ p \in ToSet(r.ids)
                \/ r.type = "Object" /\ r.id = p}
Renewed ==
  \A p \in DOMAIN objects : Fresh(p) \/ objects[p].norders = 0 \/ IsUnderWay(Renews(p))

(* A slot holds its order, or is waited for.                               *)
Fills(p, s) ==
  {r \in Said : \/ r.type = "GetOrder" /\ r.id = p /\ s \in ToSet(r.slots)
                \/ r.type = "Order" /\ r.id = p /\ r.slot = s
                \/ Announces(r) /\ r.id = p}
SlotFilled(p, s) ==
  IF s \in Unasked(objects[p].norders) THEN objects[p].orders[s] = NoOrder
  ELSE objects[p].orders[s] = queues[p][s + 1] \/ IsUnderWay(Fills(p, s))
Filled ==
  \A p \in DOMAIN objects : Fresh(p) =>
    /\ objects[p].norders = Len(queues[p])
    /\ \A s \in Slots(objects[p].norders) : SlotFilled(p, s)

(* An order is given to a planet without any.                              *)
Given(p) == {j \in 1..Len(queues[p]) : queues[p][j].no > MaxOrders}
FewGiven == patient => \A p \in Planets : Len(queues[p]) <= 1 \/ Given(p) = {}

IInv ==
  /\ Srv!IInv
  /\ Typed
  /\ ObjectsKept
  /\ SmithCalled
  /\ Meant
  /\ NoneRead
  /\ DescriptionsFirst
  /\ Reading => OneErrand /\ AllTrue /\ Renewed /\ Filled /\ stopped # "slot"
  /\ FewGiven

-----------------------------------------------------------------------------
(* Orders' server.c is the one the theorems are about                      *)

LEMMA ServerAssumptions ==
  SP!HeardAssumption /\ SP!NoCallbackAssumption /\ SP!BoundAssumption
BY BoundAssumption

LEMMA SameInvariant == Srv!IInv <=> SP!IInv
<1>1. Srv!TypeOK <=> SP!TypeOK
  BY DEF Srv!TypeOK, SP!TypeOK, Srv!Frame, SP!Frame
<1>2. /\ Srv!Firsts = SP!Firsts
      /\ Srv!Open = SP!Open
      /\ Srv!FirstNumbers = SP!FirstNumbers
  BY DEF Srv!Firsts, SP!Firsts, Srv!Open, SP!Open, Srv!FirstNumbers, SP!FirstNumbers
<1>3. Srv!TableMatchesWire <=> SP!TableMatchesWire
  BY <1>2 DEF Srv!TableMatchesWire, SP!TableMatchesWire, Srv!NumbersOf, SP!NumbersOf
<1>4. Srv!OneEntryPerNumber <=> SP!OneEntryPerNumber
  BY DEF Srv!OneEntryPerNumber, SP!OneEntryPerNumber
<1>5. Srv!EventAfterCallback <=> SP!EventAfterCallback
  BY <1>2 DEF Srv!EventAfterCallback, SP!EventAfterCallback
<1>6. Srv!NumbersUsed <=> SP!NumbersUsed
  BY <1>2 DEF Srv!NumbersUsed, SP!NumbersUsed
<1>7. Srv!WireInOrder <=> SP!WireInOrder
  BY <1>2 DEF Srv!WireInOrder, SP!WireInOrder
<1>8. Srv!RestBehindFirst <=> SP!RestBehindFirst
  BY <1>2 DEF Srv!RestBehindFirst, SP!RestBehindFirst
<1> QED BY <1>1, <1>3, <1>4, <1>5, <1>6, <1>7, <1>8 DEF Srv!IInv, SP!IInv

LEMMA SameInvariantNext == Srv!IInv' <=> SP!IInv'
BY SameInvariant, PTL

LEMMA SameSteps ==
  ASSUME NEW rs, NEW es, NEW bodies, NEW body
  PROVE  /\ Srv!HandlePacket(rs, es) <=> SP!HandlePacket(rs, es)
         /\ Srv!HandleEvent(rs, es) <=> SP!HandleEvent(rs, es)
         /\ Srv!Answer(bodies) <=> SP!Answer(bodies)
         /\ Srv!Push(body) <=> SP!Push(body)
<1>1. /\ Srv!SendAll(rs) <=> SP!SendAll(rs)
      /\ Srv!Entries(rs) = SP!Entries(rs)
  BY DEF Srv!SendAll, SP!SendAll, Srv!Entries, SP!Entries
<1>2. Srv!HandlePacket(rs, es) <=> SP!HandlePacket(rs, es)
  BY <1>1 DEF Srv!HandlePacket, SP!HandlePacket, Srv!Called, SP!Called,
              Srv!Matching, SP!Matching, Srv!Posted, SP!Posted
<1>3. Srv!HandleEvent(rs, es) <=> SP!HandleEvent(rs, es)
  BY <1>1 DEF Srv!HandleEvent, SP!HandleEvent
<1>4. /\ Srv!Answer(bodies) <=> SP!Answer(bodies)
      /\ Srv!Push(body) <=> SP!Push(body)
  BY DEF Srv!Answer, SP!Answer, Srv!Push, SP!Push
<1> QED BY <1>2, <1>3, <1>4

(* Each of Server's steps keeps its invariant, whatever is sent in it.     *)
LEMMA ServerStep ==
  ASSUME Srv!IInv, NEW rs \in Seq(Srv!Request), NEW es \in Seq(SP!OwnEvent),
         NEW bodies \in Seq(Replies) \ {<<>>}, NEW body \in Replies,
         \/ Srv!HandlePacket(rs, es) \/ Srv!HandleEvent(rs, es)
         \/ Srv!Answer(bodies) \/ Srv!Push(body)
  PROVE  Srv!IInv'
<1>1. SP!IInv /\ rs \in Seq(SP!Request)
  BY SameInvariant DEF Srv!Request, SP!Request
<1>2. SP!IInv'
  <2>1. CASE Srv!HandlePacket(rs, es)
    BY <1>1, <2>1, SameSteps, ServerAssumptions, SP!HandlePacketInv
  <2>2. CASE Srv!HandleEvent(rs, es)
    BY <1>1, <2>2, SameSteps, ServerAssumptions, SP!HandleEventInv
  <2>3. CASE Srv!Answer(bodies)
    BY <1>1, <2>3, SameSteps, ServerAssumptions, SP!AnswerInv
  <2>4. CASE Srv!Push(body)
    BY <1>1, <2>4, SameSteps, ServerAssumptions, SP!PushInv
  <2> QED BY <2>1, <2>2, <2>3, <2>4
<1>3. Srv!IInv' <=> SP!IInv'
  BY SameInvariantNext
<1> QED BY <1>2, <1>3

-----------------------------------------------------------------------------
(* What the steps do to what is said                                       *)

LEMMA Queues ==
  ASSUME Srv!IInv
  PROVE  /\ toServer \in Seq([seq : Nat, body : RequestBodies])
         /\ fromServer \in Seq([seq : Nat, body : Replies, first : BOOLEAN])
         /\ events \in Seq([seq : Nat, body : Replies])
         /\ Wire \in Seq(RequestBodies) /\ Arriving \in Seq(Replies) /\ Waiting \in Seq(Replies)
         /\ toServer = <<>> <=> Wire = <<>>
         /\ fromServer = <<>> <=> Arriving = <<>>
         /\ events = <<>> <=> Waiting = <<>>
         /\ events # <<>> => Content = Head(Waiting)
         /\ toServer # <<>> => Question = Head(Wire)
         /\ fromServer # <<>> => Head(fromServer).body = Head(Arriving)
<1>1. /\ toServer \in Seq([seq : 2..seq, body : RequestBodies]) /\ seq \in Nat
      /\ fromServer \in Seq([seq : Nat, body : Replies, first : BOOLEAN])
      /\ events \in Seq([seq : Nat, body : Replies])
  BY DEF Srv!IInv, Srv!TypeOK, Srv!Frame
<1>2. toServer \in Seq([seq : Nat, body : RequestBodies])
  <2> DEFINE Q == [seq : 2..seq, body : RequestBodies]
             T == [seq : Nat, body : RequestBodies]
  <2>1. Q \subseteq T
    BY <1>1
  <2>2. toServer \in Seq(Q)
    BY <1>1
  <2> HIDE DEF Q, T
  <2>3. toServer \in Seq(T)
    BY <2>1, <2>2, SeqMonotonic
  <2> QED BY <2>3 DEF T
<1>3. /\ \A x \in [seq : Nat, body : RequestBodies] : x.body \in RequestBodies
      /\ \A x \in [seq : Nat, body : Replies, first : BOOLEAN] : x.body \in Replies
      /\ \A x \in [seq : Nat, body : Replies] : x.body \in Replies
  OBVIOUS
<1>4. /\ Wire \in Seq(RequestBodies) /\ (toServer = <<>> <=> Wire = <<>>)
      /\ toServer # <<>> => Question = Head(Wire)
  BY <1>2, <1>3, BodiesOf, BodiesTail DEF Wire, Question
<1>5. /\ Arriving \in Seq(Replies) /\ (fromServer = <<>> <=> Arriving = <<>>)
      /\ fromServer # <<>> => Head(fromServer).body = Head(Arriving)
  BY <1>1, <1>3, BodiesOf, BodiesTail DEF Arriving
<1>6. /\ Waiting \in Seq(Replies) /\ (events = <<>> <=> Waiting = <<>>)
      /\ events # <<>> => Content = Head(Waiting)
  BY <1>1, <1>3, BodiesOf, BodiesTail DEF Waiting, Content
<1> QED BY <1>1, <1>2, <1>4, <1>5, <1>6

QueuesSaid ==
  Wire \in Seq(RequestBodies) /\ Arriving \in Seq(Replies) /\ Waiting \in Seq(Replies)

LEMMA QueuesNext ==
  Srv!IInv' => /\ Wire' \in Seq(RequestBodies)
               /\ Arriving' \in Seq(Replies) /\ Waiting' \in Seq(Replies)
<1>1. Srv!IInv => QueuesSaid
  BY Queues DEF QueuesSaid
<1>2. Srv!IInv' => QueuesSaid'
  BY <1>1, PTL
<1> QED BY <1>2 DEF QueuesSaid

(* What is sent: probes with smith's callback, the rest without.           *)
Sending(r) == IF r.type = "ProbeOrder" THEN AskCalling(r, "smith") ELSE Ask(r)
Asks(bs) == [i \in 1..Len(bs) |-> Sending(bs[i])]
Events(bs) == [i \in 1..Len(bs) |-> Event(bs[i])]

LEMMA Sent ==
  /\ \A bs \in Seq(RequestBodies) : Asks(bs) \in Seq(Srv!Request) /\ Bodies(Asks(bs)) = bs
  /\ \A bs \in Seq(Replies) : Events(bs) \in Seq(SP!OwnEvent) /\ Bodies(Events(bs)) = bs
<1>1. ASSUME NEW bs \in Seq(RequestBodies)
      PROVE  Asks(bs) \in Seq(Srv!Request) /\ Bodies(Asks(bs)) = bs
  <2>1. Len(bs) \in Nat /\ \A i \in 1..Len(bs) : bs[i] \in RequestBodies
    OBVIOUS
  <2>2. \A i \in 1..Len(bs) : Sending(bs[i]) \in Srv!Request /\ Sending(bs[i]).body = bs[i]
    BY <2>1 DEF Sending, Ask, AskCalling, Srv!Request
  <2>3. /\ Asks(bs) \in [1..Len(bs) -> Srv!Request]
        /\ \A i \in 1..Len(bs) : Asks(bs)[i].body = bs[i]
    BY <2>2 DEF Asks
  <2>4. Asks(bs) \in Seq(Srv!Request) /\ Len(Asks(bs)) = Len(bs)
    BY <2>1, <2>3
  <2>5. Bodies(Asks(bs)) = [i \in 1..Len(bs) |-> bs[i]]
    BY <2>3, <2>4 DEF Bodies
  <2>6. bs = [i \in 1..Len(bs) |-> bs[i]]
    OBVIOUS
  <2> QED BY <2>4, <2>5, <2>6
<1>2. ASSUME NEW bs \in Seq(Replies)
      PROVE  Events(bs) \in Seq(SP!OwnEvent) /\ Bodies(Events(bs)) = bs
  <2>1. Len(bs) \in Nat /\ \A i \in 1..Len(bs) : bs[i] \in Replies
    OBVIOUS
  <2>2. \A i \in 1..Len(bs) : Event(bs[i]) \in SP!OwnEvent /\ Event(bs[i]).body = bs[i]
    BY <2>1 DEF Event, SP!OwnEvent
  <2>3. /\ Events(bs) \in [1..Len(bs) -> SP!OwnEvent]
        /\ \A i \in 1..Len(bs) : Events(bs)[i].body = bs[i]
    BY <2>2 DEF Events
  <2>4. Events(bs) \in Seq(SP!OwnEvent) /\ Len(Events(bs)) = Len(bs)
    BY <2>1, <2>3
  <2>5. Bodies(Events(bs)) = [i \in 1..Len(bs) |-> bs[i]]
    BY <2>3, <2>4 DEF Bodies
  <2>6. bs = [i \in 1..Len(bs) |-> bs[i]]
    OBVIOUS
  <2> QED BY <2>4, <2>5, <2>6
<1> QED BY <1>1, <1>2

(* Requests are written behind those that are on the wire.                 *)
LEMMA SentMoves ==
  ASSUME Srv!IInv, NEW rs \in Seq(Srv!Request), toServer' = toServer \o Numbered(seq, rs)
  PROVE  Wire' = Wire \o Bodies(rs)
<1> DEFINE Q == [seq : Nat, body : RequestBodies]
           t == Numbered(seq, rs)
<1>1. t \in Seq(Q) /\ Bodies(t) = Bodies(rs)
  <2>1. seq \in Nat
    BY DEF Srv!IInv, Srv!TypeOK
  <2>2. Len(rs) \in Nat /\ \A i \in 1..Len(rs) : rs[i].body \in RequestBodies
    <3>1. Len(rs) \in Nat /\ \A i \in 1..Len(rs) : rs[i] \in Srv!Request
      OBVIOUS
    <3>2. \A x \in Srv!Request : x.body \in RequestBodies
      BY DEF Srv!Request
    <3> QED BY <3>1, <3>2
  <2>3. t \in [1..Len(rs) -> Q]
    BY <2>1, <2>2 DEF Numbered
  <2>4. t \in Seq(Q)
    <3> HIDE DEF t, Q
    <3> QED BY <2>2, <2>3
  <2> QED BY <2>4, BodiesNumbered
<1>2. toServer \in Seq(Q) /\ toServer' = toServer \o t
  BY Queues
<1> HIDE DEF t, Q
<1>3. Bodies(toServer \o t) = Bodies(toServer) \o Bodies(t)
  BY <1>1, <1>2, BodiesConcat
<1> QED BY <1>1, <1>2, <1>3 DEF Wire

LEMMA FrameMoves ==
  ASSUME Srv!IInv, NEW bs \in Seq(RequestBodies), fromServer # <<>>,
         Srv!HandlePacket(Asks(bs), <<>>)
  PROVE  /\ Srv!IInv'
         /\ Arriving # <<>> /\ Head(Arriving) \in Replies
         /\ Arriving' = Tail(Arriving)
         /\ Waiting' = Waiting \o (IF Head(Arriving) \in Unheard THEN <<>> ELSE <<Head(Arriving)>>)
         /\ Wire' = Wire \o bs
<1> DEFINE f == Head(fromServer)
           e == [seq |-> f.seq, body |-> f.body]
<1>0. Asks(bs) \in Seq(Srv!Request) /\ Bodies(Asks(bs)) = bs
  BY Sent
<1>1. Srv!IInv'
  <2>1. <<>> \in Seq(SP!OwnEvent)
    OBVIOUS
  <2>2. PICK bodies \in Seq(Replies) \ {<<>>} : TRUE
    <3>1. Msg("SEQUENCE") \in Replies
      BY DEF Replies, Unheard
    <3>2. <<Msg("SEQUENCE")>> \in Seq(Replies) \ {<<>>}
      BY <3>1
    <3> QED BY <3>2
  <2>3. Msg("SEQUENCE") \in Replies
    BY DEF Replies, Unheard
  <2> QED BY <1>0, <2>1, <2>2, <2>3, ServerStep
<1>2. /\ fromServer' = Tail(fromServer)
      /\ events' = (events \o <<>>) \o Srv!Posted(f)
      /\ toServer' = toServer \o Numbered(seq, Asks(bs))
  BY DEF Srv!HandlePacket, Srv!SendAll, Numbered
<1>3. Wire' = Wire \o bs
  BY <1>0, <1>2, SentMoves
<1>4. f \in [seq : Nat, body : Replies, first : BOOLEAN] /\ f.body = Head(Arriving)
      /\ Arriving # <<>> /\ Arriving \in Seq(Replies)
  BY Queues, HeadAndTail
<1>5. Arriving' = Tail(Arriving)
  BY <1>2, Queues, BodiesTail DEF Arriving
<1>6. Waiting' = Waiting \o (IF Head(Arriving) \in Unheard THEN <<>> ELSE <<Head(Arriving)>>)
  <2>1. events' = events \o Srv!Posted(f)
    BY <1>2, Queues, ConcatEmptySeq
  <2>2. CASE f.body \in Unheard
    <3>1. Srv!Posted(f) = <<>>
      BY <2>2 DEF Srv!Posted
    <3>2. events' = events
      BY <2>1, <3>1, Queues, ConcatEmptySeq
    <3>3. Waiting \o <<>> = Waiting
      BY Queues, ConcatEmptySeq
    <3> QED BY <1>4, <2>2, <3>2, <3>3 DEF Waiting
  <2>3. CASE f.body \notin Unheard
    <3>1. Srv!Posted(f) = <<e>> /\ e \in [seq : Nat, body : Replies] /\ e.body = f.body
      BY <1>4, <2>3 DEF Srv!Posted
    <3> HIDE DEF e
    <3>2. <<e>> \in Seq([seq : Nat, body : Replies]) /\ Bodies(<<e>>) = <<f.body>>
      BY <3>1 DEF Bodies
    <3>3. Bodies(events \o <<e>>) = Bodies(events) \o Bodies(<<e>>)
      BY <3>2, Queues, BodiesConcat
    <3> QED BY <1>4, <2>1, <2>3, <3>1, <3>2, <3>3 DEF Waiting
  <2> QED BY <2>2, <2>3
<1> QED BY <1>1, <1>3, <1>4, <1>5, <1>6, HeadAndTail

LEMMA EventMoves ==
  ASSUME Srv!IInv, NEW rs \in Seq(Srv!Request), NEW es \in Seq(SP!OwnEvent),
         Srv!HandleEvent(rs, es)
  PROVE  /\ Srv!IInv'
         /\ Waiting # <<>> /\ Content = Head(Waiting)
         /\ Waiting' = Tail(Waiting) \o Bodies(es)
         /\ Wire' = Wire \o Bodies(rs)
         /\ Arriving' = Arriving
<1>1. Srv!IInv'
  <2>2. PICK bodies \in Seq(Replies) \ {<<>>} : TRUE
    <3>1. Msg("SEQUENCE") \in Replies
      BY DEF Replies, Unheard
    <3>2. <<Msg("SEQUENCE")>> \in Seq(Replies) \ {<<>>}
      BY <3>1
    <3> QED BY <3>2
  <2>3. Msg("SEQUENCE") \in Replies
    BY DEF Replies, Unheard
  <2> QED BY <2>2, <2>3, ServerStep
<1>2. /\ events # <<>> /\ events' = Tail(events) \o es
      /\ toServer' = toServer \o Numbered(seq, rs)
      /\ fromServer' = fromServer
  BY DEF Srv!HandleEvent, Srv!SendAll, Numbered
<1>3. Waiting # <<>> /\ Content = Head(Waiting) /\ Arriving' = Arriving
  BY <1>2, Queues DEF Arriving
<1>4. Waiting' = Tail(Waiting) \o Bodies(es)
  <2> DEFINE Q == [seq : Nat, body : Replies]
             t == Tail(events)
  <2>1. t \in Seq(Q) /\ es \in Seq(Q) /\ Bodies(t) = Tail(Waiting)
    <3>1. SP!OwnEvent \subseteq Q
      BY DEF SP!OwnEvent
    <3>2. es \in Seq(Q)
      BY <3>1, SeqMonotonic
    <3>3. t \in Seq(Q)
      BY <1>2, Queues, HeadAndTail
    <3>4. Bodies(t) = Tail(Waiting)
      BY <1>2, Queues, BodiesTail DEF Waiting
    <3> QED BY <3>2, <3>3, <3>4
  <2> HIDE DEF t, Q
  <2>2. Bodies(t \o es) = Bodies(t) \o Bodies(es)
    BY <2>1, BodiesConcat
  <2> QED BY <1>2, <2>1, <2>2 DEF Waiting, t
<1>5. Wire' = Wire \o Bodies(rs)
  BY <1>2, SentMoves
<1> QED BY <1>1, <1>3, <1>4, <1>5

LEMMA AnswerMoves ==
  ASSUME Srv!IInv, NEW bodies \in Seq(Replies) \ {<<>>}, Srv!Answer(bodies)
  PROVE  /\ Srv!IInv'
         /\ Wire # <<>> /\ Question = Head(Wire)
         /\ Wire' = Tail(Wire)
         /\ Arriving' = Arriving \o bodies
         /\ Waiting' = Waiting
<1> DEFINE F == [seq : Nat, body : Replies, first : BOOLEAN]
           new == [i \in 1..Len(bodies) |->
                     [seq |-> Head(toServer).seq, body |-> bodies[i], first |-> i = 1]]
<1>1. Srv!IInv'
  <2>1. <<>> \in Seq(Srv!Request) /\ <<>> \in Seq(SP!OwnEvent)
    OBVIOUS
  <2>2. Msg("SEQUENCE") \in Replies
    BY DEF Replies, Unheard
  <2> QED BY <2>1, <2>2, ServerStep
<1>2. /\ toServer # <<>> /\ toServer' = Tail(toServer)
      /\ fromServer' = fromServer \o new
      /\ events' = events
  BY DEF Srv!Answer
<1>3. Wire # <<>> /\ Question = Head(Wire) /\ Wire' = Tail(Wire) /\ Waiting' = Waiting
  BY <1>2, Queues, BodiesTail DEF Wire, Waiting
<1>4. new \in Seq(F) /\ Bodies(new) = bodies
  <2>1. Head(toServer).seq \in Nat
    <3>1. Head(toServer) \in [seq : Nat, body : RequestBodies]
      BY <1>2, Queues, HeadAndTail
    <3> QED BY <3>1
  <2>2. Len(bodies) \in Nat /\ \A i \in 1..Len(bodies) : bodies[i] \in Replies
    OBVIOUS
  <2>3. new \in [1..Len(bodies) -> F] /\ \A i \in 1..Len(bodies) : new[i].body = bodies[i]
    BY <2>1, <2>2
  <2> HIDE DEF new, F
  <2>4. new \in Seq(F) /\ Len(new) = Len(bodies)
    BY <2>2, <2>3
  <2>5. Bodies(new) = [i \in 1..Len(bodies) |-> bodies[i]]
    BY <2>3, <2>4 DEF Bodies
  <2>6. bodies = [i \in 1..Len(bodies) |-> bodies[i]]
    OBVIOUS
  <2> QED BY <2>4, <2>5, <2>6
<1>5. fromServer \in Seq(F)
  BY Queues
<1> HIDE DEF new, F
<1>6. Bodies(fromServer \o new) = Bodies(fromServer) \o Bodies(new)
  BY <1>4, <1>5, BodiesConcat
<1> QED BY <1>1, <1>2, <1>3, <1>4, <1>6 DEF Arriving

LEMMA PushMoves ==
  ASSUME Srv!IInv, NEW body \in Replies, Srv!Push(body)
  PROVE  /\ Srv!IInv'
         /\ Wire' = Wire
         /\ Arriving' = Arriving \o <<body>>
         /\ Waiting' = Waiting
<1> DEFINE F == [seq : Nat, body : Replies, first : BOOLEAN]
           f == [seq |-> 0, body |-> body, first |-> FALSE]
<1>1. Srv!IInv'
  <2>1. <<>> \in Seq(Srv!Request) /\ <<>> \in Seq(SP!OwnEvent)
    OBVIOUS
  <2>2. <<body>> \in Seq(Replies) \ {<<>>}
    OBVIOUS
  <2> QED BY <2>1, <2>2, ServerStep
<1>2. fromServer' = Append(fromServer, f) /\ toServer' = toServer /\ events' = events
  BY DEF Srv!Push
<1>3. fromServer \in Seq(F) /\ f \in F /\ f.body = body
  BY Queues
<1> HIDE DEF f, F
<1>4. <<f>> \in Seq(F) /\ Append(fromServer, f) = fromServer \o <<f>> /\ Bodies(<<f>>) = <<body>>
  BY <1>3, AppendContents DEF Bodies
<1>5. Bodies(fromServer \o <<f>>) = Bodies(fromServer) \o Bodies(<<f>>)
  BY <1>3, <1>4, BodiesConcat
<1> QED BY <1>1, <1>2, <1>4, <1>5 DEF Arriving, Wire, Waiting

-----------------------------------------------------------------------------
(* Requests, frames and events                                             *)

LEMMA SaidToServer ==
  \A r \in RequestBodies :
    /\ r.type \in {"GetObjectIDs", "GetObjects", "GetDescs", "GetDescPage", "GetOrder",
                   "ProbeOrder", "InsertOrder"}
    /\ r.type \in {"GetObjects", "GetDescs"} => r.ids \in Seq(Nat)
    /\ r.type = "GetDescPage" => r.pos \in Nat
    /\ r.type = "GetOrder" => r.id \in Planets /\ r.slots \in Seq(Nat)
    /\ r.type \in {"ProbeOrder", "InsertOrder"} => r.id \in Planets /\ r.order \in Types
<1> SUFFICES ASSUME NEW r \in RequestBodies
             PROVE
    /\ r.type \in {"GetObjectIDs", "GetObjects", "GetDescs", "GetDescPage", "GetOrder",
                   "ProbeOrder", "InsertOrder"}
    /\ r.type \in {"GetObjects", "GetDescs"} => r.ids \in Seq(Nat)
    /\ r.type = "GetDescPage" => r.pos \in Nat
    /\ r.type = "GetOrder" => r.id \in Planets /\ r.slots \in Seq(Nat)
    /\ r.type \in {"ProbeOrder", "InsertOrder"} => r.id \in Planets /\ r.order \in Types
  OBVIOUS
<1>1. CASE r = Msg("GetObjectIDs")
  BY <1>1 DEF Msg
<1>2. CASE r \in [type : {"GetObjects", "GetDescs"}, ids : Seq(Nat)]
  BY <1>2
<1>3. CASE r \in [type : {"GetDescPage"}, pos : Nat]
  BY <1>3
<1>4. CASE r \in [type : {"GetOrder"}, id : Planets, slots : Seq(Nat)]
  BY <1>4
<1>5. CASE r \in [type : {"ProbeOrder", "InsertOrder"}, id : Planets, order : Types]
  BY <1>5
<1> QED BY <1>1, <1>2, <1>3, <1>4, <1>5 DEF RequestBodies

PlainTypes == {"SEQUENCE", "OK", "Connected", "NewTurn", "Fail"}

LEMMA SaidToClient ==
  \A r \in Replies :
    /\ r.type \in PlainTypes \cup {"ListOfObjects", "ListOfDescs", "Desc", "Object", "Order",
                                   "ObjectNew", "ObjectChanged", "PlanetNoOrders"}
    /\ r.type \in {"SEQUENCE", "OK"} <=> r \in Unheard
    /\ r.type = "ListOfObjects" => r.updated \in [Planets -> Nat]
    /\ r.type = "ListOfDescs" => r.ids \in Seq(Types) /\ r.next \in Nat
    /\ r.type = "Desc" => r.id \in Types
    /\ r.type = "Object" => r.id \in Planets /\ r.norders \in Nat /\ r.updated \in Nat
    /\ r.type = "Order" => /\ r.id \in Planets /\ r.slot \in Int
                           /\ r.order \in [no : Nat, type : Types]
    /\ r.type \in {"ObjectNew", "ObjectChanged", "PlanetNoOrders"} => r.id \in Planets
<1> SUFFICES ASSUME NEW r \in Replies
             PROVE
    /\ r.type \in PlainTypes \cup {"ListOfObjects", "ListOfDescs", "Desc", "Object", "Order",
                                   "ObjectNew", "ObjectChanged", "PlanetNoOrders"}
    /\ r.type \in {"SEQUENCE", "OK"} <=> r \in Unheard
    /\ r.type = "ListOfObjects" => r.updated \in [Planets -> Nat]
    /\ r.type = "ListOfDescs" => r.ids \in Seq(Types) /\ r.next \in Nat
    /\ r.type = "Desc" => r.id \in Types
    /\ r.type = "Object" => r.id \in Planets /\ r.norders \in Nat /\ r.updated \in Nat
    /\ r.type = "Order" => /\ r.id \in Planets /\ r.slot \in Int
                           /\ r.order \in [no : Nat, type : Types]
    /\ r.type \in {"ObjectNew", "ObjectChanged", "PlanetNoOrders"} => r.id \in Planets
  OBVIOUS
<1> USE DEF PlainTypes, Unheard
<1>1. CASE r \in Unheard \cup {Msg("Connected"), Msg("NewTurn"), Msg("Fail")}
  BY <1>1 DEF Msg
<1>2. CASE r \in [type : {"ListOfObjects"}, updated : [Planets -> Nat]]
  BY <1>2 DEF Msg
<1>3. CASE r \in [type : {"ListOfDescs"}, ids : Seq(Types), next : Nat]
  BY <1>3 DEF Msg
<1>4. CASE r \in [type : {"Desc"}, id : Types]
  BY <1>4 DEF Msg
<1>5. CASE r \in [type : {"Object"}, id : Planets, norders : Nat, updated : Nat]
  BY <1>5 DEF Msg
<1>6. CASE r \in [type : {"Order"}, id : Planets, slot : Int, order : [no : Nat, type : Types]]
  BY <1>6 DEF Msg
<1>7. CASE r \in [type : {"ObjectNew", "ObjectChanged", "PlanetNoOrders"}, id : Planets]
  BY <1>7 DEF Msg
<1> QED BY <1>1, <1>2, <1>3, <1>4, <1>5, <1>6, <1>7 DEF Replies

(* What is said is one of these.                                           *)
LEMMA Says ==
  /\ Msg("GetObjectIDs") \in RequestBodies
  /\ \A ids \in Seq(Nat) : GetObjects(ids) \in RequestBodies /\ GetDescs(ids) \in RequestBodies
  /\ \A pos \in Nat : GetDescPage(pos) \in RequestBodies
  /\ \A p \in Planets, slots \in Seq(Nat) : GetOrder(p, slots) \in RequestBodies
  /\ \A p \in Planets, type \in Types : /\ ProbeOrder(p, type) \in RequestBodies
                                        /\ InsertOrder(p, type) \in RequestBodies
  /\ \A type \in PlainTypes : Msg(type) \in Replies
  /\ \A updated \in [Planets -> Nat] : ListOfObjects(updated) \in Replies
  /\ \A ids \in Seq(Types), next \in Nat : ListOfDescs(ids, next) \in Replies
  /\ \A t \in Types : Desc(t) \in Replies
  /\ \A p \in Planets, n \in Nat, updated \in Nat : Object(p, n, updated) \in Replies
  /\ \A p \in Planets, slot \in Int, order \in [no : Nat, type : Types] :
       Order(p, slot, order) \in Replies
  /\ \A p \in Planets, type \in {"ObjectNew", "ObjectChanged", "PlanetNoOrders"} :
       AboutObject(type, p) \in Replies
<1>1. /\ Msg("GetObjectIDs") \in RequestBodies
      /\ \A ids \in Seq(Nat) : GetObjects(ids) \in RequestBodies /\ GetDescs(ids) \in RequestBodies
      /\ \A pos \in Nat : GetDescPage(pos) \in RequestBodies
  BY DEF RequestBodies, GetObjects, GetDescs, GetDescPage
<1>2. /\ \A p \in Planets, slots \in Seq(Nat) : GetOrder(p, slots) \in RequestBodies
      /\ \A p \in Planets, type \in Types : /\ ProbeOrder(p, type) \in RequestBodies
                                            /\ InsertOrder(p, type) \in RequestBodies
  BY DEF RequestBodies, GetOrder, ProbeOrder, InsertOrder
<1>3. /\ \A type \in PlainTypes : Msg(type) \in Replies
      /\ \A updated \in [Planets -> Nat] : ListOfObjects(updated) \in Replies
      /\ \A ids \in Seq(Types), next \in Nat : ListOfDescs(ids, next) \in Replies
      /\ \A t \in Types : Desc(t) \in Replies
  BY DEF Replies, Unheard, PlainTypes, ListOfObjects, ListOfDescs, Desc
<1>4. /\ \A p \in Planets, n \in Nat, updated \in Nat : Object(p, n, updated) \in Replies
      /\ \A p \in Planets, slot \in Int, order \in [no : Nat, type : Types] :
           Order(p, slot, order) \in Replies
      /\ \A p \in Planets, type \in {"ObjectNew", "ObjectChanged", "PlanetNoOrders"} :
           AboutObject(type, p) \in Replies
  BY DEF Replies, Object, Order, AboutObject
<1> QED BY <1>1, <1>2, <1>3, <1>4

-----------------------------------------------------------------------------
(* What the steps do to what is under way                                  *)

(* Nothing to send: a name, where the provers see too much in <<>>.        *)
Nothing == <<>>

LEMMA NothingSent ==
  /\ Asks(Nothing) = <<>> /\ Events(Nothing) = <<>>
  /\ \A S : Nothing \in Seq(S)
  /\ ToSet(Nothing) = {}
  /\ \A X : Count(Nothing, X) = 0
  /\ \A X, Y : Guarded(Nothing, X, Y)
<1>1. \A S : Nothing \in Seq(S)
  BY DEF Nothing
<1>2. \A X : Count(Nothing, X) = 0
  BY EmptyContents, FS_EmptySet DEF Nothing, Count
<1>3. Asks(Nothing) = <<>> /\ Events(Nothing) = <<>>
  BY DEF Nothing, Asks, Events
<1>4. \A X, Y : Guarded(Nothing, X, Y)
  BY DEF Nothing, Guarded
<1> QED BY <1>1, <1>2, <1>3, <1>4, EmptyContents DEF Nothing

LEMMA OneSent ==
  /\ \A S : \A r \in S : <<r>> \in Seq(S)
  /\ \A r : /\ Asks(<<r>>) = <<Sending(r)>> /\ Events(<<r>>) = <<Event(r)>>
            /\ ToSet(<<r>>) = {r}
            /\ \A X : Count(<<r>>, X) = IF r \in X THEN 1 ELSE 0
<1>1. ASSUME NEW r PROVE Asks(<<r>>) = <<Sending(r)>> /\ Events(<<r>>) = <<Event(r)>>
  BY DEF Asks, Events
<1>2. ASSUME NEW r
      PROVE  ToSet(<<r>>) = {r} /\ \A X : Count(<<r>>, X) = IF r \in X THEN 1 ELSE 0
  BY SingleContents, SingleCount DEF Count
<1>3. \A S : \A r \in S : <<r>> \in Seq(S)
  OBVIOUS
<1> QED BY <1>1, <1>2, <1>3, Zenon

(* One list guarded behind another.                                        *)
LEMMA GuardedConcat ==
  ASSUME NEW S, NEW s \in Seq(S), NEW t \in Seq(S), NEW X, NEW Y
  PROVE  Guarded(s \o t, X, Y) <=> Guarded(s, X, Y) /\ (Has(s, Y) \/ Guarded(t, X, Y))
<1> DEFINE m == Len(s)
           n == Len(t)
           u == s \o t
<1>1. /\ u \in Seq(S) /\ Len(u) = m + n /\ m \in Nat /\ n \in Nat
      /\ \A i \in 1..(m + n) : u[i] = IF i <= m THEN s[i] ELSE t[i - m]
  BY ConcatProperties, LenProperties
<1>2. ToSet(s) = {s[i] : i \in 1..m}
  BY Contents
<1> HIDE DEF m, n, u
<1>3. \A i \in 1..m : i \in 1..(m + n) /\ u[i] = s[i]
  BY <1>1
<1>4. \A i \in 1..n : m + i \in 1..(m + n) /\ u[m + i] = t[i]
  <2> SUFFICES ASSUME NEW i \in 1..n PROVE m + i \in 1..(m + n) /\ u[m + i] = t[i]
    OBVIOUS
  <2>1. m + i \in 1..(m + n) /\ ~(m + i <= m) /\ (m + i) - m = i
    BY <1>1
  <2> QED BY <1>1, <2>1
<1>5. ASSUME Guarded(u, X, Y)
      PROVE  Guarded(s, X, Y) /\ (Has(s, Y) \/ Guarded(t, X, Y))
  <2>1. \A j \in 1..(m + n) : u[j] \in X => \E i \in 1..(j - 1) : u[i] \in Y
    BY <1>1, <1>5 DEF Guarded
  <2>2. ASSUME NEW j \in 1..m, s[j] \in X PROVE \E i \in 1..(j - 1) : s[i] \in Y
    <3>1. PICK i \in 1..(j - 1) : u[i] \in Y
      BY <1>3, <2>1, <2>2
    <3>2. i \in 1..m
      BY <1>1
    <3> QED BY <1>3, <3>1, <3>2
  <2>3. ASSUME ~Has(s, Y), NEW j \in 1..n, t[j] \in X PROVE \E i \in 1..(j - 1) : t[i] \in Y
    <3>1. PICK i \in 1..(m + j - 1) : u[i] \in Y
      <4>0. PICK k : k = m + j
        OBVIOUS
      <4>1. k \in 1..(m + n) /\ u[k] \in X
        BY <1>4, <2>3, <4>0
      <4>2. PICK i \in 1..(k - 1) : u[i] \in Y
        BY ONLY <2>1, <4>1
      <4>3. i \in 1..(m + j - 1)
        BY <1>1, <4>0
      <4> QED BY <4>2, <4>3
    <3>2. ~(i \in 1..m)
      BY <1>2, <1>3, <2>3, <3>1 DEF Has
    <3>3. i - m \in 1..(j - 1) /\ i \in 1..(m + n) /\ ~(i <= m)
      BY <1>1, <3>2
    <3> QED BY <1>1, <3>1, <3>3
  <2> QED BY <2>2, <2>3 DEF Guarded, m, n
<1>6. ASSUME Guarded(s, X, Y), Has(s, Y) \/ Guarded(t, X, Y)
      PROVE  Guarded(u, X, Y)
  <2> SUFFICES ASSUME NEW j \in 1..(m + n), u[j] \in X PROVE \E i \in 1..(j - 1) : u[i] \in Y
    BY <1>1 DEF Guarded
  <2>1. CASE j <= m
    <3>1. j \in 1..m /\ s[j] \in X
      BY <1>1, <2>1
    <3>2. PICK i \in 1..(j - 1) : s[i] \in Y
      BY <1>6, <3>1 DEF Guarded, m
    <3>3. i \in 1..m
      BY <1>1, <2>1
    <3> QED BY <1>3, <3>2, <3>3
  <2>2. CASE ~(j <= m)
    <3>1. j - m \in 1..n /\ t[j - m] \in X
      BY <1>1, <2>2
    <3>2. CASE Has(s, Y)
      <4>1. PICK i \in 1..m : s[i] \in Y
        BY <1>2, <3>2 DEF Has
      <4>2. i \in 1..(j - 1)
        BY <1>1, <2>2
      <4> QED BY <1>3, <4>1, <4>2
    <3>3. CASE Guarded(t, X, Y)
      <4>1. PICK i \in 1..(j - m - 1) : t[i] \in Y
        BY <3>1, <3>3 DEF Guarded, n
      <4>2. i \in 1..n /\ m + i \in 1..(j - 1)
        BY <1>1, <3>1
      <4> QED BY <1>4, <4>1, <4>2
    <3> QED BY <1>6, <3>2, <3>3
  <2> QED BY <2>1, <2>2
<1> QED BY <1>5, <1>6 DEF u

LEMMA GuardedWithout ==
  ASSUME NEW S, NEW s \in Seq(S), NEW X, NEW Y, ToSet(s) \cap X = {}
  PROVE  Guarded(s, X, Y)
<1>1. ToSet(s) = {s[i] : i \in 1..Len(s)}
  BY Contents
<1> QED BY <1>1 DEF Guarded

LEMMA GuardedFrom ==
  ASSUME NEW S, NEW s \in Seq(S), s # <<>>, NEW X, NEW Y, Guarded(s, X, Y)
  PROVE  Head(s) \notin X /\ (Head(s) \in Y \/ Guarded(Tail(s), X, Y))
<1> DEFINE h == <<Head(s)>>
           t == Tail(s)
<1>1. h \in Seq(S) /\ t \in Seq(S) /\ s = h \o t /\ ToSet(h) = {Head(s)}
  BY HeadAndTail, SingleContents
<1>2. Len(h) = 1 /\ h[1] = Head(s)
  OBVIOUS
<1> HIDE DEF h, t
<1>3. Guarded(h, X, Y) /\ (Has(h, Y) \/ Guarded(t, X, Y))
  BY <1>1, GuardedConcat
<1>4. Head(s) \notin X
  BY <1>2, <1>3 DEF Guarded
<1>5. Has(h, Y) => Head(s) \in Y
  BY <1>1 DEF Has
<1> QED BY <1>3, <1>4, <1>5 DEF t

(* What stays under way when the oldest event is handled.                  *)
Left == ToSet(Wire) \cup ToSet(Arriving) \cup ToSet(Tail(Waiting))

LEMMA EventEffect ==
  ASSUME Srv!IInv, NEW bs \in Seq(RequestBodies), NEW cs \in Seq(Replies),
         Srv!HandleEvent(Asks(bs), Events(cs))
  PROVE  /\ Srv!IInv'
         /\ Waiting # <<>> /\ Content = Head(Waiting) /\ Content \in Replies
         /\ Content \in Passing /\ Content \in UnderWay
         /\ Arriving' = Arriving
         /\ Waiting' = Tail(Waiting) \o cs
         /\ Wire' = Wire \o bs
         /\ ToSet(Wire') = ToSet(Wire) \cup ToSet(bs)
         /\ ToSet(Waiting) = {Content} \cup ToSet(Tail(Waiting))
         /\ ToSet(Waiting') = ToSet(Tail(Waiting)) \cup ToSet(cs)
         /\ Passing' \subseteq Passing \cup ToSet(cs)
         /\ UnderWay = {Content} \cup Left
         /\ UnderWay' = Left \cup ToSet(bs) \cup ToSet(cs)
<1>1. /\ Asks(bs) \in Seq(Srv!Request) /\ Bodies(Asks(bs)) = bs
      /\ Events(cs) \in Seq(SP!OwnEvent) /\ Bodies(Events(cs)) = cs
  BY Sent
<1>2. /\ Srv!IInv'
      /\ Waiting # <<>> /\ Content = Head(Waiting)
      /\ Waiting' = Tail(Waiting) \o cs
      /\ Wire' = Wire \o bs
      /\ Arriving' = Arriving
  BY <1>1, EventMoves
<1>3. Waiting \in Seq(Replies) /\ Wire \in Seq(RequestBodies)
  BY Queues
<1>4. /\ ToSet(Waiting) = {Content} \cup ToSet(Tail(Waiting))
      /\ ToSet(Waiting') = ToSet(Tail(Waiting)) \cup ToSet(cs)
  BY <1>2, <1>3, StepCount
<1>5. ToSet(Wire') = ToSet(Wire) \cup ToSet(bs)
  BY <1>2, <1>3, ConcatContents
<1>6. Content \in Replies
  BY <1>2, <1>3, HeadAndTail
<1>7. Passing' = ToSet(Arriving) \cup ToSet(Waiting') /\ UnderWay' = ToSet(Wire') \cup Passing'
  BY <1>2 DEF Passing, UnderWay
<1>8. /\ Content \in Passing /\ Content \in UnderWay
      /\ Passing' \subseteq Passing \cup ToSet(cs)
      /\ UnderWay = {Content} \cup Left
      /\ UnderWay' = Left \cup ToSet(bs) \cup ToSet(cs)
  BY <1>4, <1>5, <1>7 DEF Passing, UnderWay, Left
<1> QED BY <1>2, <1>4, <1>5, <1>6, <1>8

LEMMA EventErrands ==
  ASSUME Srv!IInv, NEW bs \in Seq(RequestBodies), NEW cs \in Seq(Replies),
         Srv!HandleEvent(Asks(bs), Events(cs)), NEW p
  PROVE  /\ {Errands(p), Errands(p)', Count(bs, AskedOf(p)), Count(cs, HeardOf(p))} \subseteq Nat
         /\ Errands(p)' + (IF Content \in HeardOf(p) THEN 1 ELSE 0)
              = Errands(p) + Count(bs, AskedOf(p)) + Count(cs, HeardOf(p))
<1> DEFINE A == AskedOf(p)
           X == HeardOf(p)
           Z == AnsweredOf(p)
<1>1. /\ Waiting # <<>> /\ Content = Head(Waiting)
      /\ Waiting' = Tail(Waiting) \o cs
      /\ Wire' = Wire \o bs
      /\ Arriving' = Arriving /\ Srv!IInv'
  BY EventEffect
<1>2. Wire \in Seq(RequestBodies) /\ Arriving \in Seq(Replies) /\ Waiting \in Seq(Replies)
  BY Queues
<1>3. Wire' \in Seq(RequestBodies) /\ Waiting' \in Seq(Replies)
  BY <1>1, QueuesNext
<1>4. /\ Count(Wire, A) \in Nat /\ Count(Wire', A) \in Nat /\ Count(bs, A) \in Nat
      /\ Count(Arriving, Z) \in Nat /\ Count(cs, X) \in Nat
      /\ Count(Waiting, X) \in Nat /\ Count(Waiting', X) \in Nat
  BY <1>2, <1>3, PlacesFinite DEF Count
<1>5. Count(Wire', A) = Count(Wire, A) + Count(bs, A)
  BY <1>1, <1>2, ConcatCount DEF Count
<1>6. Count(Waiting', X) + (IF Content \in X THEN 1 ELSE 0) = Count(Waiting, X) + Count(cs, X)
  <2>1. PICK q \in Seq(Replies) : q = Waiting /\ q # <<>>
    BY <1>1, <1>2
  <2>2. cs \in Seq(Replies)
    OBVIOUS
  <2>3. Count(Tail(q) \o cs, X) + (IF Head(q) \in X THEN 1 ELSE 0) = Count(q, X) + Count(cs, X)
    BY ONLY <2>1, <2>2, StepCount DEF Count
  <2> QED BY ONLY <1>1, <2>1, <2>3
<1>7. /\ Errands(p) = Count(Wire, A) + Count(Arriving, Z) + Count(Waiting, X)
      /\ Errands(p)' = Count(Wire', A) + Count(Arriving, Z) + Count(Waiting', X)
  BY <1>1 DEF Errands, AskedOf, AnsweredOf, HeardOf, Probed, Lists
<1> HIDE DEF A, X, Z
<1> PICK i \in Nat : i = IF Content \in X THEN 1 ELSE 0
  OBVIOUS
<1>8. PICK w \in Nat, w2 \in Nat, n \in Nat, a \in Nat, e \in Nat, e2 \in Nat, m \in Nat :
        /\ w = Count(Wire, A) /\ w2 = Count(Wire', A) /\ n = Count(bs, A)
        /\ a = Count(Arriving, Z) /\ m = Count(cs, X)
        /\ e = Count(Waiting, X) /\ e2 = Count(Waiting', X)
  BY <1>4
<1>9. PICK u, v : u = Errands(p) /\ v = Errands(p)'
  OBVIOUS
<1>10. w2 = w + n /\ e2 + i = e + m /\ u = w + a + e /\ v = w2 + a + e2
  BY <1>5, <1>6, <1>7, <1>8, <1>9
<1>11. u \in Nat /\ v \in Nat /\ v + i = u + n + m
  BY ONLY <1>10, i \in Nat, w \in Nat, w2 \in Nat, n \in Nat, a \in Nat, e \in Nat, e2 \in Nat,
          m \in Nat
<1> QED BY <1>8, <1>9, <1>11 DEF A, X

LEMMA EventBehind ==
  ASSUME Srv!IInv, NEW bs \in Seq(RequestBodies), NEW cs \in Seq(Replies),
         Srv!HandleEvent(Asks(bs), Events(cs)), NEW X, NEW Y, Behind(X, Y),
         Content \notin Y, ToSet(cs) \cap X = {},
         ToSet(bs) \cap X = {} \/ IsUnderWay(Y)
  PROVE  Behind(X, Y)' /\ Content \notin X
<1> DEFINE e == Tail(Waiting)
<1>1. /\ Waiting # <<>> /\ Content = Head(Waiting)
      /\ Waiting' = e \o cs
      /\ Wire' = Wire \o bs
      /\ Arriving' = Arriving
      /\ ToSet(Waiting) = {Content} \cup ToSet(e)
      /\ ToSet(Waiting') = ToSet(e) \cup ToSet(cs)
      /\ ToSet(Wire') = ToSet(Wire) \cup ToSet(bs)
  BY EventEffect
<1>2. Wire \in Seq(RequestBodies) /\ Arriving \in Seq(Replies) /\ Waiting \in Seq(Replies)
      /\ e \in Seq(Replies)
  BY <1>1, Queues, HeadAndTail
<1>3. Content \notin X /\ Guarded(e, X, Y)
  BY <1>1, <1>2, GuardedFrom DEF Behind
<1>4. Guarded(Waiting', X, Y)
  <2>1. Guarded(cs, X, Y)
    BY GuardedWithout
  <2> HIDE DEF e
  <2> QED BY <1>1, <1>2, <1>3, <2>1, GuardedConcat
<1>5. Has(Waiting, Y) => Has(Waiting', Y)
  BY <1>1 DEF Has
<1>6. ASSUME ~Has(Waiting, Y), ~Has(Arriving, Y)
      PROVE  Guarded(Wire', X, Y)
  <2>1. Guarded(Wire, X, Y)
    BY <1>6 DEF Behind
  <2>2. Has(Wire, Y) \/ Guarded(bs, X, Y)
    <3>1. CASE ToSet(bs) \cap X = {}
      BY <3>1, GuardedWithout
    <3>2. CASE IsUnderWay(Y)
      BY <1>6, <3>2 DEF IsUnderWay, UnderWay, Passing, Has
    <3> QED BY <3>1, <3>2
  <2> QED BY <1>1, <1>2, <2>1, <2>2, GuardedConcat
<1> QED BY <1>1, <1>3, <1>4, <1>5, <1>6 DEF Behind

LEMMA AnswerEffect ==
  ASSUME Srv!IInv, NEW bodies \in Seq(Replies) \ {<<>>}, Srv!Answer(bodies)
  PROVE  /\ Srv!IInv'
         /\ Wire # <<>> /\ Question = Head(Wire) /\ Wire' = Tail(Wire)
         /\ Question \in RequestBodies /\ Question \in ToSet(Wire) /\ Question \in UnderWay
         /\ ToSet(Wire) = ToSet(Wire') \cup {Question}
         /\ Arriving' = Arriving \o bodies
         /\ ToSet(Arriving') = ToSet(Arriving) \cup ToSet(bodies)
         /\ Waiting' = Waiting
         /\ Passing' = Passing \cup ToSet(bodies)
         /\ UnderWay' \subseteq UnderWay \cup ToSet(bodies)
         /\ UnderWay \cup ToSet(bodies) \subseteq UnderWay' \cup {Question}
         /\ ToSet(bodies) \subseteq UnderWay'
<1>1. /\ Srv!IInv'
      /\ Wire # <<>> /\ Question = Head(Wire)
      /\ Wire' = Tail(Wire)
      /\ Arriving' = Arriving \o bodies
      /\ Waiting' = Waiting
  BY AnswerMoves
<1>2. Arriving \in Seq(Replies) /\ Wire \in Seq(RequestBodies)
  BY Queues
<1>3. /\ Question \in RequestBodies
      /\ ToSet(Wire) = ToSet(Wire') \cup {Question}
  BY <1>1, <1>2, HeadAndTail
<1>4. ToSet(Arriving') = ToSet(Arriving) \cup ToSet(bodies)
  BY <1>1, <1>2, ConcatContents
<1>5. Passing' = Passing \cup ToSet(bodies)
  BY <1>1, <1>4 DEF Passing
<1>6. /\ UnderWay = ToSet(Wire') \cup {Question} \cup Passing
      /\ UnderWay' = ToSet(Wire') \cup Passing \cup ToSet(bodies)
  BY <1>3, <1>5 DEF UnderWay
<1> QED BY <1>1, <1>3, <1>4, <1>5, <1>6

LEMMA AnswerErrands ==
  ASSUME Srv!IInv, NEW bodies \in Seq(Replies) \ {<<>>}, Srv!Answer(bodies), NEW p
  PROVE  /\ {Errands(p), Errands(p)', Count(bodies, AnsweredOf(p))} \subseteq Nat
         /\ Errands(p)' + (IF Question \in AskedOf(p) THEN 1 ELSE 0)
              = Errands(p) + Count(bodies, AnsweredOf(p))
<1> DEFINE A == AskedOf(p)
           X == HeardOf(p)
           Z == AnsweredOf(p)
<1>1. /\ Wire # <<>> /\ Question = Head(Wire)
      /\ Wire' = Tail(Wire)
      /\ Arriving' = Arriving \o bodies
      /\ Waiting' = Waiting /\ Srv!IInv'
  BY AnswerMoves
<1>2. Arriving \in Seq(Replies) /\ Wire \in Seq(RequestBodies) /\ Waiting \in Seq(Replies)
  BY Queues
<1>3. Wire' \in Seq(RequestBodies) /\ Arriving' \in Seq(Replies)
  BY <1>1, QueuesNext
<1>4. /\ Count(Wire, A) \in Nat /\ Count(Wire', A) \in Nat /\ Count(bodies, Z) \in Nat
      /\ Count(Arriving, Z) \in Nat /\ Count(Arriving', Z) \in Nat /\ Count(Waiting, X) \in Nat
  BY <1>2, <1>3, PlacesFinite DEF Count
<1>5. Count(Wire, A) = (IF Question \in A THEN 1 ELSE 0) + Count(Wire', A)
  BY <1>1, <1>2, TailCount DEF Count
<1>6. Count(Arriving', Z) = Count(Arriving, Z) + Count(bodies, Z)
  BY <1>1, <1>2, ConcatCount DEF Count
<1>7. /\ Errands(p) = Count(Wire, A) + Count(Arriving, Z) + Count(Waiting, X)
      /\ Errands(p)' = Count(Wire', A) + Count(Arriving', Z) + Count(Waiting, X)
  BY <1>1 DEF Errands, AskedOf, AnsweredOf, HeardOf, Probed, Lists
<1> HIDE DEF A, X, Z
<1> PICK i \in Nat : i = IF Question \in A THEN 1 ELSE 0
  OBVIOUS
<1>8. PICK w \in Nat, w2 \in Nat, n \in Nat, a \in Nat, a2 \in Nat, e \in Nat :
        /\ w = Count(Wire, A) /\ w2 = Count(Wire', A) /\ n = Count(bodies, Z)
        /\ a = Count(Arriving, Z) /\ a2 = Count(Arriving', Z) /\ e = Count(Waiting, X)
  BY <1>4
<1>9. PICK u, v : u = Errands(p) /\ v = Errands(p)'
  OBVIOUS
<1>10. w = i + w2 /\ a2 = a + n /\ u = w + a + e /\ v = w2 + a2 + e
  BY <1>5, <1>6, <1>7, <1>8, <1>9
<1>11. u \in Nat /\ v \in Nat /\ v + i = u + n
  BY ONLY <1>10, i \in Nat, w \in Nat, w2 \in Nat, n \in Nat, a \in Nat, a2 \in Nat, e \in Nat
<1> QED BY <1>8, <1>9, <1>11 DEF A, Z

LEMMA AnswerBehind ==
  ASSUME Srv!IInv, NEW bodies \in Seq(Replies) \ {<<>>}, Srv!Answer(bodies),
         NEW X, NEW Y, Behind(X, Y),
         Question \in Y => Has(bodies, Y),
         Question \notin X => ToSet(bodies) \cap X = {}
  PROVE  Behind(X, Y)'
<1>1. /\ Wire # <<>> /\ Question = Head(Wire) /\ Wire' = Tail(Wire)
      /\ Arriving' = Arriving \o bodies
      /\ ToSet(Arriving') = ToSet(Arriving) \cup ToSet(bodies)
      /\ Waiting' = Waiting
  BY AnswerEffect
<1>2. Wire \in Seq(RequestBodies) /\ Arriving \in Seq(Replies) /\ Waiting \in Seq(Replies)
      /\ bodies \in Seq(Replies)
  BY Queues
<1>3. /\ Has(Waiting', Y) <=> Has(Waiting, Y)
      /\ Has(Arriving, Y) \/ Has(bodies, Y) => Has(Arriving', Y)
  BY <1>1 DEF Has
<1>4. Guarded(Waiting', X, Y)
  BY <1>1 DEF Behind
<1>5. CASE Has(Waiting, Y)
  BY <1>3, <1>4, <1>5 DEF Behind
<1>6. CASE ~Has(Waiting, Y) /\ Has(Arriving, Y)
  <2>1. Guarded(Arriving', X, Y)
    BY <1>1, <1>2, <1>6, GuardedConcat DEF Behind
  <2> QED BY <1>3, <1>4, <1>6, <2>1 DEF Behind
<1>7. CASE ~Has(Waiting, Y) /\ ~Has(Arriving, Y)
  <2>1. Guarded(Arriving, X, Y) /\ Guarded(Wire, X, Y)
    BY <1>7 DEF Behind
  <2>2. Question \notin X /\ (Question \in Y \/ Guarded(Wire', X, Y))
    BY <1>1, <1>2, <2>1, GuardedFrom
  <2>3. Guarded(bodies, X, Y)
    BY <1>2, <2>2, GuardedWithout
  <2>4. Guarded(Arriving', X, Y)
    BY <1>1, <1>2, <2>1, <2>3, GuardedConcat
  <2> QED BY <1>3, <1>4, <2>2, <2>4 DEF Behind
<1> QED BY <1>5, <1>6, <1>7

(* A frame that is heard becomes an event.                                 *)
Heard(r) == IF r \in Unheard THEN Nothing ELSE <<r>>

LEMMA FrameEffect ==
  ASSUME Srv!IInv, NEW bs \in Seq(RequestBodies), fromServer # <<>>,
         Srv!HandlePacket(Asks(bs), <<>>)
  PROVE  /\ Srv!IInv'
         /\ Arriving # <<>> /\ Head(Arriving) \in Replies /\ Head(Arriving) \in ToSet(Arriving)
         /\ Arriving' = Tail(Arriving)
         /\ ToSet(Arriving) = {Head(Arriving)} \cup ToSet(Arriving')
         /\ Heard(Head(Arriving)) \in Seq(Replies)
         /\ ToSet(Heard(Head(Arriving))) = {Head(Arriving)} \ Unheard
         /\ Waiting' = Waiting \o Heard(Head(Arriving))
         /\ ToSet(Waiting') = ToSet(Waiting) \cup ({Head(Arriving)} \ Unheard)
         /\ Wire' = Wire \o bs
         /\ ToSet(Wire') = ToSet(Wire) \cup ToSet(bs)
         /\ Passing' \subseteq Passing /\ Passing \subseteq Passing' \cup Unheard
         /\ UnderWay' \subseteq UnderWay \cup ToSet(bs)
         /\ UnderWay \subseteq UnderWay' \cup Unheard
<1> DEFINE h == Head(Arriving)
           t == Heard(h)
<1>1. /\ Srv!IInv' /\ Wire' = Wire \o bs
      /\ Arriving # <<>> /\ h \in Replies /\ Arriving' = Tail(Arriving)
      /\ Waiting' = Waiting \o t
  BY FrameMoves DEF Heard, Nothing
<1>2. Arriving \in Seq(Replies) /\ Waiting \in Seq(Replies) /\ Wire \in Seq(RequestBodies)
  BY Queues
<1>3. ToSet(Arriving) = {h} \cup ToSet(Arriving')
  BY <1>1, <1>2, HeadAndTail
<1>4. t \in Seq(Replies) /\ ToSet(t) = {h} \ Unheard
  <2>1. CASE h \in Unheard
    <3>1. t = Nothing
      BY <2>1 DEF Heard
    <3> QED BY <2>1, <3>1, NothingSent
  <2>2. CASE h \notin Unheard
    <3>1. t = <<h>>
      BY <2>2 DEF Heard
    <3>2. <<h>> \in Seq(Replies) /\ ToSet(<<h>>) = {h}
      BY <1>1, OneSent
    <3> QED BY <2>2, <3>1, <3>2
  <2> QED BY <2>1, <2>2
<1> HIDE DEF t
<1>5. ToSet(Waiting') = ToSet(Waiting) \cup ToSet(t)
  BY <1>1, <1>2, <1>4, ConcatContents
<1>6. ToSet(Wire') = ToSet(Wire) \cup ToSet(bs)
  BY <1>1, <1>2, ConcatContents
<1>7. Passing' \subseteq Passing /\ Passing \subseteq Passing' \cup Unheard
  BY <1>3, <1>4, <1>5 DEF Passing
<1>8. UnderWay' \subseteq UnderWay \cup ToSet(bs) /\ UnderWay \subseteq UnderWay' \cup Unheard
  BY <1>6, <1>7 DEF UnderWay
<1> QED BY <1>1, <1>3, <1>4, <1>5, <1>6, <1>7, <1>8 DEF t

LEMMA UnheardSaid ==
  /\ \A r \in Unheard : r \in Replies /\ r.type \in {"SEQUENCE", "OK"}
  /\ \A p : HeardOf(p) \cap Unheard = {} /\ AnsweredOf(p) \cap Unheard = {}
<1>1. \A r \in Unheard : r \in Replies /\ r.type \in {"SEQUENCE", "OK"}
  BY DEF Unheard, Replies, Msg
<1> QED BY <1>1 DEF HeardOf, AnsweredOf, Probed, Lists

LEMMA FrameErrands ==
  ASSUME Srv!IInv, NEW bs \in Seq(RequestBodies), fromServer # <<>>,
         Srv!HandlePacket(Asks(bs), <<>>), NEW p
  PROVE  /\ {Errands(p), Errands(p)', Count(bs, AskedOf(p))} \subseteq Nat
         /\ Errands(p)' + (IF Head(Arriving) \in AnsweredOf(p) THEN 1 ELSE 0)
              = Errands(p) + (IF Head(Arriving) \in HeardOf(p) THEN 1 ELSE 0)
                  + Count(bs, AskedOf(p))
<1> DEFINE h == Head(Arriving)
           t == Heard(h)
           A == AskedOf(p)
           X == HeardOf(p)
           Z == AnsweredOf(p)
<1>1. /\ Srv!IInv' /\ Wire' = Wire \o bs
      /\ Arriving # <<>> /\ h \in Replies /\ Arriving' = Tail(Arriving)
      /\ Waiting' = Waiting \o t
      /\ t \in Seq(Replies)
  BY FrameEffect
<1>2. Arriving \in Seq(Replies) /\ Waiting \in Seq(Replies) /\ Wire \in Seq(RequestBodies)
  BY Queues
<1>3. Wire' \in Seq(RequestBodies) /\ Arriving' \in Seq(Replies) /\ Waiting' \in Seq(Replies)
  BY <1>1, QueuesNext
<1>4. Count(t, X) = IF h \in X THEN 1 ELSE 0
  <2>1. CASE h \in Unheard
    BY <2>1, NothingSent, UnheardSaid DEF Heard
  <2>2. CASE h \notin Unheard
    BY <2>2, OneSent DEF Heard
  <2> QED BY <2>1, <2>2
<1> HIDE DEF t
<1>5. /\ Count(Wire, A) \in Nat /\ Count(Wire', A) \in Nat /\ Count(bs, A) \in Nat
      /\ Count(Arriving, Z) \in Nat /\ Count(Arriving', Z) \in Nat
      /\ Count(Waiting, X) \in Nat /\ Count(Waiting', X) \in Nat
  BY <1>2, <1>3, PlacesFinite DEF Count
<1>6. Count(Wire', A) = Count(Wire, A) + Count(bs, A)
  BY <1>1, <1>2, ConcatCount DEF Count
<1>7. Count(Arriving, Z) = (IF h \in Z THEN 1 ELSE 0) + Count(Arriving', Z)
  BY <1>1, <1>2, TailCount DEF Count
<1>8. Count(Waiting', X) = Count(Waiting, X) + Count(t, X)
  BY <1>1, <1>2, ConcatCount DEF Count
<1>9. /\ Errands(p) = Count(Wire, A) + Count(Arriving, Z) + Count(Waiting, X)
      /\ Errands(p)' = Count(Wire', A) + Count(Arriving', Z) + Count(Waiting', X)
  BY <1>1 DEF Errands, AskedOf, AnsweredOf, HeardOf, Probed, Lists
<1> HIDE DEF A, X, Z, h
<1> PICK i \in Nat : i = IF h \in Z THEN 1 ELSE 0
  OBVIOUS
<1> PICK k \in Nat : k = IF h \in X THEN 1 ELSE 0
  OBVIOUS
<1>10. PICK w \in Nat, w2 \in Nat, n \in Nat, a \in Nat, a2 \in Nat, e \in Nat, e2 \in Nat :
        /\ w = Count(Wire, A) /\ w2 = Count(Wire', A) /\ n = Count(bs, A)
        /\ a = Count(Arriving, Z) /\ a2 = Count(Arriving', Z)
        /\ e = Count(Waiting, X) /\ e2 = Count(Waiting', X)
  BY <1>5
<1>11. PICK u, v : u = Errands(p) /\ v = Errands(p)'
  OBVIOUS
<1>12. w2 = w + n /\ a = i + a2 /\ e2 = e + k /\ u = w + a + e /\ v = w2 + a2 + e2
  BY <1>4, <1>6, <1>7, <1>8, <1>9, <1>10, <1>11
<1>13. u \in Nat /\ v \in Nat /\ v + i = u + k + n
  BY ONLY <1>12, i \in Nat, k \in Nat, w \in Nat, w2 \in Nat, n \in Nat, a \in Nat, a2 \in Nat,
          e \in Nat, e2 \in Nat
<1> QED BY <1>10, <1>11, <1>13 DEF A, X, Z, h

LEMMA FrameBehind ==
  ASSUME Srv!IInv, NEW bs \in Seq(RequestBodies), fromServer # <<>>,
         Srv!HandlePacket(Asks(bs), <<>>), NEW X, NEW Y, Behind(X, Y),
         Y \cap Unheard = {}, ToSet(bs) \cap X = {}
  PROVE  Behind(X, Y)'
<1> DEFINE h == Head(Arriving)
           t == Heard(h)
<1>1. /\ Wire' = Wire \o bs /\ ToSet(Wire') = ToSet(Wire) \cup ToSet(bs)
      /\ Arriving # <<>> /\ Arriving' = Tail(Arriving)
      /\ ToSet(Arriving) = {h} \cup ToSet(Arriving')
      /\ Waiting' = Waiting \o t
      /\ t \in Seq(Replies) /\ ToSet(t) = {h} \ Unheard
      /\ ToSet(Waiting') = ToSet(Waiting) \cup ({h} \ Unheard)
  BY FrameEffect
<1>2. Arriving \in Seq(Replies) /\ Waiting \in Seq(Replies) /\ Wire \in Seq(RequestBodies)
  BY Queues
<1> HIDE DEF t
<1>3. Guarded(bs, X, Y)
  BY GuardedWithout
<1>4. Guarded(Waiting, X, Y)
  BY DEF Behind
<1>5. CASE Has(Waiting, Y)
  <2>1. Guarded(Waiting', X, Y)
    BY <1>1, <1>2, <1>4, <1>5, GuardedConcat
  <2>2. Has(Waiting', Y)
    BY <1>1, <1>5 DEF Has
  <2> QED BY <2>1, <2>2 DEF Behind
<1>6. CASE ~Has(Waiting, Y)
  <2>1. Guarded(Arriving, X, Y)
    BY <1>6 DEF Behind
  <2>2. h \notin X /\ (h \in Y \/ Guarded(Arriving', X, Y))
    BY <1>1, <1>2, <2>1, GuardedFrom
  <2>3. Guarded(t, X, Y)
    BY <1>1, <2>2, GuardedWithout
  <2>4. Guarded(Waiting', X, Y)
    BY <1>1, <1>2, <1>4, <2>3, GuardedConcat
  <2>5. CASE h \in Y
    <3>1. Has(Waiting', Y)
      BY <1>1, <2>5 DEF Has
    <3> QED BY <2>4, <3>1 DEF Behind
  <2>6. CASE h \notin Y
    <3>1. Has(Arriving, Y) => Has(Arriving', Y)
      BY <1>1, <2>6 DEF Has
    <3>2. ~Has(Arriving, Y) => Guarded(Wire, X, Y)
      BY <1>6 DEF Behind
    <3>3. ~Has(Arriving, Y) => Guarded(Wire', X, Y)
      BY <1>1, <1>2, <1>3, <3>2, GuardedConcat
    <3> QED BY <2>2, <2>4, <2>6, <3>1, <3>3 DEF Behind
  <2> QED BY <2>5, <2>6
<1> QED BY <1>5, <1>6

LEMMA PushEffect ==
  ASSUME Srv!IInv, Srv!Push(Msg("NewTurn"))
  PROVE  /\ Srv!IInv'
         /\ Wire' = Wire
         /\ Arriving' = Arriving \o <<Msg("NewTurn")>>
         /\ ToSet(Arriving') = ToSet(Arriving) \cup {Msg("NewTurn")}
         /\ Waiting' = Waiting
         /\ Passing' = Passing \cup {Msg("NewTurn")}
         /\ UnderWay' = UnderWay \cup {Msg("NewTurn")}
<1> DEFINE t == <<Msg("NewTurn")>>
<1>1. Msg("NewTurn") \in Replies
  BY Says DEF PlainTypes
<1>2. /\ Srv!IInv' /\ Wire' = Wire /\ Waiting' = Waiting
      /\ Arriving' = Arriving \o t
  BY <1>1, PushMoves
<1>3. t \in Seq(Replies) /\ ToSet(t) = {Msg("NewTurn")}
  BY <1>1, OneSent
<1>4. Arriving \in Seq(Replies)
  BY Queues
<1> HIDE DEF t
<1>5. ToSet(Arriving') = ToSet(Arriving) \cup {Msg("NewTurn")}
  BY <1>2, <1>3, <1>4, ConcatContents
<1>6. Passing' = Passing \cup {Msg("NewTurn")}
  BY <1>2, <1>5 DEF Passing
<1>7. UnderWay' = UnderWay \cup {Msg("NewTurn")}
  BY <1>2, <1>6 DEF UnderWay
<1> QED BY <1>2, <1>5, <1>6, <1>7 DEF t

LEMMA PushBehind ==
  ASSUME Srv!IInv, Srv!Push(Msg("NewTurn")), NEW X, NEW Y, Behind(X, Y), Msg("NewTurn") \notin X
  PROVE  Behind(X, Y)'
<1> DEFINE t == <<Msg("NewTurn")>>
<1>1. /\ Wire' = Wire /\ Waiting' = Waiting /\ Arriving' = Arriving \o t
      /\ ToSet(Arriving') = ToSet(Arriving) \cup {Msg("NewTurn")}
  BY PushEffect
<1>2. t \in Seq(Replies) /\ ToSet(t) = {Msg("NewTurn")} /\ Arriving \in Seq(Replies)
  BY Says, OneSent, Queues DEF PlainTypes
<1> HIDE DEF t
<1>3. Guarded(t, X, Y)
  BY <1>2, GuardedWithout
<1>4. Guarded(Arriving', X, Y) <=> Guarded(Arriving, X, Y) /\ (Has(Arriving, Y) \/ Guarded(t, X, Y))
  BY <1>1, <1>2, GuardedConcat
<1>5. Has(Arriving, Y) => Has(Arriving', Y)
  BY <1>1 DEF Has
<1> QED BY <1>1, <1>3, <1>4, <1>5 DEF Behind

-----------------------------------------------------------------------------
(* smith is called for probes                                              *)

LEMMA SmithSends ==
  ASSUME Srv!IInv, SmithAsked, NEW bs \in Seq(RequestBodies), Srv!SendAll(Asks(bs)),
         cbs' \subseteq cbs \cup Srv!Entries(Asks(bs))
  PROVE  /\ SmithAsked'
         /\ seq \in Nat /\ \A n \in 0..seq : CallsSmith(n)' => CallsSmith(n)
<1> DEFINE rs == Asks(bs)
           new == [i \in 1..Len(rs) |-> [seq |-> seq + i, body |-> rs[i].body]]
           k == Len(toServer)
           m == Len(bs)
<1>1. /\ seq \in Nat
      /\ toServer \in Seq([seq : Nat, body : RequestBodies])
      /\ \A i \in 1..Len(toServer) : toServer[i] \in [seq : 2..seq, body : RequestBodies]
  <2>1. Srv!TypeOK
    BY DEF Srv!IInv
  <2>2. seq \in Nat /\ toServer \in Seq([seq : 2..seq, body : RequestBodies])
    BY <2>1 DEF Srv!TypeOK
  <2>3. \A i \in 1..Len(toServer) : toServer[i] \in [seq : 2..seq, body : RequestBodies]
    <3> DEFINE Q == [seq : 2..seq, body : RequestBodies]
    <3>1. toServer \in Seq(Q)
      BY <2>2
    <3> HIDE DEF Q
    <3>2. \A i \in 1..Len(toServer) : toServer[i] \in Q
      BY ONLY <3>1
    <3> QED BY <3>2 DEF Q
  <2>4. toServer \in Seq([seq : Nat, body : RequestBodies])
    BY Queues
  <2> QED BY <2>2, <2>3, <2>4
<1>2. k \in Nat /\ m \in Nat
  BY <1>1
<1>3. Len(rs) = m /\ \A i \in 1..m : rs[i] = Sending(bs[i]) /\ bs[i] \in RequestBodies
  BY <1>2 DEF Asks
<1>4. \A i \in 1..m : /\ rs[i].cb = "smith" => rs[i].body.type = "ProbeOrder"
                      /\ rs[i].body \in RequestBodies
  <2>1. \A b \in RequestBodies : /\ Sending(b).cb = "smith" => Sending(b).body.type = "ProbeOrder"
                                 /\ Sending(b).body = b
    BY DEF Sending, Ask, AskCalling
  <2> HIDE DEF rs
  <2> QED BY ONLY <1>3, <2>1
<1> HIDE DEF rs
<1>5. \A e \in Srv!Entries(rs) : \E i \in 1..m : e.seq = seq + i /\ e.cb = rs[i].cb
  BY <1>3 DEF Srv!Entries
<1>6. /\ new \in Seq([seq : Nat, body : RequestBodies]) /\ Len(new) = m
      /\ \A i \in 1..m : new[i].seq = seq + i /\ new[i].body = rs[i].body
  <2>1. new \in [1..m -> [seq : Nat, body : RequestBodies]]
    BY <1>1, <1>3, <1>4
  <2>2. new \in Seq([seq : Nat, body : RequestBodies]) /\ Len(new) = m
    <3> HIDE DEF new
    <3> QED BY <1>2, <2>1, FunctionIsSequence
  <2>3. \A i \in 1..m : new[i].seq = seq + i /\ new[i].body = rs[i].body
    BY <1>3
  <2> QED BY <2>2, <2>3
<1>7. toServer' = toServer \o new
  BY DEF Srv!SendAll, rs
<1> HIDE DEF new
<1>8. /\ Len(toServer') = k + m
      /\ \A i \in 1..(k + m) : toServer'[i] = IF i <= k THEN toServer[i] ELSE new[i - k]
  <2> DEFINE Q == [seq : Nat, body : RequestBodies]
  <2>1. toServer \in Seq(Q) /\ new \in Seq(Q)
    BY <1>1, <1>6
  <2> HIDE DEF Q
  <2>2. /\ Len(toServer \o new) = k + Len(new)
        /\ \A i \in 1..(k + Len(new)) :
             (toServer \o new)[i] = IF i <= k THEN toServer[i] ELSE new[i - k]
    BY <2>1, ConcatProperties
  <2> QED BY <1>6, <1>7, <2>2
<1>9. ASSUME NEW n \in 0..seq, NEW e \in cbs', e.seq = n, e.cb = "smith"
      PROVE  CallsSmith(n)
  <2>1. e \notin Srv!Entries(rs)
    BY <1>1, <1>2, <1>5, <1>9
  <2> QED BY <1>9, <2>1 DEF CallsSmith, rs
<1>10. ASSUME NEW i \in 1..Len(toServer'), NEW e \in cbs', e.seq = toServer'[i].seq, e.cb = "smith"
       PROVE  toServer'[i].body.type = "ProbeOrder"
  <2>1. CASE i <= k
    <3>1. i \in 1..k /\ toServer'[i] = toServer[i]
      BY <1>2, <1>8, <2>1
    <3>2. toServer[i].seq \in 0..seq
      <4>1. toServer[i] \in [seq : 2..seq, body : RequestBodies] /\ seq \in Nat
        BY <1>1, <3>1
      <4>2. toServer[i].seq \in 2..seq
        BY ONLY <4>1
      <4> QED BY ONLY <4>1, <4>2
    <3>3. CallsSmith(toServer[i].seq)
      BY <1>9, <1>10, <3>1, <3>2
    <3> QED BY <3>1, <3>3 DEF SmithAsked, k
  <2>2. CASE ~(i <= k)
    <3>1. PICK j \in 1..m : j = i - k
      BY <1>2, <1>8, <2>2
    <3>2. toServer'[i] = new[j]
      BY <1>2, <1>8, <2>2, <3>1
    <3>3. e.seq = seq + j /\ toServer'[i].body = rs[j].body
      BY <1>6, <1>10, <3>2
    <3>4. e \notin cbs
      <4>1. \A c \in cbs : c.seq \in Nat /\ c.seq <= seq
        BY DEF Srv!IInv, Srv!TypeOK
      <4> QED BY <1>1, <1>2, <3>3, <4>1
    <3>5. e \in Srv!Entries(rs)
      BY <1>10, <3>4 DEF rs
    <3>6. PICK l \in 1..m : e.seq = seq + l /\ e.cb = rs[l].cb
      BY <1>5, <3>5
    <3>7. l = j
      BY <1>1, <1>2, <3>3, <3>6
    <3> QED BY <1>4, <1>10, <3>3, <3>6, <3>7
  <2> QED BY <2>1, <2>2
<1>11. SmithAsked'
  BY <1>10 DEF SmithAsked, CallsSmith
<1>12. \A n \in 0..seq : CallsSmith(n)' => CallsSmith(n)
  BY <1>9 DEF CallsSmith
<1> QED BY <1>1, <1>11, <1>12

LEMMA Nonempty ==
  ASSUME NEW S, NEW s \in Seq(S), s # <<>>
  PROVE  /\ Len(s) \in Nat \ {0} /\ 1 \in 1..Len(s)
         /\ Len(Tail(s)) = Len(s) - 1
         /\ \A i \in 1..(Len(s) - 1) : Tail(s)[i] = s[i + 1] /\ i + 1 \in 1..Len(s)
OBVIOUS

LEMMA SmithEvent ==
  ASSUME Srv!IInv, SmithCalled, NEW bs \in Seq(RequestBodies), NEW es,
         Srv!HandleEvent(Asks(bs), es)
  PROVE  SmithCalled'
<1>1. /\ SmithAsked' /\ seq \in Nat
      /\ \A n \in 0..seq : CallsSmith(n)' => CallsSmith(n)
      /\ fromServer' = fromServer
  BY SmithSends DEF SmithCalled, Srv!HandleEvent
<1>2. \A i \in 1..Len(fromServer) : fromServer[i].seq \in 0..seq
  BY DEF Srv!IInv, Srv!NumbersUsed
<1>3. SmithAnswered'
  <2> SUFFICES ASSUME NEW i \in 1..Len(fromServer), NEW n \in 0..seq, n = fromServer[i].seq,
                      CallsSmith(n)'
               PROVE  OfProbe(fromServer[i].body)
    BY <1>1, <1>2 DEF SmithAnswered, CallsSmith
  <2> QED BY <1>1 DEF SmithCalled, SmithAnswered
<1> QED BY <1>1, <1>3 DEF SmithCalled

LEMMA SmithFrame ==
  ASSUME Srv!IInv, SmithCalled, NEW bs \in Seq(RequestBodies), fromServer # <<>>,
         Srv!HandlePacket(Asks(bs), <<>>)
  PROVE  SmithCalled'
<1>1. /\ SmithAsked' /\ seq \in Nat
      /\ \A n \in 0..seq : CallsSmith(n)' => CallsSmith(n)
      /\ fromServer' = Tail(fromServer)
  <2>1. cbs' \subseteq cbs \cup Srv!Entries(Asks(bs))
    BY DEF Srv!HandlePacket
  <2>2. Srv!SendAll(Asks(bs)) /\ fromServer' = Tail(fromServer)
    BY DEF Srv!HandlePacket
  <2> QED BY <2>1, <2>2, SmithSends DEF SmithCalled
<1>2. \A i \in 1..Len(fromServer) : fromServer[i].seq \in 0..seq
  BY DEF Srv!IInv, Srv!NumbersUsed
<1>3. /\ Len(Tail(fromServer)) = Len(fromServer) - 1
      /\ \A i \in 1..(Len(fromServer) - 1) :
           Tail(fromServer)[i] = fromServer[i + 1] /\ i + 1 \in 1..Len(fromServer)
  BY Queues, Nonempty
<1>4. SmithAnswered'
  <2> SUFFICES ASSUME NEW i \in 1..Len(Tail(fromServer)), NEW n, n = Tail(fromServer)[i].seq,
                      CallsSmith(n)'
               PROVE  OfProbe(Tail(fromServer)[i].body)
    BY <1>1 DEF SmithAnswered, CallsSmith
  <2>1. PICK j \in 1..Len(fromServer) : Tail(fromServer)[i] = fromServer[j]
    BY <1>3
  <2>2. n \in 0..seq /\ n = fromServer[j].seq
    BY <1>2, <2>1
  <2>3. CallsSmith(fromServer[j].seq)
    BY <1>1, <2>2
  <2> QED BY <2>1, <2>3 DEF SmithCalled, SmithAnswered
<1> QED BY <1>1, <1>4 DEF SmithCalled

(* The last of these is for answers to what smith is not called for.       *)
LEMMA SmithAnswer ==
  ASSUME Srv!IInv, SmithCalled, NEW bodies \in Seq(Replies) \ {<<>>}, Srv!Answer(bodies),
         Question.type = "ProbeOrder" => \A r \in ToSet(bodies) : OfProbe(r)
  PROVE  SmithCalled'
<1> DEFINE new == [i \in 1..Len(bodies) |->
                     [seq |-> Head(toServer).seq, body |-> bodies[i], first |-> i = 1]]
           k == Len(fromServer)
           m == Len(bodies)
           F == [seq : Nat, body : Replies, first : BOOLEAN]
<1>1. /\ toServer # <<>> /\ toServer' = Tail(toServer) /\ cbs' = cbs
      /\ fromServer' = fromServer \o new
  BY DEF Srv!Answer
<1>2. toServer \in Seq([seq : Nat, body : RequestBodies]) /\ fromServer \in Seq(F)
  BY Queues
<1>3. /\ Len(toServer) \in Nat \ {0} /\ 1 \in 1..Len(toServer)
      /\ Len(Tail(toServer)) = Len(toServer) - 1
      /\ \A i \in 1..(Len(toServer) - 1) :
           Tail(toServer)[i] = toServer[i + 1] /\ i + 1 \in 1..Len(toServer)
  BY <1>1, <1>2, Nonempty
<1>4. SmithAsked'
  <2> SUFFICES ASSUME NEW i \in 1..Len(Tail(toServer)), CallsSmith(Tail(toServer)[i].seq)
               PROVE  Tail(toServer)[i].body.type = "ProbeOrder"
    BY <1>1 DEF SmithAsked, CallsSmith
  <2>1. PICK j \in 1..Len(toServer) : Tail(toServer)[i] = toServer[j]
    BY <1>3
  <2> QED BY <2>1 DEF SmithCalled, SmithAsked
<1>5. Head(toServer) = toServer[1] /\ Head(toServer) \in [seq : Nat, body : RequestBodies]
  BY <1>1, <1>2, HeadAndTail
<1>6. m \in Nat /\ \A i \in 1..m : bodies[i] \in Replies /\ bodies[i] \in ToSet(bodies)
  BY Contents
<1>7. /\ new \in Seq(F) /\ Len(new) = m
      /\ \A i \in 1..m : new[i].seq = Head(toServer).seq /\ new[i].body = bodies[i]
  <2>1. new \in [1..m -> F]
    BY <1>5, <1>6
  <2>2. \A i \in 1..m : new[i].seq = Head(toServer).seq /\ new[i].body = bodies[i]
    BY <1>6
  <2> HIDE DEF new, F
  <2>3. new \in Seq(F) /\ Len(new) = m
    BY <1>6, <2>1, FunctionIsSequence
  <2> QED BY <2>2, <2>3
<1> HIDE DEF new, F
<1>8. /\ Len(fromServer \o new) = k + m /\ k \in Nat
      /\ \A i \in 1..(k + m) :
           (fromServer \o new)[i] = IF i <= k THEN fromServer[i] ELSE new[i - k]
  <2>1. /\ Len(fromServer \o new) = k + Len(new)
        /\ \A i \in 1..(k + Len(new)) :
             (fromServer \o new)[i] = IF i <= k THEN fromServer[i] ELSE new[i - k]
    BY <1>2, <1>7, ConcatProperties
  <2>2. k \in Nat
    BY <1>2
  <2> QED BY <1>7, <2>1, <2>2
<1>9. SmithAnswered'
  <2> SUFFICES ASSUME NEW i \in 1..(k + m), CallsSmith((fromServer \o new)[i].seq)
               PROVE  OfProbe((fromServer \o new)[i].body)
    BY <1>1, <1>8 DEF SmithAnswered, CallsSmith
  <2>1. CASE i <= k
    <3>1. i \in 1..k /\ (fromServer \o new)[i] = fromServer[i]
      BY <1>8, <2>1
    <3> QED BY <3>1 DEF SmithCalled, SmithAnswered, k
  <2>2. CASE ~(i <= k)
    <3>1. PICK j \in 1..m : j = i - k
      BY <1>6, <1>8, <2>2
    <3>2. (fromServer \o new)[i].seq = Head(toServer).seq /\ (fromServer \o new)[i].body = bodies[j]
      BY <1>6, <1>7, <1>8, <2>2, <3>1
    <3>3. Question.type = "ProbeOrder"
      BY <1>3, <1>5, <3>2 DEF SmithCalled, SmithAsked, Question
    <3> QED BY <1>6, <3>2, <3>3
  <2> QED BY <2>1, <2>2
<1> QED BY <1>4, <1>9 DEF SmithCalled

LEMMA SmithPush ==
  ASSUME Srv!IInv, SmithCalled, NEW body \in Replies, Srv!Push(body)
  PROVE  SmithCalled'
<1> DEFINE f == [seq |-> 0, body |-> body, first |-> FALSE]
           F == [seq : Nat, body : Replies, first : BOOLEAN]
<1>1. /\ fromServer' = Append(fromServer, f) /\ toServer' = toServer /\ cbs' = cbs
  BY DEF Srv!Push
<1>2. fromServer \in Seq(F) /\ f \in F /\ f.seq = 0
  BY Queues
<1> HIDE DEF f, F
<1>3. /\ Len(Append(fromServer, f)) = Len(fromServer) + 1 /\ Len(fromServer) \in Nat
      /\ \A i \in 1..Len(fromServer) : Append(fromServer, f)[i] = fromServer[i]
      /\ Append(fromServer, f)[Len(fromServer) + 1] = f
  BY <1>2
<1>4. \A e \in cbs : e.seq # 0
  BY DEF Srv!IInv, Srv!TypeOK
<1>5. SmithAnswered'
  <2> SUFFICES ASSUME NEW i \in 1..(Len(fromServer) + 1),
                      CallsSmith(Append(fromServer, f)[i].seq)
               PROVE  OfProbe(Append(fromServer, f)[i].body)
    BY <1>1, <1>3 DEF SmithAnswered, CallsSmith
  <2>1. i # Len(fromServer) + 1
    BY <1>2, <1>3, <1>4 DEF CallsSmith
  <2>2. i \in 1..Len(fromServer)
    BY <1>3, <2>1
  <2> QED BY <1>3, <2>2 DEF SmithCalled, SmithAnswered
<1>6. SmithAsked'
  BY <1>1 DEF SmithCalled, SmithAsked, CallsSmith
<1> QED BY <1>5, <1>6 DEF SmithCalled

-----------------------------------------------------------------------------
(* Steps that move what is said, and leave the rest as it is               *)

SameData ==
  /\ UNCHANGED <<paramsRead, patient, pageSize, objects, stopped, queues, changed, clock>>
  /\ descs \subseteq descs'

(* What is under way of Y does not go without leaving something of Y.      *)
Keeps(Y) == IsUnderWay(Y) => IsUnderWay(Y)'

LEMMA SameThings ==
  ASSUME SameData
  PROVE  /\ Reading' <=> Reading
         /\ OnePage' <=> OnePage
         /\ \A r : /\ RequestMeant(r)' <=> RequestMeant(r)
                   /\ ReplyMeant(r)' <=> ReplyMeant(r)
                   /\ RequestTrue(r)' <=> RequestTrue(r)
                   /\ ReplyTrue(r)' <=> ReplyTrue(r)
         /\ \A p : /\ Fresh(p)' <=> Fresh(p)
                   /\ WithoutOrders(p)' <=> WithoutOrders(p)
<1> USE DEF SameData
<1>1. (Reading' <=> Reading) /\ (OnePage' <=> OnePage)
  BY DEF Reading, OnePage
<1>2. ASSUME NEW p PROVE (Fresh(p)' <=> Fresh(p)) /\ (WithoutOrders(p)' <=> WithoutOrders(p))
  BY DEF Fresh, WithoutOrders
<1>3. ASSUME NEW p, NEW s PROVE SlotThere(p, s)' <=> SlotThere(p, s)
  BY DEF SlotThere, Fresh, AskedSlots
<1>4. ASSUME NEW r
      PROVE  (RequestMeant(r)' <=> RequestMeant(r)) /\ (ReplyMeant(r)' <=> ReplyMeant(r))
  BY DEF RequestMeant, ReplyMeant
<1>5. ASSUME NEW r PROVE RequestTrue(r)' <=> RequestTrue(r)
  BY DEF RequestTrue, SlotThere, Fresh, AskedSlots, WithoutOrders
<1>6. ASSUME NEW r PROVE ReplyTrue(r)' <=> ReplyTrue(r)
  BY DEF ReplyTrue, SlotThere, Fresh, AskedSlots, WithoutOrders
<1> QED BY <1>1, <1>2, <1>4, <1>5, <1>6

LEMMA SameKept ==
  ASSUME IInv, SameData
  PROVE  /\ Typed' /\ ObjectsKept' /\ FewGiven'
         /\ OnePage => stopped' # "description" /\ AllDescribed'
<1> USE DEF SameData
<1>1. Typed'
  BY DEF IInv, Typed
<1>2. ObjectsKept'
  BY DEF IInv, ObjectsKept, ObjectOK
<1>3. FewGiven'
  BY DEF IInv, FewGiven, Given
<1>4. OnePage => stopped' # "description" /\ AllDescribed'
  BY DEF IInv, DescriptionsFirst, AllDescribed, StrGet
<1> QED BY <1>1, <1>2, <1>3, <1>4

LEMMA PlainStep ==
  ASSUME IInv, SameData, Srv!IInv', SmithCalled',
         NEW W, NEW C,
         ToSet(Wire') \subseteq ToSet(Wire) \cup W,
         Passing' \subseteq Passing \cup C,
         \A r \in W : RequestMeant(r),
         \A r \in C : ReplyMeant(r),
         ~paramsRead => \A r \in W \cup C : ~AboutOrders(r),
         OnePage => \A t \in Types \ descs' : DescribedFirst(t)',
         Reading =>
           /\ \A p \in Planets : Errands(p)' <= 1
           /\ \A r \in W : RequestTrue(r)
           /\ \A r \in C : ReplyTrue(r)
           /\ \A p \in Planets : \A r \in ToSet(Arriving') : r \in Probed(p) => WithoutOrders(p)
           /\ \A p \in DOMAIN objects : Fresh(p) \/ Keeps(Renews(p))
           /\ \A p \in DOMAIN objects :
                \A s \in AskedSlots(objects[p].norders) : Keeps(Fills(p, s))
  PROVE  IInv'
<1>1. Typed' /\ ObjectsKept' /\ FewGiven'
  BY SameKept
<1>2. Meant'
  <2>1. ASSUME NEW r \in ToSet(Wire') PROVE RequestMeant(r)'
    <3>1. RequestMeant(r)
      BY <2>1 DEF IInv, Meant
    <3> QED BY <3>1, SameThings
  <2>2. ASSUME NEW r \in Passing' PROVE ReplyMeant(r)'
    <3>1. ReplyMeant(r)
      BY <2>2 DEF IInv, Meant
    <3> QED BY <3>1, SameThings
  <2> QED BY <2>1, <2>2 DEF Meant
<1>3. NoneRead'
  <2>1. UnderWay' \subseteq UnderWay \cup W \cup C
    BY DEF UnderWay
  <2>2. NoneRead
    BY DEF IInv
  <2>3. /\ paramsRead' = paramsRead /\ stopped' = stopped /\ objects' = objects
    BY DEF SameData
  <2> QED BY <2>1, <2>2, <2>3 DEF NoneRead
<1>4. DescriptionsFirst'
  <2>1. OnePage' <=> OnePage
    BY SameThings
  <2>2. OnePage => stopped' # "description" /\ AllDescribed'
    BY SameKept
  <2> QED BY <2>1, <2>2 DEF DescriptionsFirst
<1>5. ASSUME Reading
      PROVE  (OneErrand /\ AllTrue /\ Renewed /\ Filled /\ stopped # "slot")'
  <2>1. OneErrand /\ AllTrue /\ Renewed /\ Filled /\ stopped # "slot"
    BY <1>5 DEF IInv
  <2>2. objects' = objects /\ queues' = queues /\ stopped' = stopped
    BY DEF SameData
  <2>3. OneErrand'
    BY <1>5 DEF OneErrand
  <2>4. AllTrue'
    <3>1. ASSUME NEW r \in ToSet(Wire') PROVE RequestTrue(r)'
      <4>1. RequestTrue(r)
        BY <1>5, <2>1, <3>1 DEF AllTrue
      <4> QED BY <4>1, SameThings
    <3>2. ASSUME NEW r \in Passing' PROVE ReplyTrue(r)'
      <4>1. ReplyTrue(r)
        BY <1>5, <2>1, <3>2 DEF AllTrue
      <4> QED BY <4>1, SameThings
    <3>3. ASSUME NEW p \in Planets, NEW r \in ToSet(Arriving'), r \in Probed(p)
          PROVE  WithoutOrders(p)'
      <4>1. WithoutOrders(p)
        BY <1>5, <3>3
      <4> QED BY <4>1, SameThings
    <3> QED BY <3>1, <3>2, <3>3 DEF AllTrue, Probed
  <2>5. Renewed'
    <3> SUFFICES ASSUME NEW p \in DOMAIN objects
                 PROVE  Fresh(p)' \/ objects[p].norders = 0 \/ IsUnderWay(Renews(p))'
      BY <2>2 DEF Renewed, Renews, Lists
    <3>1. Fresh(p) \/ objects[p].norders = 0 \/ IsUnderWay(Renews(p))
      BY <2>1 DEF Renewed
    <3>2. Fresh(p) \/ (IsUnderWay(Renews(p)) => IsUnderWay(Renews(p))')
      BY <1>5 DEF Keeps
    <3> QED BY <3>1, <3>2, SameThings
  <2>6. Filled'
    <3> SUFFICES ASSUME NEW p \in DOMAIN objects, Fresh(p)'
                 PROVE  /\ objects[p].norders = Len(queues[p])
                        /\ \A s \in Slots(objects[p].norders) : SlotFilled(p, s)'
      BY <2>2 DEF Filled
    <3>1. Fresh(p)
      BY SameThings
    <3>2. /\ objects[p].norders = Len(queues[p])
          /\ \A s \in Slots(objects[p].norders) : SlotFilled(p, s)
      BY <2>1, <3>1 DEF Filled
    <3>3. ASSUME NEW s \in Slots(objects[p].norders) PROVE SlotFilled(p, s)'
      <4>1. CASE s \in Unasked(objects[p].norders)
        BY <2>2, <3>2, <4>1 DEF SlotFilled
      <4>2. CASE s \notin Unasked(objects[p].norders)
        <5>1. IsUnderWay(Fills(p, s)) => IsUnderWay(Fills(p, s))'
          BY <1>5, <4>2 DEF AskedSlots, Keeps
        <5>2. objects[p].orders[s] = queues[p][s + 1] \/ IsUnderWay(Fills(p, s))
          BY <3>2, <4>2 DEF SlotFilled
        <5>3. objects[p].orders[s] = queues[p][s + 1] \/ IsUnderWay(Fills(p, s))'
          BY <5>1, <5>2
        <5> QED BY <2>2, <4>2, <5>3 DEF SlotFilled
      <4> QED BY <4>1, <4>2
    <3> QED BY <3>2, <3>3
  <2> QED BY <2>1, <2>2, <2>3, <2>4, <2>5, <2>6
<1>6. Reading' => Reading
  BY SameThings
<1> QED BY <1>1, <1>2, <1>3, <1>4, <1>5, <1>6 DEF IInv

-----------------------------------------------------------------------------
(* Descriptions stay first                                                 *)

LEMMA EventDescribed ==
  ASSUME Srv!IInv, NEW bs \in Seq(RequestBodies), NEW cs \in Seq(Replies),
         Srv!HandleEvent(Asks(bs), Events(cs)), NEW t, DescribedFirst(t),
         Content \notin Describing(t), ToSet(cs) \cap OrderThings = {},
         ToSet(bs) \cap OrderThings = {} \/ IsUnderWay(Describing(t)),
         \/ IsUnderWay(Describing(t))
         \/ ToSet(bs) \cap Describing(t) # {}
         \/ /\ Content \notin Paging
            /\ (ToSet(bs) \cup ToSet(cs)) \cap ObjectThings = {}
            /\ \/ IsUnderWay(Paging)
               \/ ToSet(bs) \cap Paging # {}
               \/ (ToSet(bs) \cup ToSet(cs)) \cap ListThings = {}
         \/ /\ Content \notin Paging /\ IsUnderWay(Paging)
            /\ ToSet(cs) \cap ObjectThings = {}
  PROVE  DescribedFirst(t)'
<1> DEFINE D == Describing(t)
<1>1. UnderWay = {Content} \cup Left /\ UnderWay' = Left \cup ToSet(bs) \cup ToSet(cs)
  BY EventEffect
<1>2. /\ IsUnderWay(D)' <=> UnderWay' \cap D # {}
      /\ IsUnderWay(Paging)' <=> UnderWay' \cap Paging # {}
      /\ IsUnderWay(ListThings)' <=> UnderWay' \cap ListThings # {}
  BY DEF IsUnderWay, Describing, Paging, ListThings
<1>3. /\ Behind(OrderThings, D)
      /\ IsUnderWay(D) \/ Behind(ObjectThings, Paging)
      /\ IsUnderWay(D) \/ IsUnderWay(Paging) \/ ~IsUnderWay(ListThings)
  BY DEF DescribedFirst
<1>4. DescribedFirst(t)' <=>
        /\ Behind(OrderThings, D)'
        /\ IsUnderWay(D)' \/ Behind(ObjectThings, Paging)'
        /\ IsUnderWay(D)' \/ IsUnderWay(Paging)' \/ ~IsUnderWay(ListThings)'
  BY DEF DescribedFirst
<1>5. Content \notin D
  OBVIOUS
<1>6. Behind(OrderThings, D)'
  <2>1. PICK X, Y : X = OrderThings /\ Y = D
    OBVIOUS
  <2>2. Behind(X, Y)'
    BY <1>3, <1>5, <2>1, EventBehind
  <2> QED BY <2>1, <2>2 DEF OrderThings, Describing
<1> HIDE DEF D
<1>7. CASE IsUnderWay(D)
  <2>1. UnderWay' \cap D # {}
    BY <1>1, <1>5, <1>7 DEF IsUnderWay
  <2> QED BY <1>2, <1>4, <1>6, <2>1
<1>8. CASE ToSet(bs) \cap D # {}
  <2>1. UnderWay' \cap D # {}
    BY <1>1, <1>8
  <2> QED BY <1>2, <1>4, <1>6, <2>1
<1>9. CASE /\ ~IsUnderWay(D)
           /\ Content \notin Paging
           /\ ToSet(cs) \cap ObjectThings = {}
           /\ ToSet(bs) \cap ObjectThings = {} \/ IsUnderWay(Paging)
           /\ \/ IsUnderWay(Paging)
              \/ ToSet(bs) \cap Paging # {}
              \/ (ToSet(bs) \cup ToSet(cs)) \cap ListThings = {}
  <2>1. Behind(ObjectThings, Paging)'
    <3>1. PICK X, Y : X = ObjectThings /\ Y = Paging
      OBVIOUS
    <3>2. Behind(X, Y)'
      BY <1>3, <1>9, <3>1, EventBehind
    <3> QED BY <3>1, <3>2 DEF ObjectThings, Paging
  <2>2. UnderWay' \cap Paging # {} \/ UnderWay' \cap ListThings = {}
    <3>1. CASE IsUnderWay(Paging)
      BY <1>1, <1>9, <3>1 DEF IsUnderWay
    <3>2. CASE ToSet(bs) \cap Paging # {}
      BY <1>1, <3>2
    <3>3. CASE ~IsUnderWay(Paging) /\ (ToSet(bs) \cup ToSet(cs)) \cap ListThings = {}
      BY <1>1, <1>3, <1>9, <3>3 DEF IsUnderWay
    <3> QED BY <1>9, <3>1, <3>2, <3>3
  <2> QED BY <1>2, <1>4, <1>6, <2>1, <2>2
<1> QED BY <1>7, <1>8, <1>9 DEF D

LEMMA FrameDescribed ==
  ASSUME Srv!IInv, NEW bs \in Seq(RequestBodies), fromServer # <<>>,
         Srv!HandlePacket(Asks(bs), <<>>), NEW t, DescribedFirst(t),
         ToSet(bs) \cap (OrderThings \cup ObjectThings \cup ListThings) = {}
  PROVE  DescribedFirst(t)'
<1> DEFINE D == Describing(t)
<1>1. UnderWay' \subseteq UnderWay \cup ToSet(bs) /\ UnderWay \subseteq UnderWay' \cup Unheard
  BY FrameEffect
<1>2. D \cap Unheard = {} /\ Paging \cap Unheard = {}
  BY UnheardSaid DEF Describing, Paging
<1>3. /\ Behind(OrderThings, D)
      /\ IsUnderWay(D) \/ Behind(ObjectThings, Paging)
      /\ IsUnderWay(D) \/ IsUnderWay(Paging) \/ ~IsUnderWay(ListThings)
  BY DEF DescribedFirst
<1>4. PICK X, Y, B, P, L : /\ X = OrderThings /\ Y = D /\ B = ObjectThings /\ P = Paging
                           /\ L = ListThings
  OBVIOUS
<1>5. Behind(X, Y)' /\ (Behind(B, P) => Behind(B, P)')
  BY <1>2, <1>3, <1>4, FrameBehind
<1>6. IsUnderWay(Y) => IsUnderWay(Y)'
  BY <1>1, <1>2, <1>4 DEF IsUnderWay
<1>7. IsUnderWay(P) => IsUnderWay(P)'
  BY <1>1, <1>2, <1>4 DEF IsUnderWay
<1>8. ~IsUnderWay(L) => ~IsUnderWay(L)'
  BY <1>1, <1>4 DEF IsUnderWay
<1>9. DescribedFirst(t)' <=>
        /\ Behind(X, Y)'
        /\ IsUnderWay(Y)' \/ Behind(B, P)'
        /\ IsUnderWay(Y)' \/ IsUnderWay(P)' \/ ~IsUnderWay(L)'
  BY <1>4 DEF DescribedFirst
<1> QED BY <1>3, <1>4, <1>5, <1>6, <1>7, <1>8, <1>9

LEMMA AnswerDescribed ==
  ASSUME Srv!IInv, NEW bodies \in Seq(Replies) \ {<<>>}, Srv!Answer(bodies),
         NEW t, DescribedFirst(t),
         Question \in Describing(t) => Has(bodies, Describing(t)),
         Question \in Paging => Has(bodies, Paging),
         Question \notin OrderThings => ToSet(bodies) \cap OrderThings = {},
         Question \notin ObjectThings => ToSet(bodies) \cap ObjectThings = {},
         Question \notin ListThings => ToSet(bodies) \cap ListThings = {}
  PROVE  DescribedFirst(t)'
<1> DEFINE D == Describing(t)
<1>1. /\ UnderWay' \subseteq UnderWay \cup ToSet(bodies)
      /\ UnderWay \cup ToSet(bodies) \subseteq UnderWay' \cup {Question}
      /\ ToSet(bodies) \subseteq UnderWay' /\ Question \in UnderWay
  BY AnswerEffect
<1>2. /\ Behind(OrderThings, D)
      /\ IsUnderWay(D) \/ Behind(ObjectThings, Paging)
      /\ IsUnderWay(D) \/ IsUnderWay(Paging) \/ ~IsUnderWay(ListThings)
  BY DEF DescribedFirst
<1>3. PICK X, Y, B, P, L : /\ X = OrderThings /\ Y = D /\ B = ObjectThings /\ P = Paging
                           /\ L = ListThings
  OBVIOUS
<1>4. Behind(X, Y)' /\ (Behind(B, P) => Behind(B, P)')
  BY <1>2, <1>3, AnswerBehind
<1>5. IsUnderWay(Y) => IsUnderWay(Y)'
  BY <1>1, <1>3 DEF IsUnderWay, Has
<1>6. IsUnderWay(P) => IsUnderWay(P)'
  BY <1>1, <1>3 DEF IsUnderWay, Has
<1>7. ~IsUnderWay(L) => ~IsUnderWay(L)'
  BY <1>1, <1>3 DEF IsUnderWay
<1>8. DescribedFirst(t)' <=>
        /\ Behind(X, Y)'
        /\ IsUnderWay(Y)' \/ Behind(B, P)'
        /\ IsUnderWay(Y)' \/ IsUnderWay(P)' \/ ~IsUnderWay(L)'
  BY <1>3 DEF DescribedFirst
<1> QED BY <1>2, <1>3, <1>4, <1>5, <1>6, <1>7, <1>8

LEMMA PushDescribed ==
  ASSUME Srv!IInv, Srv!Push(Msg("NewTurn")), NEW t, DescribedFirst(t)
  PROVE  DescribedFirst(t)'
<1> DEFINE D == Describing(t)
<1>1. UnderWay' = UnderWay \cup {Msg("NewTurn")}
  BY PushEffect
<1>2. Msg("NewTurn") \notin OrderThings \cup ObjectThings \cup ListThings
  BY DEF Msg, OrderThings, ObjectThings, ListThings, IsOrder, Announces
<1>3. /\ Behind(OrderThings, D)
      /\ IsUnderWay(D) \/ Behind(ObjectThings, Paging)
      /\ IsUnderWay(D) \/ IsUnderWay(Paging) \/ ~IsUnderWay(ListThings)
  BY DEF DescribedFirst
<1>4. PICK X, Y, B, P, L : /\ X = OrderThings /\ Y = D /\ B = ObjectThings /\ P = Paging
                           /\ L = ListThings
  OBVIOUS
<1>5. Behind(X, Y)' /\ (Behind(B, P) => Behind(B, P)')
  BY <1>2, <1>3, <1>4, PushBehind
<1>6. /\ IsUnderWay(Y) => IsUnderWay(Y)'
      /\ IsUnderWay(P) => IsUnderWay(P)'
      /\ ~IsUnderWay(L) => ~IsUnderWay(L)'
  BY <1>1, <1>2, <1>4 DEF IsUnderWay
<1>7. DescribedFirst(t)' <=>
        /\ Behind(X, Y)'
        /\ IsUnderWay(Y)' \/ Behind(B, P)'
        /\ IsUnderWay(Y)' \/ IsUnderWay(P)' \/ ~IsUnderWay(L)'
  BY <1>4 DEF DescribedFirst
<1> QED BY <1>3, <1>4, <1>5, <1>6, <1>7

(* What announces orders is handled when their descriptions are under way, *)
(* an order when it is described.                                          *)
LEMMA ObjectThingsFirst ==
  ASSUME Srv!IInv, Waiting # <<>>, NEW t, DescribedFirst(t)
  PROVE  /\ Content \notin OrderThings
         /\ Content \in ObjectThings => IsUnderWay(Describing(t))
<1>1. Waiting \in Seq(Replies) /\ Content = Head(Waiting)
  BY Queues
<1>2. Content \notin OrderThings
  BY <1>1, GuardedFrom DEF DescribedFirst, Behind
<1>3. ~IsUnderWay(Describing(t)) => Content \notin ObjectThings
  BY <1>1, GuardedFrom DEF DescribedFirst, Behind
<1> QED BY <1>2, <1>3

-----------------------------------------------------------------------------
(* The portions orders are asked for in                                    *)

LEMMA DivMod ==
  ASSUME NEW a \in Nat, NEW m \in Nat \ {0}
  PROVE  /\ a \div m \in Nat /\ a % m \in Nat /\ a % m < m
         /\ a = m * (a \div m) + (a % m)
OBVIOUS

LEMMA Times ==
  ASSUME NEW x \in Int, NEW y \in Int, NEW m \in Nat \ {0}, x < y
  PROVE  m * x + m <= m * y
OBVIOUS

LEMMA RoundedUp ==
  ASSUME NEW n \in Nat, NEW m \in Nat \ {0}
  PROVE  (n + m - 1) \div m = IF n % m = 0 THEN n \div m ELSE (n \div m) + 1
OBVIOUS

Fragments(n) == (n + Portion - 1) \div Portion

(* What is asked for is a beginning of the slots.                          *)
LEMMA AskedAre ==
  ASSUME NEW n \in Nat
  PROVE  /\ Fragments(n) \in Nat /\ n % Portion \in Nat /\ n % Portion < Portion
         /\ n = 0 => Fragments(n) = 0
         /\ AskedSlots(n) =
              {s \in Nat : Fragments(n) > 0 /\ s < Portion * (Fragments(n) - 1) + (n % Portion)}
<1>1. Portion \in Nat \ {0}
  BY BoundAssumption
<1>2. PICK m \in Nat \ {0} : m = Portion
  BY <1>1
<1>3. PICK q \in Nat, r \in Nat : q = n \div m /\ r = n % m /\ r < m /\ n = m * q + r
  BY DivMod
<1>4. Fragments(n) = IF r = 0 THEN q ELSE q + 1
  BY <1>2, <1>3, RoundedUp DEF Fragments
<1>5. n = 0 => q = 0 /\ r = 0
  BY <1>3
<1>6. AskedSlots(n) = (0..(n - 1)) \ (IF r = 0 THEN (n - m)..(n - 1) ELSE {})
  BY <1>2, <1>3 DEF AskedSlots, Slots, Unasked
<1>7. CASE r = 0
  <2>1. Fragments(n) = q /\ n = m * q
    BY <1>3, <1>4, <1>7
  <2>2. CASE q = 0
    <3>1. n = 0
      BY <1>3, <1>7, <2>2
    <3> QED BY <1>2, <1>3, <1>6, <1>7, <2>1, <2>2, <3>1
  <2>3. CASE q > 0
    <3>1. PICK k \in Nat : k = m * (q - 1)
      BY <2>3
    <3>2. n = k + m
      BY <2>1, <2>3, <3>1
    <3>3. AskedSlots(n) = {s \in Nat : s < k}
      BY <1>6, <1>7, <3>2
    <3> QED BY <1>2, <1>3, <1>7, <2>1, <2>3, <3>1, <3>3
  <2> QED BY <2>2, <2>3
<1>8. CASE r # 0
  <2>1. Fragments(n) = q + 1
    BY <1>4, <1>8
  <2>2. AskedSlots(n) = {s \in Nat : s < n}
    BY <1>6, <1>8
  <2>3. m * ((q + 1) - 1) + r = n
    BY <1>3
  <2> QED BY <1>2, <1>3, <1>8, <2>1, <2>2, <2>3
<1> QED BY <1>7, <1>8

LEMMA PortionsAre ==
  ASSUME NEW n \in Nat
  PROVE  /\ Portions(n) \in Seq(Seq(Nat))
         /\ n = 0 => ToSet(Portions(n)) = {}
         /\ \A x \in ToSet(Portions(n)) : ToSet(x) \subseteq AskedSlots(n)
         /\ \A s \in AskedSlots(n) : \E x \in ToSet(Portions(n)) : s \in ToSet(x)
<1>1. PICK m \in Nat \ {0} : m = Portion
  BY BoundAssumption
<1>2. PICK k \in Nat, r \in Nat : k = Fragments(n) /\ r = n % m /\ r < m
  BY <1>1, AskedAre
<1> DEFINE size(f) == IF f = k THEN r ELSE m
           portion(f) == [i \in 1..size(f) |-> i - 1 + (f - 1) * m]
           e == m * (k - 1) + r
<1>3. Portions(n) = [f \in 1..k |-> portion(f)]
  BY <1>1, <1>2 DEF Portions, Fragments
<1>4. AskedSlots(n) = {s \in Nat : k > 0 /\ s < e}
  BY <1>1, <1>2, AskedAre
<1>5. ASSUME NEW f \in 1..k
      PROVE  /\ portion(f) \in Seq(Nat) /\ Len(portion(f)) = size(f) /\ size(f) \in Nat
             /\ ToSet(portion(f)) = {i - 1 + (f - 1) * m : i \in 1..size(f)}
  <2>1. size(f) \in Nat /\ (f - 1) * m \in Nat
    BY <1>2
  <2>2. portion(f) \in [1..size(f) -> Nat]
    BY <2>1
  <2>3. \A i \in 1..size(f) : portion(f)[i] = i - 1 + (f - 1) * m
    OBVIOUS
  <2> HIDE DEF portion, size
  <2>4. portion(f) \in Seq(Nat) /\ Len(portion(f)) = size(f)
    BY <2>1, <2>2, FunctionIsSequence
  <2>5. ToSet(portion(f)) = {portion(f)[i] : i \in 1..size(f)}
    BY <2>4, Contents
  <2> QED BY <2>1, <2>3, <2>4, <2>5
<1>6. Portions(n) \in Seq(Seq(Nat)) /\ ToSet(Portions(n)) = {portion(f) : f \in 1..k}
  <2>1. Portions(n) \in [1..k -> Seq(Nat)] /\ \A f \in 1..k : Portions(n)[f] = portion(f)
    <3> HIDE DEF portion
    <3> QED BY <1>3, <1>5
  <2> HIDE DEF portion
  <2>2. Portions(n) \in Seq(Seq(Nat)) /\ Len(Portions(n)) = k
    BY <2>1, FunctionIsSequence
  <2>3. ToSet(Portions(n)) = {Portions(n)[f] : f \in 1..k}
    BY <2>2, Contents
  <2> QED BY <2>1, <2>2, <2>3
<1>7. n = 0 => k = 0
  BY <1>2, AskedAre
<1>8. ASSUME NEW f \in 1..k PROVE ToSet(portion(f)) \subseteq AskedSlots(n)
  <2> SUFFICES ASSUME NEW i \in 1..size(f), NEW s, s = i - 1 + (f - 1) * m
               PROVE  s \in Nat /\ k > 0 /\ s < e
    <3>1. \A s \in ToSet(portion(f)) : \E i \in 1..size(f) : s = i - 1 + (f - 1) * m
      <4> HIDE DEF portion, size
      <4>1. ToSet(portion(f)) = {i - 1 + (f - 1) * m : i \in 1..size(f)}
        BY <1>5
      <4> QED BY ONLY <4>1
    <3> HIDE DEF portion, size, e
    <3> QED BY <1>4, <3>1
  <2>1. PICK g \in Nat : g = m * (f - 1)
    BY <1>2
  <2>2. s = i - 1 + g
    BY <1>2, <2>1
  <2>3. size(f) \in Nat
    BY <1>2
  <2>4. CASE f = k
    BY <1>2, <2>1, <2>2, <2>4
  <2>5. CASE f # k
    <3>1. g + m <= m * (k - 1)
      <4>1. PICK x \in Int, y \in Int : x = f - 1 /\ y = k - 1
        BY <1>2
      <4>2. x < y
        BY <1>2, <2>5, <4>1
      <4> QED BY <2>1, <4>1, <4>2, Times
    <3>2. m * (k - 1) \in Int
      BY <1>2
    <3> QED BY <1>2, <2>2, <2>5, <3>1, <3>2
  <2> QED BY <2>4, <2>5
<1>9. ASSUME NEW s \in AskedSlots(n) PROVE \E f \in 1..k : s \in ToSet(portion(f))
  <2>1. s \in Nat /\ k > 0 /\ s < e
    BY <1>4
  <2>2. PICK j \in Nat, i \in Nat : i < m /\ s = m * j + i
    <3>1. /\ s \div m \in Nat /\ s % m \in Nat /\ s % m < m
          /\ s = m * (s \div m) + (s % m)
      BY <2>1, DivMod
    <3> QED BY <3>1
  <2>3. PICK c \in Nat, d \in Nat : c = m * (k - 1) /\ d = m * j
    BY <1>2, <2>1
  <2>4. s < c + r /\ s = d + i
    BY <2>1, <2>2, <2>3
  <2>5. j <= k - 1
    <3>1. k - 1 < j => c + m <= d
      BY <1>2, <2>3, Times
    <3> QED BY <1>2, <2>2, <2>3, <2>4, <3>1
  <2>6. PICK f \in 1..k : f = j + 1
    BY <1>2, <2>1, <2>5
  <2>7. i + 1 \in 1..size(f)
    <3>1. CASE f = k
      <4>1. d = c
        BY <2>3, <2>6, <3>1
      <4> QED BY <1>2, <2>2, <2>3, <2>4, <3>1, <4>1
    <3>2. CASE f # k
      BY <1>2, <2>2, <3>2
    <3> QED BY <3>1, <3>2
  <2>8. s = (i + 1) - 1 + (f - 1) * m
    <3>1. f - 1 = j /\ m * j = j * m
      BY <2>6
    <3> QED BY <2>2, <3>1
  <2>9. s \in ToSet(portion(f))
    <3> HIDE DEF size, portion
    <3> QED BY <1>5, <2>7, <2>8
  <2> QED BY <2>9
<1> HIDE DEF portion
<1> QED BY <1>6, <1>7, <1>8, <1>9

-----------------------------------------------------------------------------
(* Handling events                                                         *)

LEMMA EventStep ==
  ASSUME IInv, SameData, NEW bs \in Seq(RequestBodies), Srv!HandleEvent(Asks(bs), <<>>),
         \A r \in ToSet(bs) : RequestMeant(r),
         ~paramsRead => \A r \in ToSet(bs) : ~AboutOrders(r),
         OnePage => \A t \in Types \ descs' : DescribedFirst(t)',
         Reading =>
           /\ \A p \in Planets :
                Count(bs, AskedOf(p)) <= IF Content \in HeardOf(p) THEN 1 ELSE 0
           /\ \A r \in ToSet(bs) : RequestTrue(r)
           /\ \A p \in DOMAIN objects :
                Content \in Renews(p) => Fresh(p) \/ ToSet(bs) \cap Renews(p) # {}
           /\ \A p \in DOMAIN objects : \A s \in AskedSlots(objects[p].norders) :
                Content \in Fills(p, s) => ToSet(bs) \cap Fills(p, s) # {}
  PROVE  IInv'
<1> DEFINE W == ToSet(bs)
           C == ToSet(Nothing)
<1>0. Srv!HandleEvent(Asks(bs), Events(Nothing)) /\ Srv!IInv /\ Nothing \in Seq(Replies) /\ C = {}
  BY NothingSent DEF IInv
<1>1. /\ Srv!IInv'
      /\ Arriving' = Arriving
      /\ ToSet(Wire') = ToSet(Wire) \cup W
      /\ Passing' \subseteq Passing \cup C
      /\ UnderWay = {Content} \cup Left
      /\ UnderWay' = Left \cup W \cup C
  BY <1>0, EventEffect
<1>2. SmithCalled'
  BY <1>0, SmithEvent DEF IInv
<1>3. ASSUME NEW Y, Content \in Y => W \cap Y # {}
      PROVE  UnderWay \cap Y # {} => UnderWay' \cap Y # {}
  BY <1>1, <1>3
<1>4. ASSUME Reading
      PROVE
        /\ \A p \in Planets : Errands(p)' <= 1
        /\ \A p \in Planets : \A r \in ToSet(Arriving') : r \in Probed(p) => WithoutOrders(p)
        /\ \A p \in DOMAIN objects : Fresh(p) \/ Keeps(Renews(p))
        /\ \A p \in DOMAIN objects :
             \A s \in AskedSlots(objects[p].norders) : Keeps(Fills(p, s))
  <2>1. ASSUME NEW p \in Planets PROVE Errands(p)' <= 1
    <3>1. Errands(p) <= 1
      BY <1>4 DEF IInv, OneErrand
    <3>2. PICK a \in Nat, b \in Nat, n \in Nat, m \in Nat :
            /\ a = Errands(p) /\ b = Errands(p)' /\ n = Count(bs, AskedOf(p))
            /\ m = Count(Nothing, HeardOf(p))
      BY <1>0, EventErrands
    <3>3. b + (IF Content \in HeardOf(p) THEN 1 ELSE 0) = a + n + m
      BY <1>0, <3>2, EventErrands
    <3>4. m = 0 /\ n <= IF Content \in HeardOf(p) THEN 1 ELSE 0
      BY <1>4, <3>2, NothingSent
    <3> QED BY <3>1, <3>2, <3>3, <3>4
  <2>2. \A p \in Planets : \A r \in ToSet(Arriving') : r \in Probed(p) => WithoutOrders(p)
    BY <1>1, <1>4 DEF IInv, AllTrue
  <2>3. ASSUME NEW p \in DOMAIN objects PROVE Fresh(p) \/ Keeps(Renews(p))
    <3>1. Fresh(p) \/ (UnderWay \cap Renews(p) # {} => UnderWay' \cap Renews(p) # {})
      BY <1>3, <1>4
    <3> QED BY <3>1 DEF Keeps, IsUnderWay, Renews, Lists
  <2>4. ASSUME NEW p \in DOMAIN objects, NEW s \in AskedSlots(objects[p].norders)
        PROVE  Keeps(Fills(p, s))
    <3>1. UnderWay \cap Fills(p, s) # {} => UnderWay' \cap Fills(p, s) # {}
      BY <1>3, <1>4
    <3> QED BY <3>1 DEF Keeps, IsUnderWay, Fills, Announces
  <2> QED BY <2>1, <2>2, <2>3, <2>4
<1>5. W \cup C = W
  BY <1>0
<1> HIDE DEF W, C
<1>6. /\ ToSet(Wire') \subseteq ToSet(Wire) \cup W
      /\ \A r \in W : RequestMeant(r)
      /\ \A r \in C : ReplyMeant(r)
      /\ ~paramsRead => \A r \in W \cup C : ~AboutOrders(r)
      /\ Reading => (\A r \in W : RequestTrue(r)) /\ (\A r \in C : ReplyTrue(r))
  BY <1>0, <1>1, <1>5 DEF W
<1> QED BY <1>1, <1>2, <1>4, <1>6, PlainStep

LEMMA TwoSent ==
  ASSUME NEW S, NEW a \in S, NEW b \in S
  PROVE  /\ <<a, b>> \in Seq(S)
         /\ Asks(<<a, b>>) = <<Sending(a), Sending(b)>>
         /\ ToSet(<<a, b>>) = {a, b}
         /\ \A X : Count(<<a, b>>, X) = (IF a \in X THEN 1 ELSE 0) + (IF b \in X THEN 1 ELSE 0)
<1>1. <<a, b>> = <<a>> \o <<b>> /\ <<a, b>> \in Seq(S) /\ <<a>> \in Seq(S) /\ <<b>> \in Seq(S)
  <2>1. <<a, b>> = Append(<<a>>, b) /\ <<a, b>> \in Seq(S)
    OBVIOUS
  <2>2. <<a>> \in Seq(S) /\ <<b>> \in Seq(S)
    BY OneSent
  <2>3. Append(<<a>>, b) = <<a>> \o <<b>>
    BY <2>2, AppendContents
  <2> QED BY <2>1, <2>2, <2>3
<1>2. Asks(<<a, b>>) = <<Sending(a), Sending(b)>>
  BY DEF Asks
<1>3. PICK s \in Seq(S), t \in Seq(S), u \in Seq(S) :
        s = <<a>> /\ t = <<b>> /\ u = <<a, b>> /\ u = s \o t
  BY ONLY <1>1
<1>4. ToSet(u) = ToSet(s) \cup ToSet(t) /\ \A X : Count(u, X) = Count(s, X) + Count(t, X)
  <2>1. ToSet(s \o t) = ToSet(s) \cup ToSet(t)
    BY ConcatContents
  <2>2. \A X : Count(s \o t, X) = Count(s, X) + Count(t, X)
    BY ConcatCount DEF Count
  <2> QED BY <1>3, <2>1, <2>2
<1>5. /\ ToSet(s) = {a} /\ ToSet(t) = {b}
      /\ \A X : /\ Count(s, X) = IF a \in X THEN 1 ELSE 0
                /\ Count(t, X) = IF b \in X THEN 1 ELSE 0
  BY <1>3, OneSent
<1> QED BY <1>1, <1>2, <1>3, <1>4, <1>5

LEMMA UnchangedSame ==
  ASSUME IInv, UNCHANGED <<chosenVars, clientVars, peerVars>>
  PROVE  SameData
BY DEF SameData, chosenVars, clientVars, peerVars

LEMMA StartInv ==
  ASSUME IInv, Start
  PROVE  IInv'
<1> DEFINE a == Msg("GetObjectIDs")
           b == GetDescPage(0)
           bs == <<a, b>>
<1>1. SameData /\ Srv!IInv
  BY UnchangedSame DEF Start, IInv
<1>2. /\ a \in RequestBodies /\ b \in RequestBodies
      /\ a.type = "GetObjectIDs" /\ b.type = "GetDescPage" /\ b.pos = 0
      /\ Ask(a) = Sending(a) /\ Ask(b) = Sending(b)
  BY Says DEF Msg, GetDescPage, Sending
<1>3. Srv!HandleEvent(<<Ask(a), Ask(b)>>, <<>>) /\ Content.type \in {"Connected", "NewTurn"}
  BY DEF Start, Arrives, Content
<1> HIDE DEF a, b
<1>4. bs \in Seq(RequestBodies) /\ ToSet(bs) = {a, b} /\ Srv!HandleEvent(Asks(bs), <<>>)
      /\ \A X : Count(bs, X) = (IF a \in X THEN 1 ELSE 0) + (IF b \in X THEN 1 ELSE 0)
  BY <1>2, <1>3, TwoSent
<1> HIDE DEF bs
<1>5. Content \in Replies /\ Srv!HandleEvent(Asks(bs), Events(Nothing)) /\ Nothing \in Seq(Replies)
  BY <1>1, <1>4, NothingSent, EventEffect
<1>6. \A r \in ToSet(bs) : RequestMeant(r) /\ ~AboutOrders(r) /\ RequestTrue(r)
  BY <1>2, <1>4 DEF RequestMeant, AboutOrders, RequestTrue
<1>7. ASSUME NEW t, DescribedFirst(t) PROVE DescribedFirst(t)'
  <2>1. Content \notin Describing(t) /\ Content \notin Paging
    BY <1>3 DEF Describing, Paging
  <2>2. /\ ToSet(bs) \cap OrderThings = {} /\ ToSet(bs) \cap ObjectThings = {}
        /\ ToSet(bs) \cap Paging # {}
    BY <1>2, <1>4 DEF OrderThings, ObjectThings, Paging, Said, IsOrder, Announces
  <2>3. ToSet(Nothing) = {}
    BY NothingSent
  <2> QED BY <1>1, <1>4, <1>5, <1>7, <2>1, <2>2, <2>3, EventDescribed
<1>8. ASSUME NEW p
      PROVE  /\ Count(bs, AskedOf(p)) = 1 /\ Content \in HeardOf(p)
             /\ ToSet(bs) \cap Renews(p) # {}
             /\ \A s : Content \notin Fills(p, s)
  BY <1>2, <1>3, <1>4, <1>5 DEF AskedOf, HeardOf, Lists, Renews, Fills, Said, Announces
<1>9. OnePage => \A t \in Types \ descs' : DescribedFirst(t)'
  BY <1>1, <1>7 DEF IInv, DescriptionsFirst, SameData
<1>10. /\ \A p \in Planets : Count(bs, AskedOf(p)) <= IF Content \in HeardOf(p) THEN 1 ELSE 0
       /\ \A p \in DOMAIN objects :
            Content \in Renews(p) => Fresh(p) \/ ToSet(bs) \cap Renews(p) # {}
       /\ \A p \in DOMAIN objects : \A s \in AskedSlots(objects[p].norders) :
            Content \in Fills(p, s) => ToSet(bs) \cap Fills(p, s) # {}
  BY <1>8
<1> QED BY <1>1, <1>4, <1>6, <1>9, <1>10, EventStep

Gets(ids, get) == IF ids = <<>> THEN Nothing ELSE <<get>>

LEMMA GetsSent ==
  ASSUME NEW ids, NEW get \in RequestBodies, get.type # "ProbeOrder"
  PROVE  /\ Gets(ids, get) \in Seq(RequestBodies)
         /\ Asks(Gets(ids, get)) = GetIf(ids, get)
         /\ ToSet(Gets(ids, get)) = IF ids = <<>> THEN {} ELSE {get}
         /\ \A X : Count(Gets(ids, get), X) = IF ids # <<>> /\ get \in X THEN 1 ELSE 0
<1>1. CASE ids = <<>>
  <2>1. Gets(ids, get) = Nothing /\ GetIf(ids, get) = <<>>
    BY <1>1 DEF Gets, GetIf
  <2> QED BY <1>1, <2>1, NothingSent
<1>2. CASE ids # <<>>
  <2>1. Gets(ids, get) = <<get>> /\ GetIf(ids, get) = <<Ask(get)>> /\ Sending(get) = Ask(get)
    BY <1>2 DEF Gets, GetIf, Sending
  <2>2. <<get>> \in Seq(RequestBodies) /\ Asks(<<get>>) = <<Ask(get)>> /\ ToSet(<<get>>) = {get}
        /\ \A X : Count(<<get>>, X) = IF get \in X THEN 1 ELSE 0
    BY <2>1, OneSent
  <2> QED BY <1>2, <2>1, <2>2
<1> QED BY <1>1, <1>2

LEMMA ObjectIdsInv ==
  ASSUME IInv, ObjectIds
  PROVE  IInv'
<1> DEFINE known(p) == IF p \in DOMAIN objects THEN objects[p].updated ELSE 0
           N == {p \in Planets : known(p) < Content.updated[p]}
           new == Ascending(N)
           get == GetObjects(new)
           bs == Gets(new, get)
<1>1. SameData /\ Srv!IInv
  BY UnchangedSame DEF ObjectIds, IInv
<1>2. /\ N \in SUBSET Planets /\ N \in SUBSET Nat /\ IsFiniteSet(N)
  BY TypesAssumption, FS_Subset
<1>3. Srv!HandleEvent(GetIf(new, get), <<>>) /\ Content.type = "ListOfObjects"
  BY DEF ObjectIds, Arrives, Content
<1>4. \A p \in N : p \in Planets
  BY <1>2
<1>5. \A p \in DOMAIN objects : p \in N <=> p \in Planets /\ objects[p].updated < Content.updated[p]
  OBVIOUS
<1> HIDE DEF N
<1>6. /\ new \in Seq(Nat) /\ ToSet(new) = N /\ (new = <<>> <=> N = {})
      /\ \A i, j \in 1..Len(new) : new[i] = new[j] => i = j
  <2>1. /\ new \in Seq(N) /\ ToSet(new) = N /\ Len(new) = Cardinality(N)
        /\ \A i, j \in 1..Cardinality(N) : new[i] = new[j] => i = j
    BY <1>2, AscendingIs
  <2> HIDE DEF new
  <2>2. new \in Seq(Nat) /\ (new = <<>> <=> N = {})
    BY <1>2, <2>1, SeqMonotonic, Contents
  <2> QED BY <2>1, <2>2
<1> HIDE DEF new
<1>7. get \in RequestBodies /\ get.type = "GetObjects" /\ get.ids = new
  BY <1>6, Says DEF GetObjects
<1> HIDE DEF get
<1>8. /\ bs \in Seq(RequestBodies) /\ Srv!HandleEvent(Asks(bs), <<>>)
      /\ ToSet(bs) = IF N = {} THEN {} ELSE {get}
      /\ \A X : Count(bs, X) \in {0, 1}
  BY <1>3, <1>6, <1>7, GetsSent
<1> HIDE DEF bs
<1>9. /\ Content \in Replies /\ Content \in Passing /\ Content \in UnderWay
      /\ Srv!HandleEvent(Asks(bs), Events(Nothing)) /\ Nothing \in Seq(Replies)
  BY <1>1, <1>8, NothingSent, EventEffect
<1>10. \A r \in ToSet(bs) : RequestMeant(r) /\ ~AboutOrders(r) /\ RequestTrue(r)
  BY <1>4, <1>6, <1>7, <1>8 DEF RequestMeant, AboutOrders, RequestTrue
<1>11. ASSUME NEW t, DescribedFirst(t) PROVE DescribedFirst(t)'
  <2>1. /\ Content \notin Describing(t) /\ Content \notin Paging
        /\ Content \in ListThings
    BY <1>3, <1>9 DEF Describing, Paging, ListThings, Said
  <2>2. ToSet(bs) \cap OrderThings = {}
    BY <1>7, <1>8 DEF OrderThings, IsOrder
  <2>3. ToSet(Nothing) = {}
    BY NothingSent
  <2>4. IsUnderWay(Describing(t)) \/ IsUnderWay(Paging)
    BY <1>9, <1>11, <2>1 DEF DescribedFirst, IsUnderWay
  <2> QED BY <1>1, <1>8, <1>9, <1>11, <2>1, <2>2, <2>3, <2>4, EventDescribed
<1>12. OnePage => \A t \in Types \ descs' : DescribedFirst(t)'
  BY <1>1, <1>11 DEF IInv, DescriptionsFirst, SameData
<1>13. ASSUME Reading, NEW p \in DOMAIN objects, ~Fresh(p)
       PROVE  ToSet(bs) \cap Renews(p) # {}
  <2>1. Content.updated = changed
    BY <1>3, <1>9, <1>13 DEF IInv, AllTrue, ReplyTrue
  <2>2. p \in Planets /\ objects[p].updated \in Nat /\ objects[p].updated <= changed[p]
        /\ changed[p] \in Nat
    BY <1>13 DEF IInv, ObjectsKept, ObjectOK, ObjectType, Typed
  <2>3. objects[p].updated # changed[p]
    BY <1>13 DEF Fresh
  <2>4. p \in N
    BY <1>5, <2>1, <2>2, <2>3
  <2>5. get \in ToSet(bs) /\ p \in ToSet(get.ids)
    BY <1>6, <1>7, <1>8, <2>4
  <2> QED BY <1>7, <2>5 DEF Renews, Said
<1>14. ASSUME NEW p \in Planets PROVE Content \in HeardOf(p)
  BY <1>3, <1>9 DEF HeardOf, Lists
<1>15. ASSUME NEW p, NEW s PROVE Content \notin Fills(p, s)
  BY <1>3 DEF Fills, Announces
<1>16. Reading =>
       /\ \A p \in Planets : Count(bs, AskedOf(p)) <= IF Content \in HeardOf(p) THEN 1 ELSE 0
       /\ \A p \in DOMAIN objects :
            Content \in Renews(p) => Fresh(p) \/ ToSet(bs) \cap Renews(p) # {}
       /\ \A p \in DOMAIN objects : \A s \in AskedSlots(objects[p].norders) :
            Content \in Fills(p, s) => ToSet(bs) \cap Fills(p, s) # {}
  <2>1. \A n \in {0, 1} : n <= 1
    OBVIOUS
  <2> QED BY <1>8, <1>13, <1>14, <1>15, <2>1
<1> QED BY <1>1, <1>8, <1>10, <1>12, <1>16, EventStep

LEMMA AsksConcat ==
  ASSUME NEW as \in Seq(RequestBodies), NEW bs \in Seq(RequestBodies)
  PROVE  Asks(as \o bs) = Asks(as) \o Asks(bs)
<1> DEFINE u == as \o bs
           m == Len(as)
           n == Len(bs)
           a == Asks(as)
           b == Asks(bs)
           c == Asks(u)
<1>1. /\ u \in Seq(RequestBodies) /\ Len(u) = m + n /\ m \in Nat /\ n \in Nat
      /\ \A i \in 1..(m + n) : u[i] = IF i <= m THEN as[i] ELSE bs[i - m]
  BY ConcatProperties, LenProperties
<1>2. /\ a \in Seq(Srv!Request) /\ b \in Seq(Srv!Request) /\ c \in Seq(Srv!Request)
  BY <1>1, Sent
<1>3. /\ Len(a) = m /\ Len(b) = n /\ Len(c) = m + n
      /\ \A i \in 1..m : a[i] = Sending(as[i])
      /\ \A i \in 1..n : b[i] = Sending(bs[i])
      /\ \A i \in 1..(m + n) : c[i] = Sending(u[i])
  <2> HIDE DEF m, n, u
  <2>1. /\ a = [i \in 1..m |-> Sending(as[i])]
        /\ b = [i \in 1..n |-> Sending(bs[i])]
        /\ c = [i \in 1..(m + n) |-> Sending(u[i])]
    BY <1>1 DEF Asks, m, n
  <2> HIDE DEF a, b, c
  <2> QED BY <1>1, <1>2, <2>1, LenProperties
<1> HIDE DEF a, b, c, m, n, u
<1>4. /\ a \o b \in Seq(Srv!Request) /\ Len(a \o b) = m + n
      /\ \A i \in 1..(m + n) : (a \o b)[i] = IF i <= m THEN a[i] ELSE b[i - m]
  <2> PICK R : R = Srv!Request
    OBVIOUS
  <2>1. a \in Seq(R) /\ b \in Seq(R)
    BY <1>2
  <2>2. /\ a \o b \in Seq(R) /\ Len(a \o b) = Len(a) + Len(b)
        /\ \A i \in 1..(Len(a) + Len(b)) :
             (a \o b)[i] = IF i <= Len(a) THEN a[i] ELSE b[i - Len(a)]
    BY ONLY <2>1, ConcatProperties
  <2>3. Len(a) = m /\ Len(b) = n
    BY <1>3
  <2> QED BY <2>2, <2>3
<1>5. ASSUME NEW i \in 1..(m + n) PROVE c[i] = (a \o b)[i]
  <2>1. CASE i <= m
    <3>1. i \in 1..m
      BY <1>1, <2>1
    <3>2. u[i] = as[i] /\ (a \o b)[i] = a[i]
      BY <1>1, <1>4, <2>1
    <3>3. a[i] = Sending(as[i]) /\ c[i] = Sending(u[i])
      BY <1>3, <3>1
    <3> QED BY <3>2, <3>3
  <2>2. CASE ~(i <= m)
    <3>1. i - m \in 1..n
      BY <1>1, <2>2
    <3>2. u[i] = bs[i - m] /\ (a \o b)[i] = b[i - m]
      BY <1>1, <1>4, <2>2
    <3>3. b[i - m] = Sending(bs[i - m]) /\ c[i] = Sending(u[i])
      BY <1>3, <3>1
    <3> QED BY ONLY <3>2, <3>3
  <2> QED BY <2>1, <2>2
<1> QED BY <1>2, <1>3, <1>4, <1>5, SeqEqual DEF a, b, c, u

LEMMA DescIdsInv ==
  ASSUME IInv, DescIds
  PROVE  IInv'
<1> DEFINE new == Selected(Content.ids, Types \ descs)
           get == GetDescs(new)
           more == GetDescPage(Content.next)
           next == IF Content.next > 0 THEN <<1>> ELSE <<>>
           as == Gets(new, get)
           cs == Gets(next, more)
           bs == as \o cs
<1>1. SameData /\ Srv!IInv
  BY UnchangedSame DEF DescIds, IInv
<1>2. /\ Srv!HandleEvent(GetIf(new, get)
                            \o (IF Content.next > 0 THEN <<Ask(more)>> ELSE <<>>), <<>>)
      /\ Content.type = "ListOfDescs" /\ events # <<>>
  BY DEF DescIds, Arrives, Content
<1>3. Content \in Replies
  BY <1>1, <1>2, Queues, HeadAndTail
<1>4. Content.ids \in Seq(Types) /\ Content.next \in Nat
  BY <1>2, <1>3, SaidToClient
<1>5. GetIf(next, more) = IF Content.next > 0 THEN <<Ask(more)>> ELSE <<>>
  BY DEF GetIf
<1>6. /\ new \in Seq(Nat) /\ ToSet(new) = ToSet(Content.ids) \cap (Types \ descs)
      /\ (new = <<>> <=> ToSet(new) = {})
  <2>1. /\ new \in Seq(Types \cap (Types \ descs))
        /\ ToSet(new) = ToSet(Content.ids) \cap (Types \ descs)
    <3>1. PICK ids \in Seq(Types) : ids = Content.ids
      BY <1>4
    <3>0. PICK T : T = Types \ descs
      OBVIOUS
    <3>2. Selected(ids, T) \in Seq(Types \cap T) /\ ToSet(Selected(ids, T)) = ToSet(ids) \cap T
      BY SelectedIs
    <3> QED BY <3>0, <3>1, <3>2
  <2> HIDE DEF new
  <2>2. Types \cap (Types \ descs) \subseteq Nat
    BY TypesAssumption
  <2>3. new \in Seq(Nat)
    BY <2>1, <2>2, SeqMonotonic
  <2> QED BY <2>1, <2>3, Contents
<1> HIDE DEF new, next
<1>7. /\ get \in RequestBodies /\ get.type = "GetDescs" /\ get.ids = new
      /\ more \in RequestBodies /\ more.type = "GetDescPage"
  BY <1>4, <1>6, Says DEF GetDescs, GetDescPage
<1> HIDE DEF get, more
<1>8. /\ as \in Seq(RequestBodies) /\ Asks(as) = GetIf(new, get)
      /\ ToSet(as) = IF new = <<>> THEN {} ELSE {get}
      /\ cs \in Seq(RequestBodies) /\ Asks(cs) = GetIf(next, more)
      /\ ToSet(cs) \subseteq {more}
  BY <1>7, GetsSent
<1> HIDE DEF as, cs
<1>9. /\ bs \in Seq(RequestBodies) /\ Srv!HandleEvent(Asks(bs), <<>>)
      /\ ToSet(bs) = ToSet(as) \cup ToSet(cs)
  <2>1. bs \in Seq(RequestBodies) /\ ToSet(bs) = ToSet(as) \cup ToSet(cs)
    <3>1. PICK a \in Seq(RequestBodies), c \in Seq(RequestBodies) : a = as /\ c = cs
      BY <1>8
    <3>2. a \o c \in Seq(RequestBodies) /\ ToSet(a \o c) = ToSet(a) \cup ToSet(c)
      BY ConcatContents
    <3> QED BY <3>1, <3>2
  <2>2. Asks(bs) = Asks(as) \o Asks(cs)
    BY <1>8, AsksConcat
  <2> QED BY <1>2, <1>5, <1>8, <2>1, <2>2
<1> HIDE DEF bs
<1>10. ToSet(bs) \subseteq {get, more}
  BY <1>8, <1>9
<1>11. Srv!HandleEvent(Asks(bs), Events(Nothing)) /\ Nothing \in Seq(Replies) /\ ToSet(Nothing) = {}
  BY <1>9, NothingSent
<1>12. \A r \in ToSet(bs) : RequestMeant(r) /\ ~AboutOrders(r) /\ RequestTrue(r)
  BY <1>6, <1>7, <1>10 DEF RequestMeant, AboutOrders, RequestTrue
<1>13. ASSUME NEW t \in Types \ descs, DescribedFirst(t) PROVE DescribedFirst(t)'
  <2>1. Content \notin Describing(t)
    BY <1>2 DEF Describing
  <2>2. /\ ToSet(bs) \cap OrderThings = {} /\ ToSet(bs) \cap ObjectThings = {}
        /\ ToSet(bs) \cap ListThings = {}
    BY <1>7, <1>10 DEF OrderThings, ObjectThings, ListThings, IsOrder, Announces
  <2>3. Content \in Paging => ToSet(bs) \cap Describing(t) # {}
    <3> SUFFICES ASSUME Content \in Paging PROVE ToSet(bs) \cap Describing(t) # {}
      OBVIOUS
    <3>1. ToSet(Content.ids) = Types
      BY <1>2 DEF Paging
    <3>2. t \in ToSet(new) /\ new # <<>>
      BY <1>6, <3>1
    <3>3. get \in ToSet(bs)
      BY <1>8, <1>9, <3>2
    <3>4. get \in Describing(t)
      BY <1>7, <3>2 DEF Describing, Said
    <3> QED BY <3>3, <3>4
  <2> QED BY <1>1, <1>9, <1>11, <1>13, <2>1, <2>2, <2>3, EventDescribed
<1>14. OnePage => \A t \in Types \ descs' : DescribedFirst(t)'
  BY <1>1, <1>13 DEF IInv, DescriptionsFirst, SameData
<1>15. ASSUME NEW p
       PROVE  /\ Count(bs, AskedOf(p)) = 0
              /\ Content \notin Renews(p) /\ \A s : Content \notin Fills(p, s)
  <2>1. ToSet(bs) \cap AskedOf(p) = {}
    BY <1>7, <1>10 DEF AskedOf
  <2>2. Count(bs, AskedOf(p)) = 0
    BY <1>9, <2>1, PlacesFinite DEF Count
  <2> QED BY <1>2, <2>2 DEF Renews, Fills, Lists, Announces
<1>16. Reading =>
       /\ \A p \in Planets : Count(bs, AskedOf(p)) <= IF Content \in HeardOf(p) THEN 1 ELSE 0
       /\ \A p \in DOMAIN objects :
            Content \in Renews(p) => Fresh(p) \/ ToSet(bs) \cap Renews(p) # {}
       /\ \A p \in DOMAIN objects : \A s \in AskedSlots(objects[p].norders) :
            Content \in Fills(p, s) => ToSet(bs) \cap Fills(p, s) # {}
  BY <1>15
<1> QED BY <1>1, <1>9, <1>12, <1>14, <1>16, EventStep

LEMMA ObjectUpdateInv ==
  ASSUME IInv, ObjectUpdate
  PROVE  IInv'
<1> DEFINE id == Content.id
           n == objects[id].norders
           portions == Portions(n)
           bs == [f \in 1..Len(portions) |-> GetOrder(id, portions[f])]
<1>1. SameData /\ Srv!IInv
  BY UnchangedSame DEF ObjectUpdate, IInv
<1>2. /\ Srv!HandleEvent([f \in 1..Len(portions) |-> Ask(GetOrder(id, portions[f]))], <<>>)
      /\ Content.type \in {"ObjectNew", "ObjectChanged"} /\ events # <<>>
  BY DEF ObjectUpdate, Arrives, Content
<1>3. Content \in Replies /\ Content \in Passing /\ Waiting # <<>>
  <2>1. Content = Head(Waiting) /\ Waiting # <<>> /\ Waiting \in Seq(Replies)
    BY <1>1, <1>2, Queues
  <2>2. Content \in Replies /\ Content \in ToSet(Waiting)
    BY <2>1, HeadAndTail
  <2> QED BY <2>1, <2>2 DEF Passing
<1>4. id \in Planets /\ id \in DOMAIN objects /\ n \in Nat /\ Announces(Content)
  <2>1. Announces(Content)
    BY <1>2 DEF Announces
  <2>2. id \in Planets /\ id \in DOMAIN objects
    BY <1>2, <1>3, <2>1, SaidToClient DEF IInv, Meant, ReplyMeant
  <2> QED BY <2>1, <2>2 DEF IInv, ObjectsKept, ObjectOK, ObjectType
<1>5. /\ portions \in Seq(Seq(Nat))
      /\ n = 0 => ToSet(portions) = {}
      /\ \A x \in ToSet(portions) : ToSet(x) \subseteq AskedSlots(n)
      /\ \A s \in AskedSlots(n) : \E x \in ToSet(portions) : s \in ToSet(x)
  BY <1>4, PortionsAre
<1> HIDE DEF portions
<1>6. ASSUME NEW x \in Seq(Nat)
      PROVE  /\ GetOrder(id, x) \in RequestBodies /\ Ask(GetOrder(id, x)) = Sending(GetOrder(id, x))
             /\ GetOrder(id, x).type = "GetOrder" /\ GetOrder(id, x).id = id
             /\ GetOrder(id, x).slots = x
  <2>1. GetOrder(id, x) \in RequestBodies
    BY <1>4, Says
  <2>2. /\ GetOrder(id, x).type = "GetOrder" /\ GetOrder(id, x).id = id
        /\ GetOrder(id, x).slots = x
    BY DEF GetOrder
  <2> QED BY <2>1, <2>2 DEF Sending
<1>7. /\ Len(portions) \in Nat /\ \A f \in 1..Len(portions) : portions[f] \in Seq(Nat)
      /\ ToSet(portions) = {portions[f] : f \in 1..Len(portions)}
  <2>1. PICK q \in Seq(Seq(Nat)) : q = portions
    BY <1>5
  <2>2. Len(q) \in Nat /\ ToSet(q) = {q[f] : f \in 1..Len(q)}
    BY Contents
  <2>3. \A f \in 1..Len(q) : q[f] \in Seq(Nat)
    BY ONLY q \in Seq(Seq(Nat))
  <2> QED BY <2>1, <2>2, <2>3
<1>8. /\ bs \in Seq(RequestBodies) /\ Len(bs) = Len(portions)
      /\ \A f \in 1..Len(portions) : bs[f] = GetOrder(id, portions[f])
  <2>1. bs \in [1..Len(portions) -> RequestBodies]
    BY <1>6, <1>7
  <2>2. \A f \in 1..Len(portions) : bs[f] = GetOrder(id, portions[f])
    OBVIOUS
  <2> HIDE DEF bs
  <2> QED BY <1>7, <2>1, <2>2, FunctionIsSequence
<1>9. ToSet(bs) = {GetOrder(id, x) : x \in ToSet(portions)}
  <2> HIDE DEF bs, id
  <2>1. ToSet(bs) = {bs[f] : f \in 1..Len(bs)}
    BY <1>8, Contents
  <2>2. ToSet(bs) = {GetOrder(id, portions[f]) : f \in 1..Len(portions)}
    BY ONLY <1>8, <2>1
  <2> PICK P : P = portions
    OBVIOUS
  <2>3. ToSet(P) = {P[f] : f \in 1..Len(P)}
    BY <1>7
  <2>4. ToSet(bs) = {GetOrder(id, P[f]) : f \in 1..Len(P)}
    BY <2>2
  <2> QED BY ONLY <2>3, <2>4, P = portions
<1>10. Asks(bs) = [f \in 1..Len(portions) |-> Ask(GetOrder(id, portions[f]))]
  <2> HIDE DEF bs, id
  <2>1. \A f \in 1..Len(portions) : Sending(bs[f]) = Ask(GetOrder(id, portions[f]))
    BY <1>6, <1>7, <1>8
  <2> QED BY <1>8, <2>1 DEF Asks
<1> HIDE DEF bs
<1>11. /\ Srv!HandleEvent(Asks(bs), <<>>) /\ Srv!HandleEvent(Asks(bs), Events(Nothing))
       /\ Nothing \in Seq(Replies) /\ ToSet(Nothing) = {}
  BY <1>2, <1>10, NothingSent
<1>12. \A r \in ToSet(bs) : \E x \in ToSet(portions) :
         /\ r \in RequestBodies /\ r.type = "GetOrder" /\ r.id = id /\ r.slots = x
  <2> HIDE DEF id
  <2> QED BY <1>6, <1>7, <1>9
<1>13. \A r \in ToSet(bs) : RequestMeant(r)
  BY <1>4, <1>12 DEF RequestMeant
<1>14. ~paramsRead => ToSet(bs) = {}
  BY <1>4, <1>5, <1>12 DEF IInv, NoneRead
<1>15. ASSUME NEW t, DescribedFirst(t) PROVE DescribedFirst(t)'
  <2>1. Content \notin Describing(t) /\ Content \in ObjectThings
    BY <1>2, <1>3, <1>4 DEF Describing, ObjectThings, Said
  <2>2. IsUnderWay(Describing(t))
    BY <1>1, <1>3, <1>15, <2>1, ObjectThingsFirst
  <2> QED BY <1>1, <1>8, <1>11, <1>15, <2>1, <2>2, EventDescribed
<1>16. OnePage => \A t \in Types \ descs' : DescribedFirst(t)'
  BY <1>1, <1>15 DEF IInv, DescriptionsFirst, SameData
<1>17. ASSUME NEW p PROVE Count(bs, AskedOf(p)) = 0 /\ Content \notin Renews(p)
  <2>1. ToSet(bs) \cap AskedOf(p) = {}
    BY <1>12 DEF AskedOf
  <2>2. Count(bs, AskedOf(p)) = 0
    BY <1>8, <2>1, PlacesFinite DEF Count
  <2> QED BY <1>2, <2>2 DEF Renews, Lists
<1>18. ASSUME Reading, NEW r \in ToSet(bs) PROVE RequestTrue(r)
  <2>1. PICK x \in ToSet(portions) : r.type = "GetOrder" /\ r.id = id /\ r.slots = x
    BY <1>12, <1>18
  <2>2. Fresh(id)
    <3>1. n # 0
      BY <1>5, <2>1
    <3> QED BY <1>3, <1>4, <1>18, <3>1 DEF IInv, AllTrue, ReplyTrue
  <2>3. \A s \in ToSet(x) : s \in AskedSlots(n)
    BY <1>5
  <2> QED BY <2>1, <2>2, <2>3 DEF RequestTrue, SlotThere
<1>19. ASSUME NEW p \in DOMAIN objects, NEW s \in AskedSlots(objects[p].norders),
              Content \in Fills(p, s)
       PROVE  ToSet(bs) \cap Fills(p, s) # {}
  <2>1. p = id
    BY <1>2, <1>19 DEF Fills
  <2>2. PICK x \in ToSet(portions) : s \in ToSet(x)
    BY <1>5, <1>19, <2>1
  <2>3. GetOrder(id, x) \in ToSet(bs)
    BY <1>9, <2>2
  <2>4. GetOrder(id, x) \in Fills(p, s)
    <3>1. x \in Seq(Nat)
      BY <1>7
    <3> QED BY <1>6, <2>1, <2>2, <3>1 DEF Fills, Said
  <2> QED BY <2>3, <2>4
<1>20. Reading =>
       /\ \A p \in Planets : Count(bs, AskedOf(p)) <= IF Content \in HeardOf(p) THEN 1 ELSE 0
       /\ \A r \in ToSet(bs) : RequestTrue(r)
       /\ \A p \in DOMAIN objects :
            Content \in Renews(p) => Fresh(p) \/ ToSet(bs) \cap Renews(p) # {}
       /\ \A p \in DOMAIN objects : \A s \in AskedSlots(objects[p].norders) :
            Content \in Fills(p, s) => ToSet(bs) \cap Fills(p, s) # {}
  BY <1>17, <1>18, <1>19
<1> QED BY <1>1, <1>8, <1>11, <1>13, <1>14, <1>16, <1>20, EventStep

(* An event that is handled without sending anything.                      *)
LEMMA QuietEventStep ==
  ASSUME IInv, SameData, Srv!HandleEvent(<<>>, <<>>),
         OnePage => \A t \in Types \ descs' : Content \notin Describing(t),
         Content.type \in {"Desc", "Fail"} \/ (Content.type = "Order" /\ Content.slot = -1)
  PROVE  IInv'
<1> DEFINE bs == Nothing
<1>1. /\ Srv!HandleEvent(Asks(bs), <<>>) /\ Srv!HandleEvent(Asks(bs), Events(Nothing))
      /\ bs \in Seq(RequestBodies) /\ Nothing \in Seq(Replies)
      /\ ToSet(bs) = {} /\ ToSet(Nothing) = {} /\ \A X : Count(bs, X) = 0
  BY NothingSent
<1> HIDE DEF bs
<1>2. ASSUME OnePage, NEW t \in Types \ descs' PROVE DescribedFirst(t)'
  <2>1. DescribedFirst(t) /\ Srv!IInv
    BY <1>2 DEF IInv, DescriptionsFirst, SameData
  <2>2. Content \notin Describing(t) /\ Content \notin Paging
    BY <1>2 DEF Paging
  <2> QED BY <1>1, <2>1, <2>2, EventDescribed
<1>3. OnePage => \A t \in Types \ descs' : DescribedFirst(t)'
  BY <1>2
<1>4. ASSUME NEW p \in DOMAIN objects
      PROVE  /\ Content \notin Renews(p)
             /\ \A s \in AskedSlots(objects[p].norders) : Content \notin Fills(p, s)
  BY DEF Renews, Fills, Lists, Announces, AskedSlots, Slots
<1>5. Reading =>
       /\ \A p \in Planets : Count(bs, AskedOf(p)) <= IF Content \in HeardOf(p) THEN 1 ELSE 0
       /\ \A p \in DOMAIN objects :
            Content \in Renews(p) => Fresh(p) \/ ToSet(bs) \cap Renews(p) # {}
       /\ \A p \in DOMAIN objects : \A s \in AskedSlots(objects[p].norders) :
            Content \in Fills(p, s) => ToSet(bs) \cap Fills(p, s) # {}
  BY <1>1, <1>4
<1> QED BY <1>1, <1>3, <1>5, EventStep

LEMMA FailInv ==
  ASSUME IInv, Fail
  PROVE  IInv'
<1>1. SameData /\ Srv!HandleEvent(<<>>, <<>>) /\ Content.type = "Fail"
  BY UnchangedSame DEF Fail, Arrives, Content
<1>2. \A t : Content \notin Describing(t)
  BY <1>1 DEF Describing
<1> QED BY <1>1, <1>2, QuietEventStep

LEMMA DescReceiveInv ==
  ASSUME IInv, DescReceive
  PROVE  IInv'
<1>1. /\ SameData /\ Srv!HandleEvent(<<>>, <<>>) /\ Content.type = "Desc"
      /\ descs' = descs \cup {Content.id}
  BY DEF DescReceive, Arrives, Content, SameData, chosenVars, peerVars
<1>2. \A t \in Types \ descs' : Content \notin Describing(t)
  BY <1>1 DEF Describing
<1> QED BY <1>1, <1>2, QuietEventStep

LEMMA SmithOrderPlanetInv ==
  ASSUME IInv, SmithOrderPlanet
  PROVE  IInv'
<1> DEFINE a == ProbeOrder(Content.id, BuildType)
           bs == <<a>>
<1>1. SameData /\ Srv!IInv
  BY UnchangedSame DEF SmithOrderPlanet, IInv
<1>2. /\ Srv!HandleEvent(<<AskCalling(a, "smith")>>, <<>>)
      /\ Content.type = "PlanetNoOrders" /\ events # <<>>
  BY DEF SmithOrderPlanet, Arrives, Content
<1>3. Content \in Replies /\ Content \in Passing /\ Content \in UnderWay
  <2>1. Content = Head(Waiting) /\ Waiting # <<>> /\ Waiting \in Seq(Replies)
    BY <1>1, <1>2, Queues
  <2>2. Content \in Replies /\ Content \in ToSet(Waiting)
    BY <2>1, HeadAndTail
  <2> QED BY <2>1, <2>2 DEF Passing, UnderWay
<1>4. Content.id \in Planets
  BY <1>2, <1>3, SaidToClient
<1>5. /\ a \in RequestBodies /\ a.type = "ProbeOrder" /\ a.id = Content.id
      /\ Sending(a) = AskCalling(a, "smith")
  <2>1. a \in RequestBodies
    BY <1>4, TypesAssumption, Says
  <2> QED BY <2>1 DEF ProbeOrder, Sending
<1> HIDE DEF a
<1>6. bs \in Seq(RequestBodies) /\ ToSet(bs) = {a} /\ Srv!HandleEvent(Asks(bs), <<>>)
      /\ \A X : Count(bs, X) = IF a \in X THEN 1 ELSE 0
  <2>1. bs \in Seq(RequestBodies)
    BY <1>5, OneSent
  <2>2. /\ Asks(bs) = <<Sending(a)>> /\ ToSet(bs) = {a}
        /\ \A X : Count(bs, X) = IF a \in X THEN 1 ELSE 0
    BY OneSent
  <2> HIDE DEF bs
  <2> QED BY <1>2, <1>5, <2>1, <2>2
<1> HIDE DEF bs
<1>7. Srv!HandleEvent(Asks(bs), Events(Nothing)) /\ Nothing \in Seq(Replies) /\ ToSet(Nothing) = {}
  BY <1>6, NothingSent
<1>8. \A r \in ToSet(bs) : RequestMeant(r)
  BY <1>5, <1>6 DEF RequestMeant
<1>9. paramsRead
  BY <1>2, <1>3 DEF IInv, NoneRead, AboutOrders
<1>10. ASSUME NEW t, DescribedFirst(t) PROVE DescribedFirst(t)'
  <2>1. Content \notin Describing(t) /\ Content \notin Paging
    BY <1>2 DEF Describing, Paging
  <2>2. /\ ToSet(bs) \cap OrderThings = {} /\ ToSet(bs) \cap ObjectThings = {}
        /\ ToSet(bs) \cap ListThings = {}
    BY <1>5, <1>6 DEF OrderThings, ObjectThings, ListThings, IsOrder, Announces
  <2> QED BY <1>1, <1>6, <1>7, <1>10, <2>1, <2>2, EventDescribed
<1>11. OnePage => \A t \in Types \ descs' : DescribedFirst(t)'
  BY <1>1, <1>10 DEF IInv, DescriptionsFirst, SameData
<1>12. ASSUME NEW p
       PROVE  /\ Count(bs, AskedOf(p)) <= IF Content \in HeardOf(p) THEN 1 ELSE 0
              /\ Content \notin Renews(p) /\ \A s : Content \notin Fills(p, s)
  BY <1>2, <1>3, <1>5, <1>6 DEF AskedOf, HeardOf, Renews, Lists, Fills, Announces
<1>13. Reading => \A r \in ToSet(bs) : RequestTrue(r)
  <2>1. Reading => WithoutOrders(Content.id)
    BY <1>2, <1>3 DEF IInv, AllTrue, ReplyTrue
  <2> QED BY <1>5, <1>6, <2>1 DEF RequestTrue
<1>14. Reading =>
       /\ \A p \in Planets : Count(bs, AskedOf(p)) <= IF Content \in HeardOf(p) THEN 1 ELSE 0
       /\ \A r \in ToSet(bs) : RequestTrue(r)
       /\ \A p \in DOMAIN objects :
            Content \in Renews(p) => Fresh(p) \/ ToSet(bs) \cap Renews(p) # {}
       /\ \A p \in DOMAIN objects : \A s \in AskedSlots(objects[p].norders) :
            Content \in Fills(p, s) => ToSet(bs) \cap Fills(p, s) # {}
  BY <1>12, <1>13
<1> QED BY <1>1, <1>6, <1>8, <1>9, <1>11, <1>14, EventStep

-----------------------------------------------------------------------------
(* Handling frames                                                         *)

(* smith sends an order when a probe for a planet is answered.             *)
LEMMA FrameSends ==
  ASSUME IInv, Frame
  PROVE  /\ fromServer # <<>> /\ Head(Arriving) \in Replies
         /\ \E bs \in Seq(RequestBodies) :
              /\ Srv!HandlePacket(Asks(bs), <<>>)
              /\ \/ ToSet(bs) = {}
                 \/ /\ Head(Arriving) \in Probed(Head(Arriving).id)
                    /\ Head(Arriving).id \in Planets
                    /\ ToSet(bs) = {InsertOrder(Head(Arriving).id, BuildType)}
                    /\ \A X : Count(bs, X) <= 1
<1> DEFINE f == Head(fromServer)
           h == Head(Arriving)
           a == InsertOrder(h.id, BuildType)
<1>1. Srv!IInv /\ fromServer # <<>>
  BY DEF IInv, Frame
<1>2. /\ f.body = h /\ h \in Replies
      /\ f = fromServer[1] /\ 1 \in 1..Len(fromServer)
  <2>1. f.body = h /\ h \in Replies
    BY <1>1, Queues, HeadAndTail
  <2>2. PICK q \in Seq([seq : Nat, body : Replies, first : BOOLEAN]) : q = fromServer /\ q # <<>>
    BY <1>1, Queues
  <2>3. Head(q) = q[1] /\ 1 \in 1..Len(q)
    BY <2>2, HeadAndTail, Nonempty
  <2> QED BY <2>1, <2>2, <2>3
<1>3. PICK sent \in SmithInserts(f) : Srv!HandlePacket(sent, <<>>)
  BY DEF Frame
<1>4. CASE sent = <<>>
  <2>1. Nothing \in Seq(RequestBodies) /\ Asks(Nothing) = sent /\ ToSet(Nothing) = {}
    BY <1>4, NothingSent
  <2> QED BY <1>1, <1>2, <1>3, <2>1
<1>5. CASE sent # <<>>
  <2>1. "smith" \in Srv!Called(f) /\ f.body.type = "Order"
        /\ sent = <<Ask(InsertOrder(f.body.id, BuildType))>>
    BY <1>3, <1>5 DEF SmithInserts
  <2>2. CallsSmith(f.seq)
    BY <2>1 DEF Srv!Called, Srv!Matching, CallsSmith
  <2>3. h.slot = -1
    BY <1>2, <2>1, <2>2 DEF IInv, SmithCalled, SmithAnswered, OfProbe
  <2>4. h.id \in Planets /\ h \in Probed(h.id)
    BY <1>2, <2>1, <2>3, SaidToClient DEF Probed
  <2>5. a \in RequestBodies
    BY <2>4, Says, TypesAssumption
  <2>6. Sending(a) = Ask(a)
    BY DEF InsertOrder, Sending
  <2>7. sent = <<Ask(a)>>
    BY <1>2, <2>1
  <2> HIDE DEF a
  <2>8. <<a>> \in Seq(RequestBodies)
    BY <2>5, OneSent
  <2>9. /\ Asks(<<a>>) = sent /\ ToSet(<<a>>) = {a} /\ \A X : Count(<<a>>, X) <= 1
    <3>1. /\ Asks(<<a>>) = <<Sending(a)>> /\ ToSet(<<a>>) = {a}
          /\ \A X : Count(<<a>>, X) = IF a \in X THEN 1 ELSE 0
      BY OneSent
    <3> QED BY <2>6, <2>7, <3>1
  <2>10. PICK bs : bs = <<a>>
    OBVIOUS
  <2>11. bs \in Seq(RequestBodies) /\ Srv!HandlePacket(Asks(bs), <<>>)
         /\ ToSet(bs) = {a} /\ \A X : Count(bs, X) <= 1
    BY <1>3, <2>8, <2>9, <2>10
  <2> QED BY <1>1, <1>2, <2>4, <2>11 DEF a
<1> QED BY <1>4, <1>5

LEMMA FrameInv ==
  ASSUME IInv, Frame
  PROVE  IInv'
<1> DEFINE h == Head(Arriving)
           a == InsertOrder(h.id, BuildType)
<1>1. SameData /\ Srv!IInv
  BY UnchangedSame DEF Frame, IInv
<1>2. fromServer # <<>> /\ h \in Replies
  BY FrameSends
<1>3. PICK bs \in Seq(RequestBodies) :
        /\ Srv!HandlePacket(Asks(bs), <<>>)
        /\ \/ ToSet(bs) = {}
           \/ /\ h \in Probed(h.id) /\ h.id \in Planets
              /\ ToSet(bs) = {a} /\ \A X : Count(bs, X) <= 1
  BY FrameSends
<1>4. /\ Srv!IInv' /\ h \in ToSet(Arriving)
      /\ ToSet(Arriving) = {h} \cup ToSet(Arriving')
      /\ ToSet(Wire') = ToSet(Wire) \cup ToSet(bs)
      /\ Passing' \subseteq Passing
      /\ UnderWay \subseteq UnderWay' \cup Unheard
  BY <1>1, <1>2, <1>3, FrameEffect
<1>5. SmithCalled'
  BY <1>1, <1>2, <1>3, SmithFrame DEF IInv
<1>6. a.type = "InsertOrder" /\ a.id = h.id
  BY DEF InsertOrder
<1> HIDE DEF a
<1>7. \A r \in ToSet(bs) : r.type = "InsertOrder" /\ r.id = h.id /\ h \in Probed(h.id)
  BY <1>3, <1>6
<1>8. paramsRead \/ ToSet(bs) = {}
  <2>1. h \in UnderWay
    BY <1>4 DEF UnderWay, Passing
  <2> QED BY <1>7, <2>1 DEF IInv, NoneRead, AboutOrders, Probed
<1>9. OnePage => \A t \in Types \ descs' : DescribedFirst(t)'
  <2> SUFFICES ASSUME OnePage, NEW t \in Types \ descs' PROVE DescribedFirst(t)'
    OBVIOUS
  <2>1. DescribedFirst(t)
    BY <1>1 DEF IInv, DescriptionsFirst, SameData
  <2>2. ToSet(bs) \cap (OrderThings \cup ObjectThings \cup ListThings) = {}
    BY <1>7 DEF OrderThings, ObjectThings, ListThings, IsOrder, Announces
  <2> QED BY <1>1, <1>2, <1>3, <2>1, <2>2, FrameDescribed
<1>10. ASSUME NEW p \in Planets
       PROVE  Count(bs, AskedOf(p)) + (IF h \in HeardOf(p) THEN 1 ELSE 0)
                <= IF h \in AnsweredOf(p) THEN 1 ELSE 0
  <2>1. CASE ToSet(bs) \cap AskedOf(p) = {}
    <3>1. Count(bs, AskedOf(p)) = 0
      BY <1>3, <2>1, PlacesFinite DEF Count
    <3> QED BY <3>1 DEF AnsweredOf
  <2>2. CASE ToSet(bs) \cap AskedOf(p) # {}
    <3>1. PICK n \in Nat : n = Count(bs, AskedOf(p))
      BY <1>3, PlacesFinite DEF Count
    <3>2. n <= 1
      BY <1>3, <2>2, <3>1
    <3>3. h \in Probed(p) /\ h \in AnsweredOf(p) /\ h \notin HeardOf(p)
      BY <1>7, <2>2 DEF AskedOf, Probed, AnsweredOf, HeardOf, Lists
    <3> QED BY <3>1, <3>2, <3>3
  <2> QED BY <2>1, <2>2
<1>11. ASSUME Reading, NEW p \in Planets PROVE Errands(p)' <= 1
  <2>1. Errands(p) <= 1
    BY <1>11 DEF IInv, OneErrand
  <2>2. PICK x \in Nat, y \in Nat, n \in Nat :
          x = Errands(p) /\ y = Errands(p)' /\ n = Count(bs, AskedOf(p))
    BY <1>1, <1>2, <1>3, FrameErrands
  <2>3. y + (IF h \in AnsweredOf(p) THEN 1 ELSE 0) = x + (IF h \in HeardOf(p) THEN 1 ELSE 0) + n
    BY <1>1, <1>2, <1>3, <2>2, FrameErrands
  <2>4. n + (IF h \in HeardOf(p) THEN 1 ELSE 0) <= IF h \in AnsweredOf(p) THEN 1 ELSE 0
    BY <1>10, <2>2
  <2> QED BY <2>1, <2>2, <2>3, <2>4
<1>12. ASSUME Reading, NEW r \in ToSet(bs) PROVE RequestTrue(r)
  <2>1. WithoutOrders(h.id)
    BY <1>3, <1>4, <1>12 DEF IInv, AllTrue
  <2> QED BY <1>7, <1>12, <2>1 DEF RequestTrue
<1>13. ASSUME Reading
       PROVE  \A p \in Planets : \A r \in ToSet(Arriving') : r \in Probed(p) => WithoutOrders(p)
  BY <1>4, <1>13 DEF IInv, AllTrue
<1>14. ASSUME NEW p PROVE Keeps(Renews(p)) /\ \A s : Keeps(Fills(p, s))
  <2>1. /\ \A r \in Renews(p) : r \notin Unheard
        /\ \A s : \A r \in Fills(p, s) : r \notin Unheard
    BY UnheardSaid DEF Renews, Fills, Lists, Announces
  <2>2. UnderWay \cap Renews(p) # {} => UnderWay' \cap Renews(p) # {}
    BY <1>4, <2>1
  <2>3. \A s : UnderWay \cap Fills(p, s) # {} => UnderWay' \cap Fills(p, s) # {}
    BY <1>4, <2>1
  <2> QED BY <2>2, <2>3 DEF Keeps, IsUnderWay, Renews, Fills, Lists, Announces
<1> PICK W : W = ToSet(bs)
  OBVIOUS
<1> PICK C : C = {}
  OBVIOUS
<1>15. C = {} /\ W \cup C = W
  BY C = {}
<1>16. /\ ToSet(Wire') \subseteq ToSet(Wire) \cup W
       /\ Passing' \subseteq Passing \cup C
       /\ \A r \in W : RequestMeant(r)
       /\ \A r \in C : ReplyMeant(r)
       /\ ~paramsRead => \A r \in W \cup C : ~AboutOrders(r)
  BY <1>4, <1>7, <1>8, <1>15, W = ToSet(bs) DEF RequestMeant
<1>17. Reading =>
         /\ \A p \in Planets : Errands(p)' <= 1
         /\ \A r \in W : RequestTrue(r)
         /\ \A r \in C : ReplyTrue(r)
         /\ \A p \in Planets : \A r \in ToSet(Arriving') : r \in Probed(p) => WithoutOrders(p)
         /\ \A p \in DOMAIN objects : Fresh(p) \/ Keeps(Renews(p))
         /\ \A p \in DOMAIN objects :
              \A s \in AskedSlots(objects[p].norders) : Keeps(Fills(p, s))
  BY <1>11, <1>12, <1>13, <1>14, <1>15, W = ToSet(bs)
<1> QED BY <1>1, <1>4, <1>5, <1>9, <1>16, <1>17, PlainStep

-----------------------------------------------------------------------------
(* Answers that leave the server's data as it is                           *)

LEMMA AnswerStep ==
  ASSUME IInv, SameData, NEW bodies \in Seq(Replies) \ {<<>>}, Srv!Answer(bodies),
         Question.type = "ProbeOrder" => \A r \in ToSet(bodies) : OfProbe(r),
         \A r \in ToSet(bodies) : ReplyMeant(r),
         ~paramsRead => \A r \in ToSet(bodies) : ~AboutOrders(r),
         \A t : Question \in Describing(t) => Has(bodies, Describing(t)),
         OnePage /\ Question \in Paging => Has(bodies, Paging),
         Question \notin OrderThings => ToSet(bodies) \cap OrderThings = {},
         Question \notin ObjectThings => ToSet(bodies) \cap ObjectThings = {},
         Question \notin ListThings => ToSet(bodies) \cap ListThings = {},
         Reading =>
           /\ \A p \in Planets :
                Count(bodies, AnsweredOf(p)) <= IF Question \in AskedOf(p) THEN 1 ELSE 0
           /\ \A r \in ToSet(bodies) : ReplyTrue(r)
           /\ \A p \in Planets : \A r \in ToSet(bodies) : r \in Probed(p) => WithoutOrders(p)
           /\ \A p \in DOMAIN objects : Question \in Renews(p) => Has(bodies, Renews(p))
           /\ \A p \in DOMAIN objects : \A s \in AskedSlots(objects[p].norders) :
                Question \in Fills(p, s) => Has(bodies, Fills(p, s))
  PROVE  IInv'
<1>1. Srv!IInv
  BY DEF IInv
<1>2. /\ Srv!IInv'
      /\ ToSet(Wire) = ToSet(Wire') \cup {Question}
      /\ ToSet(Arriving') = ToSet(Arriving) \cup ToSet(bodies)
      /\ Passing' = Passing \cup ToSet(bodies)
      /\ UnderWay \cup ToSet(bodies) \subseteq UnderWay' \cup {Question}
      /\ ToSet(bodies) \subseteq UnderWay'
  BY <1>1, AnswerEffect
<1>3. SmithCalled'
  BY <1>1, SmithAnswer DEF IInv
<1>4. OnePage => \A t \in Types \ descs' : DescribedFirst(t)'
  <2> SUFFICES ASSUME OnePage, NEW t \in Types \ descs' PROVE DescribedFirst(t)'
    OBVIOUS
  <2>1. DescribedFirst(t)
    BY DEF IInv, DescriptionsFirst, SameData
  <2> QED BY <1>1, <2>1, AnswerDescribed
<1>5. ASSUME Reading, NEW p \in Planets PROVE Errands(p)' <= 1
  <2>1. Errands(p) <= 1
    BY <1>5 DEF IInv, OneErrand
  <2>2. PICK x \in Nat, y \in Nat, n \in Nat :
          x = Errands(p) /\ y = Errands(p)' /\ n = Count(bodies, AnsweredOf(p))
    BY <1>1, AnswerErrands
  <2>3. y + (IF Question \in AskedOf(p) THEN 1 ELSE 0) = x + n
    BY <1>1, <2>2, AnswerErrands
  <2>4. n <= IF Question \in AskedOf(p) THEN 1 ELSE 0
    BY <1>5, <2>2
  <2> QED BY <2>1, <2>2, <2>3, <2>4
<1>6. ASSUME NEW Y, Question \in Y => Has(bodies, Y)
      PROVE  UnderWay \cap Y # {} => UnderWay' \cap Y # {}
  BY <1>2, <1>6 DEF Has
<1>7. ASSUME Reading
      PROVE  /\ \A p \in Planets : \A r \in ToSet(Arriving') : r \in Probed(p) => WithoutOrders(p)
             /\ \A p \in DOMAIN objects : Fresh(p) \/ Keeps(Renews(p))
             /\ \A p \in DOMAIN objects :
                  \A s \in AskedSlots(objects[p].norders) : Keeps(Fills(p, s))
  <2>1. \A p \in Planets : \A r \in ToSet(Arriving') : r \in Probed(p) => WithoutOrders(p)
    BY <1>2, <1>7 DEF IInv, AllTrue
  <2>2. ASSUME NEW p \in DOMAIN objects PROVE Keeps(Renews(p))
    <3>1. UnderWay \cap Renews(p) # {} => UnderWay' \cap Renews(p) # {}
      BY <1>6, <1>7
    <3> QED BY <3>1 DEF Keeps, IsUnderWay, Renews, Lists
  <2>3. ASSUME NEW p \in DOMAIN objects, NEW s \in AskedSlots(objects[p].norders)
        PROVE  Keeps(Fills(p, s))
    <3>1. UnderWay \cap Fills(p, s) # {} => UnderWay' \cap Fills(p, s) # {}
      BY <1>6, <1>7
    <3> QED BY <3>1 DEF Keeps, IsUnderWay, Fills, Announces
  <2> QED BY <2>1, <2>2, <2>3
<1> PICK C : C = ToSet(bodies)
  OBVIOUS
<1> PICK W : W = {}
  OBVIOUS
<1>8. W \cup C = C
  BY W = {}
<1>9. /\ ToSet(Wire') \subseteq ToSet(Wire) \cup W
      /\ Passing' \subseteq Passing \cup C
      /\ \A r \in W : RequestMeant(r)
      /\ \A r \in C : ReplyMeant(r)
      /\ ~paramsRead => \A r \in W \cup C : ~AboutOrders(r)
  BY <1>2, <1>8, C = ToSet(bodies), W = {}
<1>10. Reading =>
         /\ \A p \in Planets : Errands(p)' <= 1
         /\ \A r \in W : RequestTrue(r)
         /\ \A r \in C : ReplyTrue(r)
         /\ \A p \in Planets : \A r \in ToSet(Arriving') : r \in Probed(p) => WithoutOrders(p)
         /\ \A p \in DOMAIN objects : Fresh(p) \/ Keeps(Renews(p))
         /\ \A p \in DOMAIN objects :
              \A s \in AskedSlots(objects[p].norders) : Keeps(Fills(p, s))
  BY <1>5, <1>7, C = ToSet(bodies), W = {}
<1> QED BY <1>2, <1>3, <1>4, <1>9, <1>10, PlainStep

LEMMA GroupedAre ==
  ASSUME NEW a \in Seq(Replies)
  PROVE  /\ Grouped(a) \in Seq(Replies) \ {<<>>}
         /\ ToSet(a) \subseteq ToSet(Grouped(a))
         /\ ToSet(Grouped(a)) \subseteq ToSet(a) \cup {Msg("SEQUENCE")}
         /\ \A X : Msg("SEQUENCE") \notin X => Count(Grouped(a), X) = Count(a, X)
<1> DEFINE m == Msg("SEQUENCE")
<1>1. m \in Replies
  BY Says DEF PlainTypes
<1>2. CASE Len(a) = 1
  <2>1. Grouped(a) = a
    BY <1>2 DEF Grouped
  <2>2. ASSUME a = <<>> PROVE FALSE
    <3>1. Len(<<>>) = 0
      OBVIOUS
    <3> QED BY ONLY <1>2, <2>2, <3>1
  <2> QED BY <2>1, <2>2
<1>3. CASE Len(a) # 1
  <2> HIDE DEF m
  <2>1. PICK h \in Seq(Replies) : h = <<m>>
    BY <1>1, OneSent
  <2>2. ToSet(h) = {m} /\ \A X : Count(h, X) = IF m \in X THEN 1 ELSE 0
    BY <2>1, OneSent
  <2>3. Grouped(a) = h \o a
    BY <1>3, <2>1 DEF Grouped, m
  <2>4. h \o a \in Seq(Replies) /\ ToSet(h \o a) = ToSet(h) \cup ToSet(a)
    BY ConcatContents
  <2>5. \A X : Count(h \o a, X) = Count(h, X) + Count(a, X)
    BY ConcatCount DEF Count
  <2>6. ASSUME NEW X, m \notin X PROVE Count(h \o a, X) = Count(a, X)
    <3>1. Count(a, X) \in Nat /\ Count(h, X) = 0
      BY <2>2, <2>6, PlacesFinite DEF Count
    <3> QED BY <2>5, <3>1
  <2>7. h \o a # <<>>
    <3>1. m \in ToSet(h \o a)
      BY <2>2, <2>4
    <3> QED BY <2>4, <3>1, Contents
  <2> QED BY <2>2, <2>3, <2>4, <2>6, <2>7 DEF m
<1> QED BY <1>2, <1>3

LEMMA FewPlaces ==
  ASSUME NEW S, NEW s \in Seq(S), NEW X,
         \A i, j \in 1..Len(s) : s[i] \in X /\ s[j] \in X => i = j
  PROVE  Count(s, X) <= 1
<1>1. CASE Places(s, X) = {}
  BY <1>1, FS_EmptySet DEF Count
<1>2. CASE Places(s, X) # {}
  <2>1. PICK i \in Places(s, X) : TRUE
    BY <1>2
  <2>2. Places(s, X) = {i}
    BY <2>1 DEF Places
  <2>3. Cardinality({i}) = 1
    BY FS_Singleton
  <2> QED BY <2>2, <2>3 DEF Count
<1> QED BY <1>1, <1>2
LEMMA AskedIs ==
  ASSUME IInv, NEW type, Asked(type)
  PROVE  /\ Question \in RequestBodies /\ Question.type = type
         /\ RequestMeant(Question) /\ (Reading => RequestTrue(Question))
         /\ ~paramsRead => ~AboutOrders(Question)
<1>1. toServer # <<>> /\ Question.type = type
  BY DEF Asked, Question
<1>2. Wire \in Seq(RequestBodies) /\ Wire # <<>> /\ Question = Head(Wire)
  BY <1>1, Queues DEF IInv
<1>3. Question \in RequestBodies /\ Question \in ToSet(Wire)
  BY <1>2, HeadAndTail
<1>4. Question \in UnderWay
  BY <1>3 DEF UnderWay
<1> QED BY <1>1, <1>3, <1>4 DEF IInv, Meant, AllTrue, NoneRead

LEMMA SameWhenAnswered ==
  ASSUME UNCHANGED <<queues, changed, clock>>, UNCHANGED <<chosenVars, clientVars, serverTurn>>
  PROVE  SameData
BY DEF SameData, chosenVars, clientVars

LEMMA AnswerObjectIds ==
  ASSUME IInv, SameData, Asked("GetObjectIDs"), Srv!Answer(<<ListOfObjects(changed)>>)
  PROVE  IInv'
<1> DEFINE a == ListOfObjects(changed)
<1>1. Question \in RequestBodies /\ Question.type = "GetObjectIDs"
  BY AskedIs
<1>2. a \in Replies /\ a.type = "ListOfObjects" /\ a.updated = changed
  <2>1. changed \in [Planets -> Nat]
    BY DEF IInv, Typed
  <2>2. a \in Replies
    BY <2>1, Says
  <2> QED BY <2>2 DEF ListOfObjects
<1> HIDE DEF a
<1>3. PICK bs \in Seq(Replies) : bs = <<a>>
  BY <1>2, OneSent
<1>4. ToSet(bs) = {a} /\ \A X : Count(bs, X) = IF a \in X THEN 1 ELSE 0
  BY <1>3, OneSent
<1>5. bs # <<>> /\ Srv!Answer(bs)
  <2>1. Srv!Answer(bs)
    BY <1>3 DEF a
  <2>2. bs # <<>>
    BY <1>4, Contents
  <2> QED BY <2>1, <2>2
<1>6. \A r \in ToSet(bs) : ReplyMeant(r) /\ ~AboutOrders(r) /\ ReplyTrue(r) /\ OfProbe(r)
  BY <1>2, <1>4 DEF ReplyMeant, AboutOrders, ReplyTrue, OfProbe, IsOrder, Announces
<1>7. /\ \A t : Question \notin Describing(t)
      /\ Question \notin Paging
      /\ ToSet(bs) \cap OrderThings = {} /\ ToSet(bs) \cap ObjectThings = {}
      /\ Question \in ListThings
  BY <1>1, <1>2, <1>4
     DEF Describing, Paging, OrderThings, ObjectThings, ListThings, IsOrder, Announces, Said
<1>8. ASSUME NEW p
      PROVE  /\ Count(bs, AnsweredOf(p)) <= IF Question \in AskedOf(p) THEN 1 ELSE 0
             /\ \A r \in ToSet(bs) : r \notin Probed(p)
             /\ Has(bs, Renews(p))
             /\ \A s : Question \notin Fills(p, s)
  <2>1. Question \in AskedOf(p) /\ \A s : Question \notin Fills(p, s)
    BY <1>1 DEF AskedOf, Fills, Announces
  <2>2. a \in Renews(p) /\ a \notin Probed(p)
    BY <1>2 DEF Renews, Lists, Probed, Said
  <2> QED BY <1>4, <2>1, <2>2 DEF Has
<1>9. Reading =>
        /\ \A p \in Planets :
             Count(bs, AnsweredOf(p)) <= IF Question \in AskedOf(p) THEN 1 ELSE 0
        /\ \A r \in ToSet(bs) : ReplyTrue(r)
        /\ \A p \in Planets : \A r \in ToSet(bs) : r \in Probed(p) => WithoutOrders(p)
        /\ \A p \in DOMAIN objects : Question \in Renews(p) => Has(bs, Renews(p))
        /\ \A p \in DOMAIN objects : \A s \in AskedSlots(objects[p].norders) :
             Question \in Fills(p, s) => Has(bs, Fills(p, s))
  BY <1>6, <1>8
<1> QED BY <1>5, <1>6, <1>7, <1>9, AnswerStep

(* A page of descriptions: the first is the only one when OnePage.         *)
LEMMA AnswerDescIds ==
  ASSUME IInv, SameData, Asked("GetDescPage"),
         NEW ids, NEW next,
         ids = SubSeq(AllDescs, Question.pos + 1, Min({Question.pos + pageSize, Len(AllDescs)})),
         next = IF Min({Question.pos + pageSize, Len(AllDescs)}) < Len(AllDescs)
                THEN Min({Question.pos + pageSize, Len(AllDescs)}) ELSE 0,
         Srv!Answer(<<ListOfDescs(ids, next)>>)
  PROVE  IInv'
<1> DEFINE a == ListOfDescs(ids, next)
<1>1. Question \in RequestBodies /\ Question.type = "GetDescPage" /\ Question.pos \in Nat
  BY AskedIs, SaidToServer
<1>2. /\ AllDescs \in Seq(Types) /\ Len(AllDescs) = Cardinality(Types)
      /\ Len(AllDescs) \in Nat /\ ToSet(AllDescs) = Types
  BY TypesAssumption, AscendingIs DEF AllDescs
<1>3. PICK pos \in Nat, size \in Nat \ {0}, n \in Nat :
        pos = Question.pos /\ size = pageSize /\ n = Len(AllDescs)
  BY <1>1, <1>2 DEF IInv, Typed
<1>4. Min({pos + size, n}) = IF pos + size <= n THEN pos + size ELSE n
  BY DEF Min
<1> PICK all : all = AllDescs
  OBVIOUS
<1> PICK e : e = IF pos + size <= n THEN pos + size ELSE n
  OBVIOUS
<1>17. /\ all \in Seq(Types) /\ Len(all) = n /\ ToSet(all) = Types
       /\ e \in Nat /\ e <= n
       /\ ids = SubSeq(all, pos + 1, e) /\ next = IF e < n THEN e ELSE 0
  <2>1. Min({Question.pos + pageSize, Len(AllDescs)}) = e
    BY <1>3, <1>4
  <2>2. /\ ids = SubSeq(AllDescs, Question.pos + 1, Min({Question.pos + pageSize, Len(AllDescs)}))
        /\ next = IF Min({Question.pos + pageSize, Len(AllDescs)}) < Len(AllDescs)
                  THEN Min({Question.pos + pageSize, Len(AllDescs)}) ELSE 0
    OBVIOUS
  <2>3. all = AllDescs /\ e = IF pos + size <= n THEN pos + size ELSE n
    OBVIOUS
  <2>4. ids = SubSeq(all, pos + 1, e)
    BY ONLY <1>3, <2>1, <2>2, <2>3
  <2>5. next = IF e < n THEN e ELSE 0
    BY ONLY <1>3, <2>1, <2>2
  <2>6. all \in Seq(Types) /\ Len(all) = n /\ ToSet(all) = Types
    BY ONLY <1>2, <1>3, <2>3
  <2>7. pos + size \in Nat
    BY ONLY <1>3
  <2>8. e \in Nat /\ e <= n
    BY ONLY <1>3, <2>3, <2>7
  <2> QED BY ONLY <2>4, <2>5, <2>6, <2>8
<1>5. ids \in Seq(Types) /\ next \in Nat
  <2>1. \A i \in (pos + 1)..e : all[i] \in Types
    BY ONLY <1>17, <1>3
  <2>2. SubSeq(all, pos + 1, e) \in Seq(Types)
    BY ONLY <1>3, <1>17, <2>1, SubSeqProperties
  <2> QED BY ONLY <1>17, <2>2
<1>6. OnePage /\ pos = 0 => next = 0 /\ ToSet(ids) = Types
  <2> SUFFICES ASSUME OnePage, pos = 0 PROVE next = 0 /\ ToSet(ids) = Types
    OBVIOUS
  <2>1. e = n
    BY <1>2, <1>3 DEF OnePage
  <2>2. SubSeq(all, 1, Len(all)) = all
    BY <1>17, SubSeqFull
  <2>3. pos + 1 = 1
    OBVIOUS
  <2>4. ids = SubSeq(all, 1, Len(all))
    BY <1>17, <2>1, <2>3
  <2>5. next = 0
    BY ONLY <1>17, <2>1
  <2> QED BY ONLY <1>17, <2>2, <2>4, <2>5
<1>7. a \in Replies /\ a.type = "ListOfDescs" /\ a.ids = ids /\ a.next = next
  <2>1. a \in Replies
    BY <1>5, Says
  <2> QED BY <2>1 DEF ListOfDescs
<1> HIDE DEF a
<1>8. PICK bs \in Seq(Replies) : bs = <<a>>
  BY <1>7, OneSent
<1>9. ToSet(bs) = {a} /\ \A X : Count(bs, X) = IF a \in X THEN 1 ELSE 0
  BY <1>8, OneSent
<1>10. bs # <<>> /\ Srv!Answer(bs)
  <2>1. Srv!Answer(bs)
    BY <1>8 DEF a
  <2>2. bs # <<>>
    BY <1>9, Contents
  <2> QED BY <2>1, <2>2
<1>11. \A r \in ToSet(bs) : ReplyMeant(r) /\ ~AboutOrders(r) /\ ReplyTrue(r) /\ OfProbe(r)
  BY <1>7, <1>9 DEF ReplyMeant, AboutOrders, ReplyTrue, OfProbe, IsOrder, Announces
<1>12. /\ \A t : Question \notin Describing(t)
       /\ ToSet(bs) \cap OrderThings = {} /\ ToSet(bs) \cap ObjectThings = {}
       /\ ToSet(bs) \cap ListThings = {}
  BY <1>1, <1>7, <1>9
     DEF Describing, OrderThings, ObjectThings, ListThings, IsOrder, Announces
<1>13. OnePage /\ Question \in Paging => Has(bs, Paging)
  BY <1>1, <1>3, <1>6, <1>7, <1>9 DEF Paging, Said, Has
<1>14. ASSUME NEW p
       PROVE  /\ Count(bs, AnsweredOf(p)) = 0
              /\ \A r \in ToSet(bs) : r \notin Probed(p)
              /\ Question \notin Renews(p)
              /\ \A s : Question \notin Fills(p, s)
  BY <1>1, <1>7, <1>9 DEF AnsweredOf, HeardOf, Probed, Renews, Lists, Fills, Announces
<1>15. Reading =>
         /\ \A p \in Planets :
              Count(bs, AnsweredOf(p)) <= IF Question \in AskedOf(p) THEN 1 ELSE 0
         /\ \A r \in ToSet(bs) : ReplyTrue(r)
         /\ \A p \in Planets : \A r \in ToSet(bs) : r \in Probed(p) => WithoutOrders(p)
         /\ \A p \in DOMAIN objects : Question \in Renews(p) => Has(bs, Renews(p))
         /\ \A p \in DOMAIN objects : \A s \in AskedSlots(objects[p].norders) :
              Question \in Fills(p, s) => Has(bs, Fills(p, s))
  <2>1. \A p \in Planets : Count(bs, AnsweredOf(p)) <= IF Question \in AskedOf(p) THEN 1 ELSE 0
    BY <1>14
  <2> QED BY <1>11, <1>14, <2>1
<1>16. \A t : Question \in Describing(t) => Has(bs, Describing(t))
  BY <1>12
<1> QED BY <1>10, <1>11, <1>12, <1>13, <1>15, <1>16, AnswerStep

LEMMA GroupStep ==
  ASSUME IInv, SameData, NEW a \in Seq(Replies), Srv!Answer(Grouped(a)),
         Question \in RequestBodies, Question.type \in {"GetObjects", "GetDescs", "GetOrder"},
         \A r \in ToSet(a) : ReplyMeant(r),
         ~paramsRead => \A r \in ToSet(a) : ~AboutOrders(r),
         \A t : Question \in Describing(t) => Has(a, Describing(t)),
         Question \notin OrderThings => ToSet(a) \cap OrderThings = {},
         Question \notin ObjectThings => ToSet(a) \cap ObjectThings = {},
         ToSet(a) \cap ListThings = {},
         \A p : \A r \in ToSet(a) : r \notin Probed(p),
         Reading =>
           /\ \A p \in Planets :
                Count(a, AnsweredOf(p)) <= IF Question \in AskedOf(p) THEN 1 ELSE 0
           /\ \A r \in ToSet(a) : ReplyTrue(r)
           /\ \A p \in DOMAIN objects : Question \in Renews(p) => Has(a, Renews(p))
           /\ \A p \in DOMAIN objects : \A s \in AskedSlots(objects[p].norders) :
                Question \in Fills(p, s) => Has(a, Fills(p, s))
  PROVE  IInv'
<1> PICK m : m = Msg("SEQUENCE")
  OBVIOUS
<1> PICK bs : bs = Grouped(a)
  OBVIOUS
<1>1. /\ bs \in Seq(Replies) \ {<<>>}
      /\ ToSet(a) \subseteq ToSet(bs)
      /\ ToSet(bs) \subseteq ToSet(a) \cup {m}
      /\ \A X : m \notin X => Count(bs, X) = Count(a, X)
  BY GroupedAre
<1>2. Srv!Answer(bs)
  OBVIOUS
<1>3. m.type = "SEQUENCE"
  BY DEF Msg
<1>4. ReplyMeant(m) /\ ~AboutOrders(m) /\ ReplyTrue(m)
  BY <1>3 DEF ReplyMeant, AboutOrders, ReplyTrue, IsOrder, Announces
<1>5. /\ m \notin OrderThings /\ m \notin ObjectThings /\ m \notin ListThings
      /\ \A p : m \notin AnsweredOf(p) /\ m \notin Probed(p)
  BY <1>3 DEF OrderThings, ObjectThings, ListThings, IsOrder, Announces,
              AnsweredOf, HeardOf, Probed, Lists
<1>6. ASSUME NEW Y, Has(a, Y) PROVE Has(bs, Y)
  BY <1>1, <1>6 DEF Has
<1>7. \A r \in ToSet(bs) : ReplyMeant(r)
  BY <1>1, <1>4
<1>8. ~paramsRead => \A r \in ToSet(bs) : ~AboutOrders(r)
  BY <1>1, <1>4
<1>9. \A t : Question \in Describing(t) => Has(bs, Describing(t))
  BY <1>6
<1>10. /\ Question \notin OrderThings => ToSet(bs) \cap OrderThings = {}
       /\ Question \notin ObjectThings => ToSet(bs) \cap ObjectThings = {}
       /\ Question \notin ListThings => ToSet(bs) \cap ListThings = {}
  BY <1>1, <1>5
<1>11. Question \notin Paging
  BY DEF Paging
<1>12. Reading =>
         /\ \A p \in Planets :
              Count(bs, AnsweredOf(p)) <= IF Question \in AskedOf(p) THEN 1 ELSE 0
         /\ \A r \in ToSet(bs) : ReplyTrue(r)
         /\ \A p \in Planets : \A r \in ToSet(bs) : r \in Probed(p) => WithoutOrders(p)
         /\ \A p \in DOMAIN objects : Question \in Renews(p) => Has(bs, Renews(p))
         /\ \A p \in DOMAIN objects : \A s \in AskedSlots(objects[p].norders) :
              Question \in Fills(p, s) => Has(bs, Fills(p, s))
  <2> SUFFICES ASSUME Reading
               PROVE  /\ \A p \in Planets :
                           Count(bs, AnsweredOf(p)) <= IF Question \in AskedOf(p) THEN 1 ELSE 0
                      /\ \A r \in ToSet(bs) : ReplyTrue(r)
                      /\ \A p \in Planets : \A r \in ToSet(bs) : r \in Probed(p) => WithoutOrders(p)
                      /\ \A p \in DOMAIN objects : Question \in Renews(p) => Has(bs, Renews(p))
                      /\ \A p \in DOMAIN objects : \A s \in AskedSlots(objects[p].norders) :
                           Question \in Fills(p, s) => Has(bs, Fills(p, s))
    OBVIOUS
  <2>1. \A p \in Planets :
          Count(bs, AnsweredOf(p)) <= IF Question \in AskedOf(p) THEN 1 ELSE 0
    BY <1>1, <1>5
  <2>2. \A r \in ToSet(bs) : ReplyTrue(r)
    BY <1>1, <1>4
  <2>3. \A p : \A r \in ToSet(bs) : r \notin Probed(p)
    BY <1>1, <1>5
  <2>4. \A p \in DOMAIN objects : Question \in Renews(p) => Has(bs, Renews(p))
    BY <1>6
  <2>5. \A p \in DOMAIN objects : \A s \in AskedSlots(objects[p].norders) :
          Question \in Fills(p, s) => Has(bs, Fills(p, s))
    BY <1>6
  <2> QED BY <2>1, <2>2, <2>3, <2>4, <2>5
<1>13. Question.type # "ProbeOrder"
  OBVIOUS
<1> QED BY <1>1, <1>2, <1>7, <1>8, <1>9, <1>10, <1>11, <1>12, <1>13, AnswerStep

LEMMA Elements ==
  ASSUME NEW S, NEW s \in Seq(S)
  PROVE  \A i \in DOMAIN s : s[i] \in S
OBVIOUS

LEMMA ForEach ==
  ASSUME NEW S, NEW ids \in Seq(S), NEW a \in [1..Len(ids) -> Replies]
  PROVE  /\ Len(ids) \in Nat
         /\ \A i \in 1..Len(ids) : ids[i] \in ToSet(ids)
         /\ \A t \in ToSet(ids) : \E i \in 1..Len(ids) : ids[i] = t
         /\ a \in Seq(Replies) /\ Len(a) = Len(ids)
         /\ \A i \in 1..Len(ids) : a[i] \in ToSet(a)
         /\ \A r \in ToSet(a) : \E i \in 1..Len(ids) : a[i] = r
<1>1. /\ Len(ids) \in Nat
      /\ \A i \in 1..Len(ids) : ids[i] \in ToSet(ids)
      /\ \A t \in ToSet(ids) : \E i \in 1..Len(ids) : ids[i] = t
  BY Contents
<1>2. a \in Seq(Replies) /\ Len(a) = Len(ids)
  BY <1>1, FunctionIsSequence
<1>3. ToSet(a) = {a[i] : i \in 1..Len(a)}
  BY <1>2, Contents
<1>4. ToSet(a) = {a[i] : i \in 1..Len(ids)}
  BY <1>2, <1>3
<1> QED BY <1>1, <1>2, <1>4

LEMMA AnswerDescs ==
  ASSUME IInv, SameData, Asked("GetDescs"),
         NEW ids, ids = Question.ids, NEW a \in [1..Len(ids) -> Replies],
         \A i \in 1..Len(ids) : a[i] = Desc(ids[i]),
         Srv!Answer(Grouped(a))
  PROVE  IInv'
<1>1. /\ Question \in RequestBodies /\ Question.type = "GetDescs"
      /\ ids \in Seq(Nat) /\ ToSet(ids) \subseteq Types
  BY AskedIs, SaidToServer DEF RequestMeant
<1>2. /\ a \in Seq(Replies)
      /\ \A t \in ToSet(ids) : \E i \in 1..Len(ids) : ids[i] = t
      /\ \A i \in 1..Len(ids) : a[i] \in ToSet(a)
      /\ \A r \in ToSet(a) : \E i \in 1..Len(ids) : a[i] = r
  BY <1>1, ForEach
<1>3. ASSUME NEW i \in 1..Len(ids) PROVE a[i].type = "Desc" /\ a[i].id = ids[i]
  <2>1. a[i] = Desc(ids[i])
    OBVIOUS
  <2> QED BY ONLY <2>1 DEF Desc
<1>7. \A r \in ToSet(a) : r \in Replies /\ r.type = "Desc"
  BY <1>2, <1>3
<1>8. \A r \in ToSet(a) : ReplyMeant(r) /\ ~AboutOrders(r) /\ ReplyTrue(r)
  BY <1>7 DEF ReplyMeant, AboutOrders, ReplyTrue, IsOrder, Announces
<1>9. /\ ToSet(a) \cap OrderThings = {} /\ ToSet(a) \cap ObjectThings = {}
      /\ ToSet(a) \cap ListThings = {}
      /\ \A p : /\ \A r \in ToSet(a) : r \notin Probed(p)
                /\ ToSet(a) \cap AnsweredOf(p) = {}
  BY <1>7 DEF OrderThings, ObjectThings, ListThings, IsOrder, Announces,
              AnsweredOf, HeardOf, Probed, Lists
<1>10. ASSUME NEW t, Question \in Describing(t) PROVE Has(a, Describing(t))
  <2>1. t \in ToSet(ids)
    BY <1>1, <1>10 DEF Describing
  <2>2. PICK i \in 1..Len(ids) : ids[i] = t
    BY <1>2, <2>1
  <2>3. a[i] \in ToSet(a) /\ a[i].id = t
    BY <1>2, <1>3, <2>2
  <2>4. a[i] \in Describing(t)
    BY <1>7, <2>3 DEF Describing, Said
  <2> QED BY <2>3, <2>4 DEF Has
<1>11. \A p : Count(a, AnsweredOf(p)) = 0
  BY <1>2, <1>9, PlacesFinite DEF Count
<1>12. ASSUME NEW p PROVE Question \notin Renews(p) /\ \A s : Question \notin Fills(p, s)
  BY <1>1 DEF Renews, Lists, Fills, Announces
<1>13. Reading =>
         /\ \A p \in Planets :
              Count(a, AnsweredOf(p)) <= IF Question \in AskedOf(p) THEN 1 ELSE 0
         /\ \A r \in ToSet(a) : ReplyTrue(r)
         /\ \A p \in DOMAIN objects : Question \in Renews(p) => Has(a, Renews(p))
         /\ \A p \in DOMAIN objects : \A s \in AskedSlots(objects[p].norders) :
              Question \in Fills(p, s) => Has(a, Fills(p, s))
  <2>1. \A p \in Planets :
          Count(a, AnsweredOf(p)) <= IF Question \in AskedOf(p) THEN 1 ELSE 0
    BY <1>11
  <2> QED BY <1>8, <1>12, <2>1
<1> QED BY <1>1, <1>2, <1>8, <1>9, <1>10, <1>13, GroupStep

LEMMA AnswerObjects ==
  ASSUME IInv, SameData, Asked("GetObjects"),
         NEW ids, ids = Question.ids, NEW a \in [1..Len(ids) -> Replies],
         \A i \in 1..Len(ids) : a[i] = Object(ids[i], Len(queues[ids[i]]), changed[ids[i]]),
         Srv!Answer(Grouped(a))
  PROVE  IInv'
<1>1. /\ Question \in RequestBodies /\ Question.type = "GetObjects"
      /\ ids \in Seq(Nat) /\ ToSet(ids) \subseteq Planets
      /\ \A i, j \in 1..Len(ids) : ids[i] = ids[j] => i = j
  BY AskedIs, SaidToServer DEF RequestMeant
<1>2. /\ a \in Seq(Replies) /\ Len(a) = Len(ids)
      /\ \A i \in 1..Len(ids) : ids[i] \in ToSet(ids)
      /\ \A t \in ToSet(ids) : \E i \in 1..Len(ids) : ids[i] = t
      /\ \A i \in 1..Len(ids) : a[i] \in ToSet(a)
      /\ \A r \in ToSet(a) : \E i \in 1..Len(ids) : a[i] = r
  BY <1>1, ForEach
<1>3. ASSUME NEW i \in 1..Len(ids)
      PROVE  /\ a[i].type = "Object" /\ a[i].id = ids[i]
             /\ a[i].norders = Len(queues[ids[i]]) /\ a[i].updated = changed[ids[i]]
  <2>1. a[i] = Object(ids[i], Len(queues[ids[i]]), changed[ids[i]])
    OBVIOUS
  <2> QED BY ONLY <2>1 DEF Object
<1>4. ASSUME NEW r \in ToSet(a)
      PROVE  /\ r \in Replies /\ r.type = "Object" /\ r.id \in ToSet(ids) /\ r.id \in Planets
             /\ r.updated = changed[r.id] /\ r.norders = Len(queues[r.id])
  <2>1. PICK i \in 1..Len(ids) : a[i] = r
    BY <1>2
  <2>2. a[i] \in Replies /\ ids[i] \in ToSet(ids) /\ ids[i] \in Planets
    BY <1>1, <1>2
  <2>3. /\ a[i].type = "Object" /\ a[i].id = ids[i]
        /\ a[i].norders = Len(queues[ids[i]]) /\ a[i].updated = changed[ids[i]]
    BY <1>3
  <2> QED BY ONLY <2>1, <2>2, <2>3
<1>5. \A p \in Planets : changed[p] \in Nat
  BY DEF IInv, Typed
<1>6. ASSUME NEW r \in ToSet(a) PROVE ReplyMeant(r) /\ ~AboutOrders(r) /\ ReplyTrue(r)
  <2>1. r.updated <= changed[r.id]
    BY <1>4, <1>5
  <2> QED BY <1>4, <2>1 DEF ReplyMeant, AboutOrders, ReplyTrue, IsOrder, Announces
<1>7. /\ ToSet(a) \cap OrderThings = {} /\ ToSet(a) \cap ListThings = {}
      /\ \A p : \A r \in ToSet(a) : r \notin Probed(p)
  BY <1>4 DEF OrderThings, ListThings, IsOrder, Probed
<1>8. Question \in ObjectThings /\ \A t : Question \notin Describing(t)
  BY <1>1 DEF ObjectThings, Said, Describing
<1>9. ASSUME NEW p \in Planets
      PROVE  Count(a, AnsweredOf(p)) <= IF Question \in AskedOf(p) THEN 1 ELSE 0
  <2>1. \A r \in ToSet(a) : r \in AnsweredOf(p) => r.id = p
    BY <1>4 DEF AnsweredOf, HeardOf, Probed, Lists
  <2>2. CASE p \in ToSet(ids)
    <3>1. \A i \in 1..Len(a) : a[i] \in AnsweredOf(p) => ids[i] = p
      BY <1>2, <1>3, <2>1
    <3>2. \A i, j \in 1..Len(a) : a[i] \in AnsweredOf(p) /\ a[j] \in AnsweredOf(p) => i = j
      BY ONLY <1>1, <1>2, <3>1
    <3>3. Count(a, AnsweredOf(p)) <= 1
      BY <1>2, <3>2, FewPlaces
    <3>4. Question \in AskedOf(p)
      BY <1>1, <2>2 DEF AskedOf
    <3> QED BY <3>3, <3>4
  <2>3. CASE p \notin ToSet(ids)
    <3>1. ToSet(a) \cap AnsweredOf(p) = {}
      BY <1>4, <2>1, <2>3
    <3>2. Count(a, AnsweredOf(p)) = 0
      BY <1>2, <3>1, PlacesFinite DEF Count
    <3> QED BY <3>2
  <2> QED BY <2>2, <2>3
<1>10. ASSUME NEW p
       PROVE  /\ Question \in Renews(p) => Has(a, Renews(p))
              /\ \A s : Question \notin Fills(p, s)
  <2>1. \A s : Question \notin Fills(p, s)
    BY <1>1 DEF Fills, Announces
  <2>2. ASSUME Question \in Renews(p) PROVE Has(a, Renews(p))
    <3>1. p \in ToSet(ids)
      BY <1>1, <2>2 DEF Renews, Lists
    <3>2. PICK i \in 1..Len(ids) : ids[i] = p
      BY <1>2, <3>1
    <3>3. a[i] \in ToSet(a) /\ a[i].id = p
      BY <1>2, <1>3, <3>2
    <3>4. a[i] \in Renews(p)
      BY <1>4, <3>3 DEF Renews, Said
    <3> QED BY <3>3, <3>4 DEF Has
  <2> QED BY <2>1, <2>2
<1>11. Reading =>
         /\ \A p \in Planets :
              Count(a, AnsweredOf(p)) <= IF Question \in AskedOf(p) THEN 1 ELSE 0
         /\ \A r \in ToSet(a) : ReplyTrue(r)
         /\ \A p \in DOMAIN objects : Question \in Renews(p) => Has(a, Renews(p))
         /\ \A p \in DOMAIN objects : \A s \in AskedSlots(objects[p].norders) :
              Question \in Fills(p, s) => Has(a, Fills(p, s))
  <2>1. \A p \in Planets :
          Count(a, AnsweredOf(p)) <= IF Question \in AskedOf(p) THEN 1 ELSE 0
    BY <1>9
  <2> QED BY <1>6, <1>10, <2>1
<1> QED BY <1>1, <1>2, <1>6, <1>7, <1>8, <1>11, GroupStep

LEMMA AnswerOrders ==
  ASSUME IInv, SameData, Asked("GetOrder"),
         NEW slots, slots = Question.slots, NEW a \in [1..Len(slots) -> Replies],
         \A i \in 1..Len(slots) :
           a[i] = IF slots[i] + 1 \in DOMAIN queues[Question.id]
                  THEN Order(Question.id, slots[i], queues[Question.id][slots[i] + 1])
                  ELSE Msg("Fail"),
         Srv!Answer(Grouped(a))
  PROVE  IInv'
<1> PICK id : id = Question.id
  OBVIOUS
<1>1. /\ Question \in RequestBodies /\ Question.type = "GetOrder"
      /\ slots \in Seq(Nat) /\ id \in Planets /\ id \in DOMAIN objects /\ paramsRead
      /\ Reading => \A s \in ToSet(slots) : SlotThere(id, s)
  BY AskedIs, SaidToServer DEF RequestMeant, RequestTrue, AboutOrders
<1>2. /\ a \in Seq(Replies) /\ Len(a) = Len(slots)
      /\ \A i \in 1..Len(slots) : slots[i] \in ToSet(slots)
      /\ \A t \in ToSet(slots) : \E i \in 1..Len(slots) : slots[i] = t
      /\ \A i \in 1..Len(slots) : a[i] \in ToSet(a)
      /\ \A r \in ToSet(a) : \E i \in 1..Len(slots) : a[i] = r
  BY <1>1, ForEach
<1>3. /\ \A i \in 1..Len(slots) : slots[i] \in Nat
      /\ ToSet(slots) \subseteq Nat
  BY <1>1, Contents
<1>4. ASSUME NEW i \in 1..Len(slots)
      PROVE  \/ a[i].type = "Fail" /\ slots[i] + 1 \notin DOMAIN queues[id]
             \/ /\ a[i].type = "Order" /\ a[i].id = id /\ a[i].slot = slots[i]
                /\ a[i].order = queues[id][slots[i] + 1]
  <2>1. a[i] = IF slots[i] + 1 \in DOMAIN queues[id]
               THEN Order(id, slots[i], queues[id][slots[i] + 1]) ELSE Msg("Fail")
    OBVIOUS
  <2>2. CASE slots[i] + 1 \in DOMAIN queues[id]
    <3>1. a[i] = Order(id, slots[i], queues[id][slots[i] + 1])
      BY ONLY <2>1, <2>2
    <3> QED BY ONLY <3>1 DEF Order
  <2>3. CASE slots[i] + 1 \notin DOMAIN queues[id]
    <3>1. a[i] = Msg("Fail")
      BY ONLY <2>1, <2>3
    <3> QED BY ONLY <2>3, <3>1 DEF Msg
  <2> QED BY ONLY <2>2, <2>3
<1>5. ASSUME NEW r \in ToSet(a)
      PROVE  /\ r \in Replies
             /\ \/ r.type = "Fail"
                \/ /\ r.type = "Order" /\ r.id = id /\ r.slot \in ToSet(slots) /\ r.slot \in Nat
                   /\ r.order = queues[id][r.slot + 1]
  <2>1. PICK i \in 1..Len(slots) : a[i] = r
    BY <1>2
  <2>2. \/ r.type = "Fail"
        \/ /\ r.type = "Order" /\ r.id = id /\ r.slot = slots[i]
           /\ r.order = queues[id][slots[i] + 1]
    BY ONLY <1>4, <2>1
  <2>3. r \in Replies
    BY <1>2
  <2>4. slots[i] \in ToSet(slots) /\ slots[i] \in Nat
    BY ONLY <1>2, <1>3, <2>1
  <2> QED BY ONLY <2>2, <2>3, <2>4
<1>6. \A r \in ToSet(a) : ReplyMeant(r)
  BY <1>1, <1>5 DEF ReplyMeant, IsOrder, Announces
<1>7. /\ ToSet(a) \cap ObjectThings = {} /\ ToSet(a) \cap ListThings = {}
      /\ \A p : /\ \A r \in ToSet(a) : r \notin Probed(p)
                /\ ToSet(a) \cap AnsweredOf(p) = {}
  <2>1. \A r \in ToSet(a) : r.type \in {"Fail", "Order"} /\ (r.type = "Order" => r.slot # -1)
    BY <1>5
  <2> QED BY <2>1 DEF ObjectThings, ListThings, Announces, AnsweredOf, HeardOf, Probed, Lists
<1>8. Question \in OrderThings /\ \A t : Question \notin Describing(t)
  BY <1>1 DEF OrderThings, Said, Describing
<1>9. \A p : Count(a, AnsweredOf(p)) = 0
  BY <1>2, <1>7, PlacesFinite DEF Count
<1>10. \A p : Question \notin Renews(p)
  BY <1>1 DEF Renews, Lists
<1>11. ASSUME Reading, NEW p, NEW s, Question \in Fills(p, s) PROVE Has(a, Fills(p, s))
  <2>1. p = id /\ s \in ToSet(slots)
    BY <1>1, <1>11 DEF Fills, Announces
  <2>2. SlotThere(p, s)
    BY <1>1, <1>11, <2>1
  <2>3. /\ p \in DOMAIN objects /\ objects[p].norders = Len(queues[p])
        /\ s \in AskedSlots(objects[p].norders)
    BY <1>11, <2>2 DEF SlotThere, Fresh, IInv, Filled
  <2>4. s \in Nat /\ Len(queues[p]) \in Nat /\ s \in Slots(Len(queues[p]))
        /\ DOMAIN queues[p] = 1..Len(queues[p])
    BY <1>1, <1>3, <2>1, <2>3 DEF IInv, Typed, AskedSlots
  <2>5. s + 1 \in DOMAIN queues[p]
    BY ONLY <2>4 DEF Slots
  <2>6. PICK i \in 1..Len(slots) : slots[i] = s
    BY <1>2, <2>1
  <2>7. a[i] \in ToSet(a) /\ a[i].type = "Order" /\ a[i].id = p /\ a[i].slot = s
    BY <1>2, <1>4, <2>1, <2>5, <2>6
  <2>8. a[i] \in Fills(p, s)
    BY <1>5, <2>7 DEF Fills, Said
  <2> QED BY <2>7, <2>8 DEF Has
<1>12. ASSUME Reading, NEW r \in ToSet(a) PROVE ReplyTrue(r)
  <2>1. r.type = "Order" => SlotThere(r.id, r.slot)
    BY <1>1, <1>5, <1>12
  <2> QED BY <1>5, <2>1 DEF ReplyTrue, IsOrder, Announces
<1>13. Reading =>
         /\ \A p \in Planets :
              Count(a, AnsweredOf(p)) <= IF Question \in AskedOf(p) THEN 1 ELSE 0
         /\ \A r \in ToSet(a) : ReplyTrue(r)
         /\ \A p \in DOMAIN objects : Question \in Renews(p) => Has(a, Renews(p))
         /\ \A p \in DOMAIN objects : \A s \in AskedSlots(objects[p].norders) :
              Question \in Fills(p, s) => Has(a, Fills(p, s))
  <2>1. \A p \in Planets :
          Count(a, AnsweredOf(p)) <= IF Question \in AskedOf(p) THEN 1 ELSE 0
    BY <1>9
  <2> QED BY <1>10, <1>11, <1>12, <2>1
<1> QED BY <1>1, <1>2, <1>6, <1>7, <1>8, <1>13, GroupStep

LEMMA AnswerProbeWith ==
  ASSUME IInv, SameData, Asked("ProbeOrder"), NEW a \in Replies,
         a.type = "Fail" \/ (a.type = "Order" /\ a.slot = -1 /\ a.id = Question.id),
         Srv!Answer(<<a>>)
  PROVE  IInv'
<1>1. /\ Question \in RequestBodies /\ Question.type = "ProbeOrder" /\ Question.id \in Planets
      /\ paramsRead
      /\ Reading => WithoutOrders(Question.id)
  BY AskedIs, SaidToServer DEF RequestTrue, AboutOrders
<1>2. PICK bs \in Seq(Replies) : bs = <<a>>
  BY OneSent
<1>3. ToSet(bs) = {a} /\ \A X : Count(bs, X) = IF a \in X THEN 1 ELSE 0
  BY <1>2, OneSent
<1>4. bs # <<>> /\ Srv!Answer(bs)
  <2>1. Srv!Answer(bs)
    BY <1>2
  <2>2. bs # <<>>
    BY <1>3, Contents
  <2> QED BY <2>1, <2>2
<1>5. \A r \in ToSet(bs) : ReplyMeant(r) /\ ReplyTrue(r) /\ OfProbe(r)
  BY <1>3 DEF ReplyMeant, ReplyTrue, OfProbe, IsOrder, Announces
<1>6. /\ \A t : Question \notin Describing(t)
      /\ Question \notin Paging
      /\ ToSet(bs) \cap OrderThings = {} /\ ToSet(bs) \cap ObjectThings = {}
      /\ ToSet(bs) \cap ListThings = {}
  BY <1>1, <1>3
     DEF Describing, Paging, OrderThings, ObjectThings, ListThings, IsOrder, Announces
<1>7. ASSUME NEW p
      PROVE  /\ a \in AnsweredOf(p) => Question \in AskedOf(p)
             /\ a \in Probed(p) => p = Question.id
             /\ Question \notin Renews(p)
             /\ \A s : Question \notin Fills(p, s)
  BY <1>1 DEF AnsweredOf, HeardOf, Probed, AskedOf, Renews, Lists, Fills, Announces
<1>8. Reading =>
        /\ \A p \in Planets :
             Count(bs, AnsweredOf(p)) <= IF Question \in AskedOf(p) THEN 1 ELSE 0
        /\ \A r \in ToSet(bs) : ReplyTrue(r)
        /\ \A p \in Planets : \A r \in ToSet(bs) : r \in Probed(p) => WithoutOrders(p)
        /\ \A p \in DOMAIN objects : Question \in Renews(p) => Has(bs, Renews(p))
        /\ \A p \in DOMAIN objects : \A s \in AskedSlots(objects[p].norders) :
             Question \in Fills(p, s) => Has(bs, Fills(p, s))
  <2>1. \A p \in Planets :
          Count(bs, AnsweredOf(p)) <= IF Question \in AskedOf(p) THEN 1 ELSE 0
    BY <1>3, <1>7
  <2> QED BY <1>1, <1>3, <1>5, <1>7, <2>1
<1>9. \A t : Question \in Describing(t) => Has(bs, Describing(t))
  BY <1>6
<1> QED BY <1>1, <1>4, <1>5, <1>6, <1>8, <1>9, AnswerStep

(* Everything but the answer to InsertOrder.                               *)
LEMMA PlainAnswerInv ==
  ASSUME IInv, SameData, AnswerLists \/ AnswerGets \/ AnswerProbe
  PROVE  IInv'
<1>1. CASE AnswerLists
  <2>1. CASE Asked("GetObjectIDs") /\ Srv!Answer(<<ListOfObjects(changed)>>)
    BY <2>1, AnswerObjectIds
  <2>2. ASSUME Asked("GetDescPage"),
               LET end == Min({Question.pos + pageSize, Len(AllDescs)})
               IN  Srv!Answer(<<ListOfDescs(SubSeq(AllDescs, Question.pos + 1, end),
                                            IF end < Len(AllDescs) THEN end ELSE 0)>>)
        PROVE  IInv'
    <3> PICK ids : ids = SubSeq(AllDescs, Question.pos + 1,
                                Min({Question.pos + pageSize, Len(AllDescs)}))
      OBVIOUS
    <3> PICK next : next = IF Min({Question.pos + pageSize, Len(AllDescs)}) < Len(AllDescs)
                           THEN Min({Question.pos + pageSize, Len(AllDescs)}) ELSE 0
      OBVIOUS
    <3>1. Srv!Answer(<<ListOfDescs(ids, next)>>)
      BY <2>2
    <3> QED BY <2>2, <3>1, AnswerDescIds
  <2> QED BY <1>1, <2>1, <2>2 DEF AnswerLists
<1>2. CASE AnswerGets
  <2>1. ASSUME Asked("GetObjects"),
               LET ids == Question.ids
               IN  Srv!Answer(Grouped([i \in 1..Len(ids) |->
                     Object(ids[i], Len(queues[ids[i]]), changed[ids[i]])]))
        PROVE  IInv'
    <3>1. Question.ids \in Seq(Nat) /\ ToSet(Question.ids) \subseteq Planets
      BY <2>1, AskedIs, SaidToServer DEF RequestMeant
    <3>2. PICK ids \in Seq(Nat) : ids = Question.ids
      BY <3>1
    <3>3. \A i \in 1..Len(ids) : ids[i] \in Planets
      BY <3>1, <3>2, Contents
    <3>4. \A p \in Planets : Len(queues[p]) \in Nat /\ changed[p] \in Nat
      BY DEF IInv, Typed
    <3>5. PICK a : a = [i \in 1..Len(ids) |-> Object(ids[i], Len(queues[ids[i]]), changed[ids[i]])]
      OBVIOUS
    <3>6. Srv!Answer(Grouped(a))
      BY <2>1, <3>2, <3>5
    <3>7. a \in [1..Len(ids) -> Replies]
      BY ONLY <3>3, <3>4, <3>5, Says
    <3>8. \A i \in 1..Len(ids) : a[i] = Object(ids[i], Len(queues[ids[i]]), changed[ids[i]])
      BY ONLY <3>5
    <3> QED BY <2>1, <3>2, <3>6, <3>7, <3>8, AnswerObjects
  <2>2. ASSUME Asked("GetDescs"),
               Srv!Answer(Grouped([i \in 1..Len(Question.ids) |-> Desc(Question.ids[i])]))
        PROVE  IInv'
    <3>1. Question.ids \in Seq(Nat) /\ ToSet(Question.ids) \subseteq Types
      BY <2>2, AskedIs, SaidToServer DEF RequestMeant
    <3>2. PICK ids \in Seq(Nat) : ids = Question.ids
      BY <3>1
    <3>3. \A i \in 1..Len(ids) : ids[i] \in Types
      BY <3>1, <3>2, Contents
    <3>4. PICK a : a = [i \in 1..Len(ids) |-> Desc(ids[i])]
      OBVIOUS
    <3>5. Srv!Answer(Grouped(a))
      BY <2>2, <3>2, <3>4
    <3>6. a \in [1..Len(ids) -> Replies]
      BY ONLY <3>3, <3>4, Says
    <3>7. \A i \in 1..Len(ids) : a[i] = Desc(ids[i])
      BY ONLY <3>4
    <3> QED BY <2>2, <3>2, <3>5, <3>6, <3>7, AnswerDescs
  <2>3. ASSUME Asked("GetOrder"),
               LET slots == Question.slots
                   queue == queues[Question.id]
               IN  Srv!Answer(Grouped([i \in 1..Len(slots) |->
                     IF slots[i] + 1 \in DOMAIN queue
                     THEN Order(Question.id, slots[i], queue[slots[i] + 1])
                     ELSE Msg("Fail")]))
        PROVE  IInv'
    <3>1. Question.slots \in Seq(Nat) /\ Question.id \in Planets
      BY <2>3, AskedIs, SaidToServer
    <3>2. PICK slots \in Seq(Nat) : slots = Question.slots
      BY <3>1
    <3>3. PICK id \in Planets : id = Question.id
      BY <3>1
    <3>4. \A s \in DOMAIN queues[id] : queues[id][s] \in [no : Nat, type : Types]
      <4>1. PICK queue \in Seq(ServerOrder) : queue = queues[id]
        BY DEF IInv, Typed
      <4>2. \A s \in DOMAIN queue : queue[s] \in ServerOrder
        BY Elements
      <4> QED BY <4>1, <4>2 DEF ServerOrder
    <3>5. PICK a : a = [i \in 1..Len(slots) |->
                          IF slots[i] + 1 \in DOMAIN queues[id]
                          THEN Order(id, slots[i], queues[id][slots[i] + 1])
                          ELSE Msg("Fail")]
      OBVIOUS
    <3>6. Srv!Answer(Grouped(a))
      BY <2>3, <3>2, <3>3, <3>5
    <3>7. a \in [1..Len(slots) -> Replies]
      <4>1. \A i \in 1..Len(slots) : slots[i] \in Int
        OBVIOUS
      <4>2. Msg("Fail") \in Replies
        BY Says DEF PlainTypes
      <4> QED BY ONLY <3>4, <3>5, <4>1, <4>2, Says
    <3>8. \A i \in 1..Len(slots) :
            a[i] = IF slots[i] + 1 \in DOMAIN queues[Question.id]
                   THEN Order(Question.id, slots[i], queues[Question.id][slots[i] + 1])
                   ELSE Msg("Fail")
      BY ONLY <3>3, <3>5
    <3> QED BY <2>3, <3>2, <3>6, <3>7, <3>8, AnswerOrders
  <2> QED BY <1>2, <2>1, <2>2, <2>3 DEF AnswerGets
<1>3. CASE AnswerProbe
  <2>1. Asked("ProbeOrder")
    BY <1>3 DEF AnswerProbe
  <2>2. Question.id \in Planets /\ Question.order \in Types
    BY <2>1, AskedIs, SaidToServer
  <2>3. CASE Srv!Answer(<<Order(Question.id, -1, [no |-> 0, type |-> Question.order])>>)
    <3>1. PICK a : a = Order(Question.id, -1, [no |-> 0, type |-> Question.order])
      OBVIOUS
    <3>2. a \in Replies
      BY <2>2, <3>1, Says
    <3>3. a.type = "Order" /\ a.slot = -1 /\ a.id = Question.id
      BY ONLY <3>1 DEF Order
    <3> QED BY <2>1, <2>3, <3>1, <3>2, <3>3, AnswerProbeWith
  <2>4. CASE Srv!Answer(<<Msg("Fail")>>)
    <3>1. PICK a : a = Msg("Fail")
      OBVIOUS
    <3>2. a \in Replies
      BY <3>1, Says DEF PlainTypes
    <3>3. a.type = "Fail"
      BY ONLY <3>1 DEF Msg
    <3> QED BY <2>1, <2>4, <3>1, <3>2, <3>3, AnswerProbeWith
  <2> QED BY <1>3, <2>3, <2>4 DEF AnswerProbe
<1> QED BY <1>1, <1>2, <1>3

-----------------------------------------------------------------------------
(* The answer to InsertOrder                                               *)

LEMMA NoneLeft ==
  ASSUME NEW R, NEW S, NEW w \in Seq(R), NEW a \in Seq(S), NEW e \in Seq(S),
         NEW X, NEW Y, NEW Z, Count(w, X) + Count(a, Y) + Count(e, Z) = 0
  PROVE  ToSet(w) \cap X = {} /\ ToSet(a) \cap Y = {} /\ ToSet(e) \cap Z = {}
<1>1. Count(w, X) \in Nat /\ Count(a, Y) \in Nat /\ Count(e, Z) \in Nat
  BY PlacesFinite DEF Count
<1>2. Count(w, X) = 0 /\ Count(a, Y) = 0 /\ Count(e, Z) = 0
  BY <1>1
<1>3. /\ Count(w, X) = 0 <=> ToSet(w) \cap X = {}
      /\ Count(a, Y) = 0 <=> ToSet(a) \cap Y = {}
      /\ Count(e, Z) = 0 <=> ToSet(e) \cap Z = {}
  BY PlacesFinite DEF Count
<1> QED BY <1>2, <1>3

LEMMA NoSlotsAsked == AskedSlots(0) = {}
<1>1. Slots(0) = {}
  BY DEF Slots
<1> QED BY <1>1 DEF AskedSlots

(* What the planet's new order changes at the server.                      *)
LEMMA InsertData ==
  ASSUME IInv, AnswerInsert, UNCHANGED <<chosenVars, clientVars, serverTurn>>
  PROVE  /\ Question \in RequestBodies /\ Question.type = "InsertOrder" /\ Question.id \in Planets
         /\ paramsRead
         /\ Reading => WithoutOrders(Question.id)
         /\ UNCHANGED <<paramsRead, patient, pageSize, objects, descs, stopped>>
         /\ Srv!Answer(<<Msg("OK")>>)
         /\ clock' = clock + 1 /\ clock \in Nat
         /\ Typed'
         /\ changed'[Question.id] = clock + 1
         /\ \A q \in Planets :
              /\ changed[q] \in Nat /\ changed'[q] \in Nat
              /\ changed[q] <= clock /\ changed[q] <= changed'[q]
              /\ q # Question.id => changed'[q] = changed[q] /\ queues'[q] = queues[q]
         /\ queues[Question.id] = <<>> => Len(queues'[Question.id]) = 1
<1>1. /\ Asked("InsertOrder") /\ clock' = clock + 1 /\ Srv!Answer(<<Msg("OK")>>)
      /\ queues' = [queues EXCEPT ![Question.id] =
                      Append(@, [no |-> 10 + clock, type |-> Question.order])]
      /\ changed' = [changed EXCEPT ![Question.id] = clock']
  BY DEF AnswerInsert
<1>2. /\ Question \in RequestBodies /\ Question.type = "InsertOrder" /\ Question.id \in Planets
      /\ Question.order \in Types
      /\ paramsRead
      /\ Reading => WithoutOrders(Question.id)
  BY <1>1, AskedIs, SaidToServer DEF RequestTrue, AboutOrders
<1>3. UNCHANGED <<paramsRead, patient, pageSize, objects, descs, stopped>>
  BY DEF chosenVars, clientVars
<1> PICK p : p = Question.id
  OBVIOUS
<1> PICK order : order = [no |-> 10 + clock, type |-> Question.order]
  OBVIOUS
<1>4. /\ clock \in Nat /\ DOMAIN queues = Planets /\ changed \in [Planets -> Nat]
      /\ \A q \in Planets : /\ queues[q] \in Seq(ServerOrder)
                            /\ changed[q] \in Nat /\ changed[q] <= clock
  <2>1. Typed
    BY DEF IInv
  <2>2. \A q \in Planets : changed[q] \in Nat /\ changed[q] <= clock
    BY <2>1 DEF Typed
  <2> QED BY <2>1, <2>2 DEF Typed
<1>5. /\ queues' = [queues EXCEPT ![p] = Append(@, order)]
      /\ changed' = [changed EXCEPT ![p] = clock + 1]
      /\ p \in Planets
  BY <1>1, <1>2
<1>6. order \in ServerOrder
  BY <1>2, <1>4 DEF ServerOrder
<1>7. /\ DOMAIN queues' = Planets /\ changed' \in [Planets -> Nat]
      /\ changed'[p] = clock + 1 /\ queues'[p] = Append(queues[p], order)
      /\ \A q \in Planets : q # p => changed'[q] = changed[q] /\ queues'[q] = queues[q]
  BY ONLY <1>4, <1>5
<1>8. Append(queues[p], order) \in Seq(ServerOrder)
  BY <1>4, <1>5, <1>6, AppendContents
<1>9. \A q \in Planets : /\ changed'[q] \in Nat /\ changed[q] <= changed'[q]
                         /\ changed'[q] \in 0..(clock + 1)
                         /\ queues'[q] \in Seq(ServerOrder)
  <2> SUFFICES ASSUME NEW q \in Planets
               PROVE  /\ changed'[q] \in Nat /\ changed[q] <= changed'[q]
                      /\ changed'[q] \in 0..(clock + 1)
                      /\ queues'[q] \in Seq(ServerOrder)
    OBVIOUS
  <2>1. queues'[q] \in Seq(ServerOrder)
    BY ONLY <1>4, <1>7, <1>8
  <2>2. PICK c \in Nat, d \in Nat : c = changed[q] /\ d = clock /\ c <= d
    BY <1>4
  <2>3. changed'[q] = IF q = p THEN d + 1 ELSE c
    BY <1>7, <2>2
  <2>4. changed'[q] \in Nat /\ c <= changed'[q] /\ changed'[q] \in 0..(d + 1)
    BY ONLY <2>2, <2>3
  <2> QED BY <2>1, <2>2, <2>4
<1>10. Typed'
  <2>1. clock + 1 \in Nat
    BY <1>4
  <2>2. paramsRead \in BOOLEAN /\ patient \in BOOLEAN /\ pageSize \in Nat \ {0}
        /\ stopped \in {"no", "slot", "description"}
    BY DEF IInv, Typed
  <2> QED BY ONLY <1>1, <1>3, <1>7, <1>9, <2>1, <2>2 DEF Typed
<1>11. queues[p] = <<>> => Len(queues'[p]) = 1
  <2>1. Len(Append(<<>>, order)) = 1
    OBVIOUS
  <2> QED BY <1>7, <2>1
<1> QED BY <1>1, <1>2, <1>3, <1>4, <1>5, <1>7, <1>9, <1>10, <1>11

(* The planet was without orders, and this was the only errand for it.     *)
LEMMA AnswerInsertInv ==
  ASSUME IInv, AnswerInsert, UNCHANGED <<chosenVars, clientVars, serverTurn>>
  PROVE  IInv'
<1> PICK p : p = Question.id
  OBVIOUS
<1> PICK ok : ok = Msg("OK")
  OBVIOUS
<1>1. /\ Question \in RequestBodies /\ Question.type = "InsertOrder" /\ p \in Planets
      /\ p = Question.id
      /\ paramsRead
      /\ Reading => WithoutOrders(p)
      /\ UNCHANGED <<paramsRead, patient, pageSize, objects, descs, stopped>>
      /\ Typed'
      /\ \A q \in Planets :
           /\ changed[q] \in Nat /\ changed'[q] \in Nat /\ changed[q] <= changed'[q]
           /\ q # p => changed'[q] = changed[q] /\ queues'[q] = queues[q]
      /\ queues[p] = <<>> => Len(queues'[p]) = 1
  BY InsertData
<1>2. changed[p] < changed'[p]
  <2>1. clock \in Nat /\ changed[p] \in Nat /\ changed[p] <= clock /\ changed'[p] = clock + 1
    BY <1>1, InsertData
  <2> QED BY ONLY <2>1
<1>3. ok \in Replies /\ ok.type = "OK"
  <2>1. ok \in Replies
    BY Says DEF PlainTypes
  <2> QED BY <2>1 DEF Msg
<1>4. PICK bs \in Seq(Replies) : bs = <<ok>>
  BY <1>3, OneSent
<1>5. ToSet(bs) = {ok} /\ \A X : Count(bs, X) = IF ok \in X THEN 1 ELSE 0
  BY <1>4, OneSent
<1>6. bs \in Seq(Replies) \ {<<>>} /\ Srv!Answer(bs)
  <2>1. Srv!Answer(bs)
    BY <1>4, InsertData
  <2>2. bs # <<>>
    BY <1>5, Contents
  <2> QED BY <2>1, <2>2
<1>7. Srv!IInv
  BY DEF IInv
<1>8. /\ Srv!IInv'
      /\ ToSet(Wire) = ToSet(Wire') \cup {Question}
      /\ Passing' = Passing \cup {ok}
      /\ ToSet(Arriving') = ToSet(Arriving) \cup {ok}
      /\ UnderWay' \subseteq UnderWay \cup {ok}
      /\ UnderWay \cup {ok} \subseteq UnderWay' \cup {Question}
  BY <1>5, <1>6, <1>7, AnswerEffect
<1>9. SmithCalled'
  BY <1>1, <1>6, <1>7, SmithAnswer DEF IInv
<1>10. ObjectsKept'
  <2>1. DOMAIN objects \subseteq Planets /\ \A q \in DOMAIN objects : ObjectOK(q)
    BY DEF IInv, ObjectsKept
  <2>2. ASSUME NEW q \in DOMAIN objects PROVE ObjectOK(q)'
    <3>1. objects[q].updated \in Nat /\ objects[q].updated <= changed[q]
      BY <2>1 DEF ObjectOK, ObjectType
    <3>2. objects[q].updated <= changed'[q]
      BY <1>1, <2>1, <3>1
    <3> QED BY <1>1, <2>1, <3>2 DEF ObjectOK
  <2> QED BY <1>1, <2>1, <2>2 DEF ObjectsKept
<1>11. Meant'
  <2>1. ASSUME NEW r \in ToSet(Wire') PROVE RequestMeant(r)'
    <3>1. RequestMeant(r)
      BY <1>8 DEF IInv, Meant
    <3> QED BY <1>1, <3>1 DEF RequestMeant
  <2>2. ASSUME NEW r \in Passing' PROVE ReplyMeant(r)'
    <3>1. CASE r = ok
      BY <1>3, <3>1 DEF ReplyMeant, IsOrder, Announces
    <3>2. CASE r \in Passing
      <4>1. ReplyMeant(r) /\ r \in Replies
        <5>1. Arriving \in Seq(Replies) /\ Waiting \in Seq(Replies)
          BY <1>7, Queues
        <5>2. r \in Replies
          BY <3>2, <5>1, Contents DEF Passing
        <5> QED BY <3>2, <5>2 DEF IInv, Meant
      <4>2. ASSUME r.type = "Object" PROVE r.updated <= changed'[r.id]
        <5>1. r.updated \in Nat /\ r.id \in Planets /\ r.updated <= changed[r.id]
          BY <4>1, <4>2, SaidToClient DEF ReplyMeant
        <5> QED BY <1>1, <5>1
      <4> QED BY <1>1, <4>1, <4>2 DEF ReplyMeant
    <3> QED BY <1>8, <3>1, <3>2
  <2> QED BY <2>1, <2>2 DEF Meant
<1>12. NoneRead'
  BY <1>1 DEF NoneRead
<1>13. DescriptionsFirst'
  <2>1. OnePage' <=> OnePage
    BY <1>1 DEF OnePage
  <2>2. AllDescribed' <=> AllDescribed
    BY <1>1 DEF AllDescribed, StrGet
  <2>3. ASSUME NEW t, DescribedFirst(t) PROVE DescribedFirst(t)'
    <3>1. Question \notin Describing(t) /\ Question \notin Paging
      BY <1>1 DEF Describing, Paging
    <3>2. /\ ToSet(bs) \cap OrderThings = {} /\ ToSet(bs) \cap ObjectThings = {}
          /\ ToSet(bs) \cap ListThings = {}
      BY <1>3, <1>5 DEF OrderThings, ObjectThings, ListThings, IsOrder, Announces
    <3> QED BY <1>6, <1>7, <2>3, <3>1, <3>2, AnswerDescribed
  <2>4. OnePage => /\ stopped # "description" /\ AllDescribed
                   /\ \A t \in Types \ descs : DescribedFirst(t)
    BY DEF IInv, DescriptionsFirst
  <2>5. descs' = descs /\ stopped' = stopped
    BY <1>1
  <2>6. ASSUME OnePage, NEW t \in Types \ descs' PROVE DescribedFirst(t)'
    BY <2>3, <2>4, <2>5, <2>6
  <2> QED BY <2>1, <2>2, <2>4, <2>5, <2>6 DEF DescriptionsFirst
<1>14. FewGiven'
  <2>1. patient' = patient /\ (patient => queues[p] = <<>>)
    BY <1>1 DEF Reading, WithoutOrders
  <2>2. ASSUME patient, NEW q \in Planets PROVE Len(queues'[q]) <= 1 \/ Given(q)' = {}
    <3>1. CASE q = p
      <4>1. Len(queues'[p]) = 1
        BY <1>1, <2>1, <2>2
      <4>2. Len(queues'[q]) <= 1
        BY ONLY <3>1, <4>1
      <4> QED BY <4>2
    <3>2. CASE q # p
      <4>1. Len(queues[q]) <= 1 \/ Given(q) = {}
        BY <2>2 DEF IInv, FewGiven
      <4>2. queues'[q] = queues[q]
        BY <1>1, <3>2
      <4> QED BY <4>1, <4>2 DEF Given
    <3> QED BY <3>1, <3>2
  <2> QED BY <2>1, <2>2 DEF FewGiven
<1>15. ASSUME Reading PROVE (OneErrand /\ AllTrue /\ Renewed /\ Filled /\ stopped # "slot")'
  <2>1. /\ OneErrand /\ AllTrue /\ Renewed /\ Filled /\ stopped # "slot"
        /\ DOMAIN objects \subseteq Planets
    BY <1>15 DEF IInv, ObjectsKept
  <2>2. ASSUME NEW q
        PROVE  /\ {Errands(q), Errands(q)'} \subseteq Nat
               /\ Errands(q)' + (IF q = p THEN 1 ELSE 0) = Errands(q)
    <3>1. Count(bs, AnsweredOf(q)) = 0
      <4>1. ok \notin AnsweredOf(q)
        BY <1>3 DEF AnsweredOf, HeardOf, Probed, Lists
      <4> QED BY <1>5, <4>1
    <3>2. Question \in AskedOf(q) <=> q = p
      BY <1>1 DEF AskedOf
    <3>3. /\ {Errands(q), Errands(q)'} \subseteq Nat
          /\ Errands(q)' + (IF Question \in AskedOf(q) THEN 1 ELSE 0)
               = Errands(q) + Count(bs, AnsweredOf(q))
      BY <1>6, <1>7, AnswerErrands
    <3> QED BY <3>1, <3>2, <3>3
  <2>3. ASSUME NEW q \in Planets PROVE Errands(q)' <= 1
    <3>1. PICK x \in Nat, y \in Nat : x = Errands(q) /\ y = Errands(q)'
      BY <2>2
    <3>2. y + (IF q = p THEN 1 ELSE 0) = x /\ x <= 1
      BY <2>1, <2>2, <3>1 DEF OneErrand
    <3> QED BY ONLY <3>1, <3>2
  <2>4. Errands(p)' = 0
    <3>1. PICK x \in Nat, y \in Nat : x = Errands(p) /\ y = Errands(p)'
      BY <2>2
    <3>2. y + 1 = x /\ x <= 1
      BY <1>1, <2>1, <2>2, <3>1 DEF OneErrand
    <3> QED BY ONLY <3>1, <3>2
  <2>5. /\ \A r \in ToSet(Wire') : r \notin AskedOf(p)
        /\ \A r \in ToSet(Arriving') : r \notin AnsweredOf(p)
        /\ \A r \in ToSet(Waiting') : r \notin HeardOf(p)
        /\ \A r \in ToSet(Wire') : r \in RequestBodies
        /\ \A r \in Passing' : r \in Replies /\ r \notin HeardOf(p)
    <3>1. /\ Wire' \in Seq(RequestBodies)
          /\ Arriving' \in Seq(Replies) /\ Waiting' \in Seq(Replies)
      BY <1>8, QueuesNext
    <3>2. Count(Wire', AskedOf(p)) + Count(Arriving', AnsweredOf(p))
            + Count(Waiting', HeardOf(p)) = 0
      BY <2>4 DEF Errands, AskedOf, AnsweredOf, HeardOf, Probed, Count
    <3>3. /\ ToSet(Wire') \cap AskedOf(p) = {} /\ ToSet(Arriving') \cap AnsweredOf(p) = {}
          /\ ToSet(Waiting') \cap HeardOf(p) = {}
      BY <3>1, <3>2, NoneLeft
    <3>4. /\ ToSet(Wire') \subseteq RequestBodies
          /\ ToSet(Arriving') \subseteq Replies /\ ToSet(Waiting') \subseteq Replies
      BY <3>1, Contents
    <3>5. Passing' = ToSet(Arriving') \cup ToSet(Waiting')
      BY DEF Passing
    <3> QED BY <3>3, <3>4, <3>5 DEF AnsweredOf
  <2>6. WithoutOrders(p) /\ p \in DOMAIN objects /\ objects[p].norders = 0
    BY <1>1, <1>15 DEF WithoutOrders
  <2>7. ASSUME NEW q \in Planets, q # p
        PROVE  /\ Fresh(q)' <=> Fresh(q)
               /\ WithoutOrders(q)' <=> WithoutOrders(q)
               /\ \A s : SlotThere(q, s)' <=> SlotThere(q, s)
    BY <1>1, <2>7 DEF Fresh, WithoutOrders, SlotThere
  <2>8. ~Fresh(p)' /\ \A s : ~SlotThere(p, s)
    <3>1. objects[p].updated \in Nat /\ objects[p].updated <= changed[p]
      BY <2>6 DEF IInv, ObjectsKept, ObjectOK, ObjectType
    <3>2. objects[p].updated # changed'[p]
      BY <1>1, <1>2, <3>1
    <3> QED BY <1>1, <2>6, <3>2, NoSlotsAsked DEF Fresh, SlotThere
  <2>9. ASSUME NEW r \in ToSet(Wire') PROVE RequestTrue(r)'
    <3>1. r \in RequestBodies /\ r \notin AskedOf(p) /\ RequestTrue(r) /\ RequestMeant(r)
      BY <1>8, <2>1, <2>5 DEF AllTrue, IInv, Meant
    <3>2. ASSUME r.type = "GetOrder", NEW s \in ToSet(r.slots) PROVE SlotThere(r.id, s)'
      <4>1. SlotThere(r.id, s) /\ r.id \in Planets
        BY <3>1, <3>2, SaidToServer DEF RequestTrue
      <4>2. r.id # p
        BY <2>8, <4>1
      <4> QED BY <2>7, <4>1, <4>2
    <3>3. ASSUME r.type \in {"ProbeOrder", "InsertOrder"} PROVE WithoutOrders(r.id)'
      <4>1. WithoutOrders(r.id) /\ r.id \in Planets
        BY <3>1, <3>3, SaidToServer DEF RequestTrue
      <4>2. r.id # p
        BY <3>1, <3>3 DEF AskedOf
      <4> QED BY <2>7, <4>1, <4>2
    <3> QED BY <3>2, <3>3 DEF RequestTrue
  <2>10. ASSUME NEW r \in Passing' PROVE ReplyTrue(r)'
    <3>1. r \in Replies /\ r \notin HeardOf(p)
      BY <2>5
    <3>2. CASE r = ok
      BY <1>3, <3>2 DEF ReplyTrue, IsOrder, Announces
    <3>3. CASE r \in Passing
      <4>1. ReplyTrue(r)
        BY <2>1, <3>3 DEF AllTrue
      <4>2. r.type # "ListOfObjects"
        BY <3>1 DEF HeardOf, Lists
      <4>3. ASSUME r.type = "Object"
            PROVE  r.updated = changed'[r.id] /\ r.norders = Len(queues'[r.id])
        <5>1. r.id \in Planets /\ r.id # p
          BY <3>1, <4>3, SaidToClient DEF HeardOf
        <5> QED BY <1>1, <4>1, <4>3, <5>1 DEF ReplyTrue
      <4>4. ASSUME IsOrder(r)
            PROVE  SlotThere(r.id, r.slot)' /\ r.order = queues'[r.id][r.slot + 1]
        <5>1. SlotThere(r.id, r.slot) /\ r.order = queues[r.id][r.slot + 1] /\ r.id \in Planets
          BY <3>1, <4>1, <4>4, SaidToClient DEF ReplyTrue, IsOrder
        <5>2. r.id # p
          BY <2>8, <5>1
        <5> QED BY <1>1, <2>7, <5>1, <5>2
      <4>5. ASSUME r.type = "PlanetNoOrders" PROVE WithoutOrders(r.id)'
        <5>1. r.id \in Planets /\ r.id # p /\ WithoutOrders(r.id)
          BY <3>1, <4>1, <4>5, SaidToClient DEF HeardOf, ReplyTrue
        <5> QED BY <2>7, <5>1
      <4>6. ASSUME Announces(r) PROVE Fresh(r.id)' \/ objects'[r.id].norders = 0
        <5>1. r.id \in Planets /\ (Fresh(r.id) \/ objects[r.id].norders = 0)
          BY <3>1, <4>1, <4>6, SaidToClient DEF ReplyTrue, Announces
        <5> QED BY <1>1, <2>6, <2>7, <5>1
      <4> QED BY <4>2, <4>3, <4>4, <4>5, <4>6 DEF ReplyTrue
    <3> QED BY <1>8, <3>2, <3>3
  <2>11. ASSUME NEW q \in Planets, NEW r \in ToSet(Arriving'), r \in Probed(q)
         PROVE  WithoutOrders(q)'
    <3>1. r # ok
      BY <1>3, <2>11 DEF Probed
    <3>2. r \in ToSet(Arriving)
      BY <1>8, <3>1
    <3>3. WithoutOrders(q)
      BY <2>1, <2>11, <3>2 DEF AllTrue
    <3>4. q # p
      BY <2>5, <2>11 DEF AnsweredOf
    <3> QED BY <2>7, <3>3, <3>4
  <2>12. AllTrue'
    BY <2>9, <2>10, <2>11 DEF AllTrue, Probed
  <2>13. OneErrand'
    BY <2>3 DEF OneErrand
  <2>14. ASSUME NEW Y, Question \notin Y, UnderWay \cap Y # {} PROVE UnderWay' \cap Y # {}
    BY <1>8, <2>14
  <2>15. Renewed'
    <3> SUFFICES ASSUME NEW q \in DOMAIN objects'
                 PROVE  Fresh(q)' \/ objects'[q].norders = 0 \/ IsUnderWay(Renews(q))'
      BY DEF Renewed
    <3>1. q \in DOMAIN objects /\ q \in Planets /\ objects' = objects
      BY <1>1, <2>1
    <3>2. Fresh(q) \/ objects[q].norders = 0 \/ IsUnderWay(Renews(q))
      BY <2>1, <3>1 DEF Renewed
    <3>3. ASSUME IsUnderWay(Renews(q)) PROVE IsUnderWay(Renews(q))'
      <4>1. Question \notin Renews(q)
        BY <1>1 DEF Renews, Lists
      <4>2. UnderWay' \cap Renews(q) # {}
        BY <2>14, <3>3, <4>1 DEF IsUnderWay
      <4> QED BY <4>2 DEF IsUnderWay, Renews, Lists
    <3> QED BY <2>6, <2>7, <3>1, <3>2, <3>3
  <2>16. Filled'
    <3> SUFFICES ASSUME NEW q \in DOMAIN objects', Fresh(q)'
                 PROVE  /\ objects'[q].norders = Len(queues'[q])
                        /\ \A s \in Slots(objects'[q].norders) : SlotFilled(q, s)'
      BY DEF Filled
    <3>1. q \in DOMAIN objects /\ q \in Planets /\ q # p /\ objects' = objects
      BY <1>1, <2>1, <2>8
    <3>2. Fresh(q) /\ queues'[q] = queues[q]
      BY <1>1, <2>7, <3>1
    <3>3. /\ objects[q].norders = Len(queues[q])
          /\ \A s \in Slots(objects[q].norders) : SlotFilled(q, s)
      BY <2>1, <3>1, <3>2 DEF Filled
    <3>4. ASSUME NEW s, SlotFilled(q, s) PROVE SlotFilled(q, s)'
      <4>1. IsUnderWay(Fills(q, s)) => IsUnderWay(Fills(q, s))'
        <5>1. Question \notin Fills(q, s)
          BY <1>1 DEF Fills, Announces
        <5>2. UnderWay \cap Fills(q, s) # {} => UnderWay' \cap Fills(q, s) # {}
          BY <2>14, <5>1
        <5> QED BY <5>2 DEF IsUnderWay, Fills, Announces
      <4> QED BY <3>1, <3>2, <3>4, <4>1 DEF SlotFilled
    <3> QED BY <3>1, <3>2, <3>3, <3>4
  <2>17. stopped' # "slot"
    BY <1>1, <2>1
  <2> QED BY <2>12, <2>13, <2>15, <2>16, <2>17
<1>16. Reading' <=> Reading
  BY <1>1 DEF Reading
<1> QED BY <1>1, <1>8, <1>9, <1>10, <1>11, <1>12, <1>13, <1>14, <1>15, <1>16 DEF IInv

LEMMA AnswerInv ==
  ASSUME IInv, Answer
  PROVE  IInv'
<1>1. CASE (AnswerLists \/ AnswerGets \/ AnswerProbe) /\ UNCHANGED <<queues, changed, clock>>
  <2>1. SameData
    BY <1>1, SameWhenAnswered DEF Answer
  <2> QED BY <1>1, <2>1, PlainAnswerInv
<1>2. CASE AnswerInsert
  BY <1>2, AnswerInsertInv DEF Answer
<1> QED BY <1>1, <1>2 DEF Answer

-----------------------------------------------------------------------------
(* An object is received                                                   *)

LEMMA TwoEvents ==
  ASSUME NEW a \in Replies, NEW b \in Replies
  PROVE  Events(<<a, b>>) = <<Event(a)>> \o <<Event(b)>>
<1>1. Events(<<a, b>>) = <<Event(a), Event(b)>>
  BY DEF Events
<1> PICK x : x = Event(a)
  OBVIOUS
<1> PICK y : y = Event(b)
  OBVIOUS
<1>2. <<x, y>> = Append(<<x>>, y)
  OBVIOUS
<1>3. <<x>> \in Seq({x, y}) /\ y \in {x, y}
  OBVIOUS
<1>4. Append(<<x>>, y) = <<x>> \o <<y>>
  BY <1>3, AppendContents
<1> QED BY <1>1, <1>2, <1>4

LEMMA SlotsGiven ==
  ASSUME NEW S, NEW u \in Nat, NEW n \in Nat, NEW z \in S, z = [s \in Slots(n) |-> NoOrder],
         NEW x \in [updated : Nat, norders : Nat, orders : S]
  PROVE  WithSlots(x, n, u) = [updated |-> u, norders |-> n, orders |-> z]
<1> PICK w : w = WithSlots(x, n, u)
  OBVIOUS
<1>1. w = [x EXCEPT !.updated = u, !.norders = n, !.orders = z]
  BY DEF WithSlots
<1>2. w \in [updated : Nat, norders : Nat, orders : S]
  BY ONLY <1>1, u \in Nat, n \in Nat, z \in S, x \in [updated : Nat, norders : Nat, orders : S]
<1>3. w.updated = u /\ w.norders = n /\ w.orders = z
  BY ONLY <1>1, x \in [updated : Nat, norders : Nat, orders : S]
<1>4. w = [updated |-> u, norders |-> n, orders |-> z]
  BY ONLY <1>2, <1>3
<1> QED BY <1>4

(* The object as it is kept now, and what is announced of it.              *)
ReceivedAs(id, n, type, cs) ==
  /\ n = IF paramsRead THEN Content.norders ELSE 0
  /\ DOMAIN objects' = DOMAIN objects \cup {id}
  /\ \A q \in DOMAIN objects : q # id => objects'[q] = objects[q]
  /\ objects'[id] =
       [updated |-> Content.updated, norders |-> n, orders |-> [s \in Slots(n) |-> NoOrder]]
  /\ Srv!HandleEvent(Asks(Nothing), Events(cs))
  /\ ToSet(cs) = {AboutObject(type, id)}
       \cup (IF paramsRead /\ n = 0 THEN {AboutObject("PlanetNoOrders", id)} ELSE {})
  /\ \A X : AboutObject(type, id) \notin X =>
       Count(cs, X) =
         IF AboutObject("PlanetNoOrders", id) \in X /\ paramsRead /\ n = 0 THEN 1 ELSE 0

LEMMA DataReceived ==
  ASSUME IInv, DataReceive, NEW id, id = Content.id
  PROVE  /\ UNCHANGED <<paramsRead, patient, pageSize, descs, stopped, queues, changed, clock>>
         /\ Content \in Replies /\ Content.type = "Object" /\ id \in Planets
         /\ Content \in Passing
         /\ \E n \in Nat : \E type \in {"ObjectNew", "ObjectChanged"} : \E cs \in Seq(Replies) :
              ReceivedAs(id, n, type, cs)
<1>1. UNCHANGED <<paramsRead, patient, pageSize, descs, stopped, queues, changed, clock>>
  BY DEF DataReceive, chosenVars, peerVars
<1>2. events # <<>> /\ Content.type = "Object"
  BY DEF DataReceive, Arrives, Content
<1>3. Content \in Replies /\ Content \in Passing
  <2>1. Content = Head(Waiting) /\ Waiting # <<>> /\ Waiting \in Seq(Replies)
    BY <1>2, Queues DEF IInv
  <2>2. Content \in Replies /\ Content \in ToSet(Waiting)
    BY <2>1, HeadAndTail
  <2> QED BY <2>2 DEF Passing
<1>4. Content.id \in Planets /\ Content.norders \in Nat /\ Content.updated \in Nat
  BY <1>2, <1>3, SaidToClient
<1> PICK n : n = IF paramsRead THEN Content.norders ELSE 0
  OBVIOUS
<1> PICK type : type = IF id \notin DOMAIN objects THEN "ObjectNew" ELSE "ObjectChanged"
  OBVIOUS
<1>5. n \in Nat /\ type \in {"ObjectNew", "ObjectChanged"} /\ id \in Planets
  BY <1>4
<1>6. /\ objects' = [p \in DOMAIN objects \cup {id} |->
                       IF p # id THEN objects[p]
                       ELSE WithSlots(IF id \notin DOMAIN objects THEN NewObject ELSE objects[id],
                                      n, Content.updated)]
      /\ Srv!HandleEvent(<<>>,
           <<Event(AboutObject(type, id))>>
             \o (IF paramsRead /\ NoOrders(n)
                 THEN <<Event(AboutObject("PlanetNoOrders", id))>> ELSE <<>>))
  BY DEF DataReceive
<1>7. WithSlots(IF id \notin DOMAIN objects THEN NewObject ELSE objects[id], n, Content.updated)
        = [updated |-> Content.updated, norders |-> n, orders |-> [s \in Slots(n) |-> NoOrder]]
  <2> PICK u \in Nat : u = Content.updated
    BY <1>4
  <2> PICK z : z = [s \in Slots(n) |-> NoOrder]
    OBVIOUS
  <2>1. CASE id \notin DOMAIN objects
    <3> PICK O : O = {[s \in {} |-> NoOrder], z}
      OBVIOUS
    <3>1. NewObject \in [updated : Nat, norders : Nat, orders : O]
      BY DEF NewObject
    <3>2. z \in O /\ z = [s \in Slots(n) |-> NoOrder]
      OBVIOUS
    <3>3. WithSlots(NewObject, n, u) = [updated |-> u, norders |-> n, orders |-> z]
      BY <1>5, <3>1, <3>2, SlotsGiven
    <3> QED BY <2>1, <3>3
  <2>2. CASE id \in DOMAIN objects
    <3>1. PICK x : x = objects[id] /\ x \in ObjectType
      BY <2>2 DEF IInv, ObjectsKept, ObjectOK
    <3> PICK O : O = {x.orders, z}
      OBVIOUS
    <3>2. x \in [updated : Nat, norders : Nat, orders : O]
      BY <3>1 DEF ObjectType
    <3>3. z \in O /\ z = [s \in Slots(n) |-> NoOrder]
      OBVIOUS
    <3>4. WithSlots(x, n, u) = [updated |-> u, norders |-> n, orders |-> z]
      BY <1>5, <3>2, <3>3, SlotsGiven
    <3> QED BY <2>2, <3>1, <3>4
  <2> QED BY <2>1, <2>2
<1>8. /\ DOMAIN objects' = DOMAIN objects \cup {id}
      /\ \A q \in DOMAIN objects : q # id => objects'[q] = objects[q]
      /\ objects'[id] =
           [updated |-> Content.updated, norders |-> n, orders |-> [s \in Slots(n) |-> NoOrder]]
  BY ONLY <1>6, <1>7
<1> PICK a : a = AboutObject(type, id)
  OBVIOUS
<1> PICK b : b = AboutObject("PlanetNoOrders", id)
  OBVIOUS
<1>9. a \in Replies /\ b \in Replies
  BY <1>5, Says
<1>10. \E cs \in Seq(Replies) :
         /\ Srv!HandleEvent(Asks(Nothing), Events(cs))
         /\ ToSet(cs) = {a} \cup (IF paramsRead /\ n = 0 THEN {b} ELSE {})
         /\ \A X : a \notin X =>
              Count(cs, X) = IF b \in X /\ paramsRead /\ n = 0 THEN 1 ELSE 0
  <2>1. CASE paramsRead /\ n = 0
    <3>1. PICK cs \in Seq(Replies) : cs = <<a, b>>
      BY <1>9, TwoSent
    <3>2. Events(cs) = <<Event(a)>> \o <<Event(b)>>
      BY <1>9, <3>1, TwoEvents
    <3>3. Srv!HandleEvent(Asks(Nothing), Events(cs))
      BY <1>6, <2>1, <3>2, NothingSent DEF NoOrders
    <3>4. /\ ToSet(cs) = {a, b}
          /\ \A X : Count(cs, X) = (IF a \in X THEN 1 ELSE 0) + (IF b \in X THEN 1 ELSE 0)
      BY <1>9, <3>1, TwoSent
    <3>5. \A X : a \notin X => Count(cs, X) = IF b \in X THEN 1 ELSE 0
      BY ONLY <3>4
    <3> QED BY <2>1, <3>3, <3>4, <3>5
  <2>2. CASE ~(paramsRead /\ n = 0)
    <3>1. PICK cs \in Seq(Replies) : cs = <<a>>
      BY <1>9, OneSent
    <3>2. Events(cs) = <<Event(a)>> /\ <<Event(a)>> \o <<>> = <<Event(a)>>
      BY <3>1, OneSent
    <3>3. Srv!HandleEvent(Asks(Nothing), Events(cs))
      BY <1>6, <2>2, <3>2, NothingSent DEF NoOrders
    <3>4. ToSet(cs) = {a} /\ \A X : Count(cs, X) = IF a \in X THEN 1 ELSE 0
      BY <3>1, OneSent
    <3> QED BY <2>2, <3>3, <3>4
  <2> QED BY <2>1, <2>2
<1>11. \E cs \in Seq(Replies) : ReceivedAs(id, n, type, cs)
  BY <1>8, <1>10 DEF ReceivedAs
<1> QED BY <1>1, <1>2, <1>3, <1>5, <1>11

LEMMA DataReceiveInv ==
  ASSUME IInv, DataReceive
  PROVE  IInv'
<1> PICK id : id = Content.id
  OBVIOUS
<1>1. /\ UNCHANGED <<paramsRead, patient, pageSize, descs, stopped, queues, changed, clock>>
      /\ Content \in Replies /\ Content.type = "Object" /\ id \in Planets /\ id = Content.id
      /\ Content \in Passing
  BY DataReceived
<1>2. PICK n \in Nat, type \in {"ObjectNew", "ObjectChanged"}, cs \in Seq(Replies) :
        ReceivedAs(id, n, type, cs)
  BY DataReceived
<1> PICK a : a = AboutObject(type, id)
  OBVIOUS
<1> PICK b : b = AboutObject("PlanetNoOrders", id)
  OBVIOUS
<1>3. /\ n = IF paramsRead THEN Content.norders ELSE 0
      /\ DOMAIN objects' = DOMAIN objects \cup {id}
      /\ \A q \in DOMAIN objects : q # id => objects'[q] = objects[q]
      /\ objects'[id] =
           [updated |-> Content.updated, norders |-> n, orders |-> [s \in Slots(n) |-> NoOrder]]
  BY <1>2 DEF ReceivedAs
<1>4. /\ Srv!HandleEvent(Asks(Nothing), Events(cs))
      /\ ToSet(cs) = {a} \cup (IF paramsRead /\ n = 0 THEN {b} ELSE {})
      /\ \A X : a \notin X =>
           Count(cs, X) = IF b \in X /\ paramsRead /\ n = 0 THEN 1 ELSE 0
  BY <1>2 DEF ReceivedAs
<1>5. /\ a \in Replies /\ a.type = type /\ a.id = id /\ Announces(a)
      /\ b \in Replies /\ b.type = "PlanetNoOrders" /\ b.id = id
  <2>1. a \in Replies /\ b \in Replies
    BY <1>1, Says
  <2>2. a.type = type /\ a.id = id /\ b.type = "PlanetNoOrders" /\ b.id = id
    BY DEF AboutObject
  <2> QED BY <2>1, <2>2 DEF Announces
<1>6. \A r \in ToSet(cs) : r = a \/ (r = b /\ paramsRead /\ n = 0)
  BY <1>4
<1>7. /\ Nothing \in Seq(RequestBodies) /\ ToSet(Nothing) = {} /\ \A X : Count(Nothing, X) = 0
      /\ Srv!IInv
  BY NothingSent DEF IInv
<1>8. /\ Srv!IInv' /\ Waiting # <<>>
      /\ Arriving' = Arriving
      /\ ToSet(Wire') = ToSet(Wire)
      /\ Passing' \subseteq Passing \cup ToSet(cs)
      /\ UnderWay = {Content} \cup Left
      /\ UnderWay' = Left \cup ToSet(cs)
  <2>1. /\ Srv!IInv' /\ Waiting # <<>>
        /\ Arriving' = Arriving
        /\ ToSet(Wire') = ToSet(Wire) \cup ToSet(Nothing)
        /\ Passing' \subseteq Passing \cup ToSet(cs)
        /\ UnderWay = {Content} \cup Left
        /\ UnderWay' = Left \cup ToSet(Nothing) \cup ToSet(cs)
    BY <1>4, <1>7, EventEffect
  <2> QED BY <1>7, <2>1
<1>9. SmithCalled'
  BY <1>4, <1>7, SmithEvent DEF IInv
<1>10. Typed' /\ FewGiven'
  BY <1>1 DEF IInv, Typed, FewGiven, Given
<1>11. /\ objects'[id].updated = Content.updated /\ objects'[id].norders = n
       /\ objects'[id].orders = [s \in Slots(n) |-> NoOrder]
       /\ id \in DOMAIN objects'
  BY <1>3
<1>12. Content.updated \in Nat /\ Content.updated <= changed[id] /\ changed' = changed
  BY <1>1, SaidToClient DEF IInv, Meant, ReplyMeant
<1>13. ObjectsKept'
  <2>1. DOMAIN objects \subseteq Planets /\ \A q \in DOMAIN objects : ObjectOK(q)
    BY DEF IInv, ObjectsKept
  <2>2. ObjectOK(id)'
    <3>1. objects'[id] \in ObjectType
      <4> PICK z : z = [s \in Slots(n) |-> NoOrder]
        OBVIOUS
      <4>1. z \in [Slots(n) -> OrderType]
        BY DEF OrderType
      <4>2. z \in UNION {[Slots(m) -> OrderType] : m \in Nat}
        BY ONLY <4>1, n \in Nat
      <4>3. objects'[id] = [updated |-> Content.updated, norders |-> n, orders |-> z]
        BY <1>3
      <4> QED BY ONLY <1>12, <4>2, <4>3, n \in Nat DEF ObjectType
    <3>2. DOMAIN objects'[id].orders = Slots(objects'[id].norders)
      BY <1>11
    <3>3. objects'[id].updated <= changed'[id]
      BY <1>11, <1>12
    <3> QED BY <3>1, <3>2, <3>3 DEF ObjectOK
  <2>3. ASSUME NEW q \in DOMAIN objects, q # id PROVE ObjectOK(q)'
    <3>1. ObjectOK(q) /\ objects'[q] = objects[q]
      BY <1>3, <2>1, <2>3
    <3> QED BY <1>12, <3>1 DEF ObjectOK
  <2> QED BY <1>1, <1>3, <2>1, <2>2, <2>3 DEF ObjectsKept
<1>14. Meant'
  <2>1. ASSUME NEW r \in ToSet(Wire') PROVE RequestMeant(r)'
    <3>1. RequestMeant(r)
      BY <1>8 DEF IInv, Meant
    <3> QED BY <1>3, <3>1 DEF RequestMeant
  <2>2. ASSUME NEW r \in Passing' PROVE ReplyMeant(r)'
    <3>1. CASE r \in Passing
      <4>1. ReplyMeant(r)
        BY <3>1 DEF IInv, Meant
      <4> QED BY <1>3, <1>12, <4>1 DEF ReplyMeant
    <3>2. CASE r \in ToSet(cs)
      BY <1>5, <1>6, <1>11, <3>2 DEF ReplyMeant, IsOrder, Announces
    <3> QED BY <1>8, <3>1, <3>2
  <2> QED BY <2>1, <2>2 DEF Meant
<1>15. NoneRead'
  <2> SUFFICES ASSUME ~paramsRead
               PROVE  /\ stopped' = "no"
                      /\ \A q \in DOMAIN objects' : objects'[q].norders = 0
                      /\ \A r \in UnderWay' : ~AboutOrders(r)
    BY <1>1 DEF NoneRead
  <2>1. /\ stopped = "no"
        /\ \A q \in DOMAIN objects : objects[q].norders = 0
        /\ \A r \in UnderWay : ~AboutOrders(r)
    BY DEF IInv, NoneRead
  <2>2. \A r \in ToSet(cs) : ~AboutOrders(r)
    BY <1>5, <1>6 DEF AboutOrders
  <2>3. n = 0
    BY <1>3
  <2>4. \A q \in DOMAIN objects' : objects'[q].norders = 0
    BY <1>3, <1>11, <2>1, <2>3
  <2> QED BY <1>1, <1>8, <2>1, <2>2, <2>4
<1>16. DescriptionsFirst'
  <2> SUFFICES ASSUME OnePage
               PROVE  /\ stopped' # "description" /\ AllDescribed'
                      /\ \A t \in Types \ descs' : DescribedFirst(t)'
    BY <1>1 DEF DescriptionsFirst, OnePage
  <2>1. stopped # "description" /\ AllDescribed /\ \A t \in Types \ descs : DescribedFirst(t)
    BY DEF IInv, DescriptionsFirst
  <2>3. \A q \in DOMAIN objects' : StrGet(objects[q].orders)'
    <3> SUFFICES ASSUME NEW q \in DOMAIN objects' PROVE StrGet(objects[q].orders)'
      OBVIOUS
    <3>1. CASE q = id
      <4>1. {s \in DOMAIN objects'[q].orders : objects'[q].orders[s] # NoOrder} = {}
        BY <1>11, <3>1
      <4> QED BY <4>1 DEF StrGet
    <3>2. CASE q # id
      <4>1. q \in DOMAIN objects /\ objects'[q] = objects[q] /\ descs' = descs
        BY <1>1, <1>3, <3>2
      <4>2. StrGet(objects[q].orders)
        BY <2>1, <4>1 DEF AllDescribed
      <4> QED BY <4>1, <4>2 DEF StrGet
    <3> QED BY <3>1, <3>2
  <2>4. AllDescribed'
    BY <2>3 DEF AllDescribed
  <2>5. ASSUME NEW t \in Types \ descs' PROVE DescribedFirst(t)'
    <3>1. DescribedFirst(t)
      BY <1>1, <2>1
    <3>2. Content \notin Describing(t) /\ Content \in ObjectThings
      BY <1>1 DEF Describing, ObjectThings, Said
    <3>3. IsUnderWay(Describing(t))
      BY <1>7, <1>8, <3>1, <3>2, ObjectThingsFirst
    <3>4. ToSet(cs) \cap OrderThings = {} /\ ToSet(Nothing) \cap OrderThings = {}
      <4>1. \A r \in ToSet(cs) : r.type \in {"ObjectNew", "ObjectChanged", "PlanetNoOrders"}
        BY <1>5, <1>6
      <4> QED BY <1>7, <4>1 DEF OrderThings, IsOrder
    <3> QED BY <1>4, <1>7, <3>1, <3>2, <3>3, <3>4, EventDescribed
  <2> QED BY <1>1, <2>1, <2>4, <2>5
<1>17. ASSUME Reading PROVE (OneErrand /\ AllTrue /\ Renewed /\ Filled /\ stopped # "slot")'
  <2>1. /\ OneErrand /\ AllTrue /\ Renewed /\ Filled /\ stopped # "slot"
        /\ DOMAIN objects \subseteq Planets
    BY <1>17 DEF IInv, ObjectsKept
  <2>2. paramsRead /\ Content.updated = changed[id] /\ n = Len(queues[id])
    BY <1>1, <1>3, <1>17, <2>1 DEF AllTrue, ReplyTrue, Reading
  <2>3. ASSUME NEW p \in Planets PROVE Errands(p)' <= 1
    <3>1. Count(cs, HeardOf(p)) <= IF p = id THEN 1 ELSE 0
      <4>1. a \notin HeardOf(p) /\ (b \in HeardOf(p) => p = id)
        BY <1>2, <1>5 DEF HeardOf, Lists
      <4> QED BY <1>4, <4>1
    <3>2. Content \in HeardOf(p) <=> p = id
      BY <1>1 DEF HeardOf, Lists
    <3>3. PICK x \in Nat, y \in Nat, m \in Nat :
            x = Errands(p) /\ y = Errands(p)' /\ m = Count(cs, HeardOf(p))
      BY <1>4, <1>7, EventErrands
    <3>4. y + (IF Content \in HeardOf(p) THEN 1 ELSE 0) = x + Count(Nothing, AskedOf(p)) + m
      BY <1>4, <1>7, <3>3, EventErrands
    <3>5. y + (IF p = id THEN 1 ELSE 0) = x + m
      BY <1>7, <3>2, <3>4
    <3>6. x <= 1 /\ m <= IF p = id THEN 1 ELSE 0
      BY <2>1, <3>1, <3>3 DEF OneErrand
    <3> QED BY ONLY <3>3, <3>5, <3>6
  <2>4. Fresh(id)' /\ (id \in DOMAIN objects /\ Fresh(id) => objects[id].norders = n)
    <3>1. Fresh(id)'
      BY <1>11, <1>12, <2>2 DEF Fresh
    <3> QED BY <2>1, <2>2, <3>1 DEF Filled
  <2>5. ASSUME NEW q \in DOMAIN objects, q # id
        PROVE  /\ q \in DOMAIN objects' /\ objects'[q] = objects[q]
               /\ Fresh(q)' <=> Fresh(q)
    BY <1>1, <1>3, <2>5 DEF Fresh
  <2>6. ASSUME NEW q, NEW s, SlotThere(q, s) PROVE SlotThere(q, s)'
    <3>1. Fresh(q) /\ q \in DOMAIN objects /\ s \in AskedSlots(objects[q].norders)
      BY <2>6 DEF SlotThere, Fresh
    <3>2. Fresh(q)' /\ objects'[q].norders = objects[q].norders
      BY <1>11, <2>4, <2>5, <3>1
    <3> QED BY <3>1, <3>2 DEF SlotThere
  <2>7. ASSUME NEW q, WithoutOrders(q) PROVE WithoutOrders(q)'
    <3>1. q \in DOMAIN objects /\ objects[q].norders = 0 /\ queues[q] = <<>>
      BY <2>7 DEF WithoutOrders
    <3>2. q \in DOMAIN objects' /\ objects'[q].norders = 0
      <4>1. CASE q = id
        <5>1. Len(queues[id]) = 0
          BY <3>1, <4>1
        <5> QED BY <1>11, <2>2, <4>1, <5>1
      <4>2. CASE q # id
        BY <2>5, <3>1, <4>2
      <4> QED BY <4>1, <4>2
    <3> QED BY <1>1, <3>1, <3>2 DEF WithoutOrders
  <2>8. ASSUME NEW r \in ToSet(Wire') PROVE RequestTrue(r)'
    <3>1. RequestTrue(r)
      BY <1>8, <2>1 DEF AllTrue
    <3> QED BY <2>6, <2>7, <3>1 DEF RequestTrue
  <2>9. ASSUME NEW r \in Passing' PROVE ReplyTrue(r)'
    <3>1. CASE r \in Passing
      <4>1. ReplyTrue(r) /\ ReplyMeant(r)
        BY <2>1, <3>1 DEF AllTrue, IInv, Meant
      <4>2. ASSUME Announces(r) PROVE Fresh(r.id)' \/ objects'[r.id].norders = 0
        <5>1. r.id \in DOMAIN objects /\ (Fresh(r.id) \/ objects[r.id].norders = 0)
          BY <4>1, <4>2 DEF ReplyTrue, ReplyMeant
        <5> QED BY <2>4, <2>5, <5>1
      <4> QED BY <1>1, <2>6, <2>7, <4>1, <4>2 DEF ReplyTrue
    <3>2. CASE r = a
      BY <1>2, <1>5, <2>4, <3>2 DEF ReplyTrue, IsOrder
    <3>3. CASE r = b /\ n = 0
      <4>1. queues[id] = <<>>
        <5>1. PICK queue \in Seq(ServerOrder) : queue = queues[id]
          BY <1>1 DEF IInv, Typed
        <5>2. Len(queue) = 0
          BY <2>2, <3>3, <5>1
        <5>3. queue = <<>>
          BY ONLY <5>2, queue \in Seq(ServerOrder)
        <5> QED BY <5>1, <5>3
      <4>2. WithoutOrders(id)'
        BY <1>1, <1>11, <3>3, <4>1 DEF WithoutOrders
      <4> QED BY <1>5, <3>3, <4>2 DEF ReplyTrue, IsOrder, Announces
    <3> QED BY <1>6, <1>8, <3>1, <3>2, <3>3
  <2>10. AllTrue'
    <3>1. ASSUME NEW p \in Planets, NEW r \in ToSet(Arriving'), r \in Probed(p)
          PROVE  WithoutOrders(p)'
      BY <1>8, <2>1, <2>7, <3>1 DEF AllTrue
    <3> QED BY <2>8, <2>9, <3>1 DEF AllTrue, Probed
  <2>11. OneErrand'
    BY <2>3 DEF OneErrand
  <2>12. ASSUME NEW Y, Content \notin Y, UnderWay \cap Y # {} PROVE UnderWay' \cap Y # {}
    BY <1>8, <2>12
  <2>13. Renewed'
    <3> SUFFICES ASSUME NEW q \in DOMAIN objects'
                 PROVE  Fresh(q)' \/ objects'[q].norders = 0 \/ IsUnderWay(Renews(q))'
      BY DEF Renewed
    <3>1. CASE q = id
      BY <2>4, <3>1
    <3>2. CASE q # id
      <4>1. q \in DOMAIN objects
        BY <1>3, <3>2
      <4>2. Fresh(q) \/ objects[q].norders = 0 \/ IsUnderWay(Renews(q))
        BY <2>1, <4>1 DEF Renewed
      <4>3. ASSUME IsUnderWay(Renews(q)) PROVE IsUnderWay(Renews(q))'
        <5>1. Content \notin Renews(q)
          BY <1>1, <3>2 DEF Renews, Lists
        <5>2. UnderWay' \cap Renews(q) # {}
          BY <2>12, <4>3, <5>1 DEF IsUnderWay
        <5> QED BY <5>2 DEF IsUnderWay, Renews, Lists
      <4> QED BY <2>5, <3>2, <4>1, <4>2, <4>3
    <3> QED BY <3>1, <3>2
  <2>14. Filled'
    <3> SUFFICES ASSUME NEW q \in DOMAIN objects', Fresh(q)'
                 PROVE  /\ objects'[q].norders = Len(queues'[q])
                        /\ \A s \in Slots(objects'[q].norders) : SlotFilled(q, s)'
      BY DEF Filled
    <3>1. CASE q = id
      <4>1. objects'[q].norders = Len(queues'[q])
        BY <1>1, <1>11, <2>2, <3>1
      <4>2. ASSUME NEW s \in Slots(n) PROVE SlotFilled(q, s)'
        <5>1. objects'[q].orders[s] = NoOrder
          BY <1>11, <3>1
        <5>2. UnderWay' \cap Fills(q, s) # {}
          <6>1. a \in Fills(q, s)
            BY <1>5, <3>1 DEF Fills, Said
          <6> QED BY <1>4, <1>8, <6>1
        <5>3. IsUnderWay(Fills(q, s))'
          BY <5>2 DEF IsUnderWay, Fills, Announces
        <5> QED BY <5>1, <5>3 DEF SlotFilled
      <4> QED BY <1>11, <3>1, <4>1, <4>2
    <3>2. CASE q # id
      <4>1. q \in DOMAIN objects
        BY <1>3, <3>2
      <4>2. Fresh(q) /\ objects'[q] = objects[q] /\ queues' = queues
        BY <1>1, <2>5, <3>2, <4>1
      <4>3. /\ objects[q].norders = Len(queues[q])
            /\ \A s \in Slots(objects[q].norders) : SlotFilled(q, s)
        BY <2>1, <4>1, <4>2 DEF Filled
      <4>4. ASSUME NEW s, SlotFilled(q, s) PROVE SlotFilled(q, s)'
        <5>1. IsUnderWay(Fills(q, s)) => IsUnderWay(Fills(q, s))'
          <6>1. Content \notin Fills(q, s)
            BY <1>1 DEF Fills, Announces
          <6>2. UnderWay \cap Fills(q, s) # {} => UnderWay' \cap Fills(q, s) # {}
            BY <2>12, <6>1
          <6> QED BY <6>2 DEF IsUnderWay, Fills, Announces
        <5> QED BY <4>2, <4>4, <5>1 DEF SlotFilled
      <4> QED BY <4>2, <4>3, <4>4
    <3> QED BY <3>1, <3>2
  <2>15. stopped' # "slot"
    BY <1>1, <2>1
  <2> QED BY <2>10, <2>11, <2>13, <2>14, <2>15
<1>18. Reading' <=> Reading
  BY <1>1 DEF Reading
<1> QED BY <1>8, <1>9, <1>10, <1>13, <1>14, <1>15, <1>16, <1>17, <1>18 DEF IInv

-----------------------------------------------------------------------------
(* An order is received                                                    *)

(* The order is put into its slot, or the slot is not there.               *)
OrderPut(id, slot, order) ==
  \/ slot \notin DOMAIN objects[id].orders /\ stopped' = "slot" /\ UNCHANGED objects
  \/ /\ slot \in DOMAIN objects[id].orders
     /\ DOMAIN objects' = DOMAIN objects
     /\ \A q \in DOMAIN objects : q # id => objects'[q] = objects[q]
     /\ objects'[id].updated = objects[id].updated /\ objects'[id].norders = objects[id].norders
     /\ objects'[id].orders = [objects[id].orders EXCEPT ![slot] = order]
     /\ objects'[id] \in ObjectType
     /\ stopped' = IF StrGet(objects'[id].orders) THEN "no" ELSE "description"

LEMMA OrderReceived ==
  ASSUME IInv, OrderReceive, NEW id, id = Content.id, Content.slot # -1
  PROVE  /\ UNCHANGED <<paramsRead, patient, pageSize, descs, queues, changed, clock>>
         /\ Content \in Replies /\ Content.type = "Order" /\ Content \in Passing
         /\ id \in Planets /\ id \in DOMAIN objects /\ paramsRead
         /\ Content.order \in ServerOrder
         /\ Srv!HandleEvent(<<>>, <<>>)
         /\ OrderPut(id, Content.slot, Content.order)
<1>1. UNCHANGED <<paramsRead, patient, pageSize, descs, queues, changed, clock>>
  BY DEF OrderReceive, chosenVars, peerVars
<1>2. events # <<>> /\ Content.type = "Order" /\ Srv!HandleEvent(<<>>, <<>>)
  BY DEF OrderReceive, Arrives, Content
<1>3. Content \in Replies /\ Content \in Passing
  <2>1. Content = Head(Waiting) /\ Waiting # <<>> /\ Waiting \in Seq(Replies)
    BY <1>2, Queues DEF IInv
  <2>2. Content \in Replies /\ Content \in ToSet(Waiting)
    BY <2>1, HeadAndTail
  <2> QED BY <2>2 DEF Passing
<1>4. id \in Planets /\ Content.order \in ServerOrder
  BY <1>2, <1>3, SaidToClient DEF ServerOrder
<1>5. id \in DOMAIN objects
  BY <1>2, <1>3 DEF IInv, Meant, ReplyMeant, IsOrder
<1>6. paramsRead
  BY <1>2, <1>3 DEF IInv, NoneRead, AboutOrders, UnderWay
<1> PICK slot : slot = Content.slot
  OBVIOUS
<1> PICK order \in ServerOrder : order = Content.order
  BY <1>4
<1> PICK new : new = [objects[id].orders EXCEPT ![slot] = order]
  OBVIOUS
<1>7. IF slot \notin DOMAIN objects[id].orders
      THEN stopped' = "slot" /\ UNCHANGED objects
      ELSE /\ objects' = [objects EXCEPT ![id].orders = new]
           /\ stopped' = IF StrGet(new) THEN "no" ELSE "description"
  BY DEF OrderReceive, SlotOf
<1>8. ASSUME slot \in DOMAIN objects[id].orders
      PROVE  /\ DOMAIN objects' = DOMAIN objects
             /\ \A q \in DOMAIN objects : q # id => objects'[q] = objects[q]
             /\ objects'[id].updated = objects[id].updated
             /\ objects'[id].norders = objects[id].norders
             /\ objects'[id].orders = new
             /\ objects'[id] \in ObjectType
  <2>1. objects' = [objects EXCEPT ![id].orders = new]
    BY <1>7, <1>8
  <2>2. PICK x \in ObjectType : x = objects[id] /\ DOMAIN x.orders = Slots(x.norders)
    BY <1>5 DEF IInv, ObjectsKept, ObjectOK
  <2>3. /\ DOMAIN objects' = DOMAIN objects
        /\ \A q \in DOMAIN objects : q # id => objects'[q] = objects[q]
        /\ objects'[id] = [x EXCEPT !.orders = new]
    BY ONLY <1>5, <2>1, <2>2
  <2>4. new \in UNION {[Slots(n) -> OrderType] : n \in Nat}
    <3>1. PICK n \in Nat : x.orders \in [Slots(n) -> OrderType]
      BY <2>2 DEF ObjectType
    <3>2. new = [x.orders EXCEPT ![slot] = order] /\ order \in OrderType
      BY <2>2 DEF OrderType
    <3>3. new \in [Slots(n) -> OrderType]
      BY ONLY <3>1, <3>2
    <3> QED BY <3>3
  <2>5. /\ [x EXCEPT !.orders = new] \in ObjectType
        /\ [x EXCEPT !.orders = new].updated = x.updated
        /\ [x EXCEPT !.orders = new].norders = x.norders
        /\ [x EXCEPT !.orders = new].orders = new
    BY ONLY <2>4, x \in ObjectType DEF ObjectType
  <2> QED BY <2>2, <2>3, <2>5
<1>9. OrderPut(id, slot, order)
  <2>1. CASE slot \notin DOMAIN objects[id].orders
    BY <1>7, <2>1 DEF OrderPut
  <2>2. CASE slot \in DOMAIN objects[id].orders
    <3>1. stopped' = IF StrGet(new) THEN "no" ELSE "description"
      BY <1>7, <2>2
    <3> QED BY <1>8, <2>2, <3>1 DEF OrderPut
  <2> QED BY <2>1, <2>2
<1> QED BY <1>1, <1>2, <1>3, <1>4, <1>5, <1>6, <1>9

LEMMA OrderReceiveInv ==
  ASSUME IInv, OrderReceive
  PROVE  IInv'
<1>1. CASE Content.slot = -1
  <2>1. UNCHANGED <<objects, stopped>> /\ Srv!HandleEvent(<<>>, <<>>) /\ Content.type = "Order"
    BY <1>1 DEF OrderReceive, Arrives, Content
  <2>2. SameData
    BY <2>1 DEF OrderReceive, SameData, chosenVars, peerVars
  <2>3. \A t : Content \notin Describing(t)
    BY <2>1 DEF Describing
  <2> QED BY <1>1, <2>1, <2>2, <2>3, QuietEventStep
<1>2. CASE Content.slot # -1
  <2> PICK id : id = Content.id
    OBVIOUS
  <2> PICK slot : slot = Content.slot
    OBVIOUS
  <2>1. /\ UNCHANGED <<paramsRead, patient, pageSize, descs, queues, changed, clock>>
        /\ Content \in Replies /\ Content.type = "Order" /\ Content \in Passing
        /\ Content.id = id /\ Content.slot = slot /\ slot # -1
        /\ id \in Planets /\ id \in DOMAIN objects /\ paramsRead
        /\ Content.order \in ServerOrder
        /\ OrderPut(id, slot, Content.order)
    BY <1>2, OrderReceived
  <2>2. /\ Srv!HandleEvent(Asks(Nothing), Events(Nothing))
        /\ Nothing \in Seq(RequestBodies) /\ Nothing \in Seq(Replies)
        /\ ToSet(Nothing) = {} /\ \A X : Count(Nothing, X) = 0
    BY <1>2, OrderReceived, NothingSent
  <2>3. Srv!IInv
    BY DEF IInv
  <2>4. /\ Srv!IInv' /\ Waiting # <<>>
        /\ Arriving' = Arriving
        /\ ToSet(Wire') = ToSet(Wire)
        /\ Passing' \subseteq Passing
        /\ UnderWay = {Content} \cup Left
        /\ UnderWay' = Left
    <3>1. /\ Srv!IInv' /\ Waiting # <<>>
          /\ Arriving' = Arriving
          /\ ToSet(Wire') = ToSet(Wire) \cup ToSet(Nothing)
          /\ Passing' \subseteq Passing \cup ToSet(Nothing)
          /\ UnderWay = {Content} \cup Left
          /\ UnderWay' = Left \cup ToSet(Nothing) \cup ToSet(Nothing)
      BY <2>2, <2>3, EventEffect
    <3> QED BY <2>2, <3>1
  <2>5. SmithCalled'
    BY <2>2, <2>3, SmithEvent DEF IInv
  <2>6. /\ DOMAIN objects' = DOMAIN objects
        /\ \A q \in DOMAIN objects : /\ objects'[q].updated = objects[q].updated
                                     /\ objects'[q].norders = objects[q].norders
        /\ \A q \in DOMAIN objects : q # id => objects'[q] = objects[q]
        /\ stopped' \in {"no", "slot", "description"}
    BY <2>1 DEF OrderPut
  <2>7. DOMAIN objects \subseteq Planets /\ \A q \in DOMAIN objects : ObjectOK(q)
    BY DEF IInv, ObjectsKept
  <2>8. DOMAIN objects'[id].orders = DOMAIN objects[id].orders /\ objects'[id] \in ObjectType
    <3>1. objects[id] \in ObjectType
      BY <2>1, <2>7 DEF ObjectOK
    <3>2. CASE UNCHANGED objects
      BY <3>1, <3>2
    <3>3. CASE objects'[id].orders = [objects[id].orders EXCEPT ![slot] = Content.order]
               /\ objects'[id] \in ObjectType
      BY <3>3
    <3> QED BY <2>1, <3>2, <3>3 DEF OrderPut
  <2>9. Typed' /\ FewGiven'
    BY <2>1, <2>6 DEF IInv, Typed, FewGiven, Given
  <2>10. ObjectsKept'
    <3>1. ASSUME NEW q \in DOMAIN objects PROVE ObjectOK(q)'
      <4>1. /\ objects[q] \in ObjectType /\ DOMAIN objects[q].orders = Slots(objects[q].norders)
            /\ objects[q].updated <= changed[q]
        BY <2>7 DEF ObjectOK
      <4>2. objects'[q] \in ObjectType /\ DOMAIN objects'[q].orders = DOMAIN objects[q].orders
        BY <2>6, <2>8, <4>1
      <4> QED BY <2>1, <2>6, <4>1, <4>2 DEF ObjectOK
    <3> QED BY <2>6, <2>7, <3>1 DEF ObjectsKept
  <2>11. Meant'
    <3>1. \A r : /\ RequestMeant(r)' <=> RequestMeant(r)
                 /\ ReplyMeant(r)' <=> ReplyMeant(r)
      BY <2>1, <2>6 DEF RequestMeant, ReplyMeant
    <3> QED BY <2>4, <3>1 DEF IInv, Meant
  <2>12. NoneRead'
    BY <2>1 DEF NoneRead
  <2>13. DescriptionsFirst'
    <3> SUFFICES ASSUME OnePage
                 PROVE  /\ stopped' # "description" /\ AllDescribed'
                        /\ \A t \in Types \ descs' : DescribedFirst(t)'
      BY <2>1 DEF DescriptionsFirst, OnePage
    <3>1. \A t \in Types \ descs : DescribedFirst(t)
      BY DEF IInv, DescriptionsFirst
    <3>2. Content \in OrderThings
      BY <2>1 DEF OrderThings, Said, IsOrder
    <3>3. Types \ descs = {}
      BY <2>3, <2>4, <3>1, <3>2, ObjectThingsFirst
    <3>4. Types \ descs' = {}
      BY <2>1, <3>3
    <3>5. ASSUME NEW q \in DOMAIN objects'
          PROVE  StrGet(objects'[q].orders) /\ StrGet(objects[q].orders)'
      <4>1. objects'[q] \in ObjectType
        BY <2>10 DEF ObjectsKept, ObjectOK
      <4>2. PICK n \in Nat : objects'[q].orders \in [Slots(n) -> OrderType]
        BY <4>1 DEF ObjectType
      <4>3. \A s \in DOMAIN objects'[q].orders :
              objects'[q].orders[s] # NoOrder => objects'[q].orders[s].type \in Types
        BY ONLY <4>2 DEF OrderType, ServerOrder
      <4>4. Types \subseteq descs /\ Types \subseteq descs'
        BY <3>3, <3>4
      <4> QED BY ONLY <4>3, <4>4 DEF StrGet
    <3>6. stopped' # "description"
      BY <2>1, <2>6, <3>5 DEF OrderPut
    <3>7. AllDescribed'
      BY <3>5 DEF AllDescribed
    <3> QED BY <3>4, <3>6, <3>7
  <2>14. ASSUME Reading PROVE (OneErrand /\ AllTrue /\ Renewed /\ Filled /\ stopped # "slot")'
    <3>1. OneErrand /\ AllTrue /\ Renewed /\ Filled
      BY <2>14 DEF IInv
    <3>2. SlotThere(id, slot) /\ Content.order = queues[id][slot + 1]
      BY <2>1, <3>1 DEF AllTrue, ReplyTrue, IsOrder
    <3>3. slot \in Slots(objects[id].norders) /\ slot \notin Unasked(objects[id].norders)
      BY <3>2 DEF SlotThere, AskedSlots
    <3>4. slot \in DOMAIN objects[id].orders
      BY <2>1, <2>7, <3>3 DEF ObjectOK
    <3>5. /\ objects'[id].orders = [objects[id].orders EXCEPT ![slot] = Content.order]
          /\ stopped' # "slot"
      BY <2>1, <3>4 DEF OrderPut
    <3>6. ASSUME NEW q
          PROVE  /\ Fresh(q)' <=> Fresh(q)
                 /\ WithoutOrders(q)' <=> WithoutOrders(q)
                 /\ \A s : SlotThere(q, s)' <=> SlotThere(q, s)
      BY <2>1, <2>6 DEF Fresh, WithoutOrders, SlotThere
    <3>7. ASSUME NEW r \in ToSet(Wire') PROVE RequestTrue(r)'
      <4>1. RequestTrue(r)
        BY <2>4, <3>1 DEF AllTrue
      <4> QED BY <3>6, <4>1 DEF RequestTrue
    <3>8. ASSUME NEW r \in Passing' PROVE ReplyTrue(r)'
      <4>1. ReplyTrue(r) /\ ReplyMeant(r)
        BY <2>4, <3>1 DEF AllTrue, IInv, Meant
      <4>2. Announces(r) => Fresh(r.id)' \/ objects'[r.id].norders = 0
        BY <2>6, <3>6, <4>1 DEF ReplyTrue, ReplyMeant
      <4> QED BY <2>1, <3>6, <4>1, <4>2 DEF ReplyTrue
    <3>9. AllTrue'
      <4>1. ASSUME NEW p \in Planets, NEW r \in ToSet(Arriving'), r \in Probed(p)
            PROVE  WithoutOrders(p)'
        BY <2>4, <3>1, <3>6, <4>1 DEF AllTrue
      <4> QED BY <3>7, <3>8, <4>1 DEF AllTrue, Probed
    <3>10. OneErrand'
      <4> SUFFICES ASSUME NEW p \in Planets PROVE Errands(p)' <= 1
        BY DEF OneErrand
      <4>1. Content \notin HeardOf(p)
        BY <2>1 DEF HeardOf, Lists
      <4>2. PICK x \in Nat, y \in Nat : x = Errands(p) /\ y = Errands(p)'
        BY <2>2, <2>3, EventErrands
      <4>3. y + (IF Content \in HeardOf(p) THEN 1 ELSE 0)
              = x + Count(Nothing, AskedOf(p)) + Count(Nothing, HeardOf(p))
        BY <2>2, <2>3, <4>2, EventErrands
      <4>4. y = x
        BY <2>2, <4>1, <4>2, <4>3
      <4> QED BY <3>1, <4>2, <4>4 DEF OneErrand
    <3>11. ASSUME NEW Y, Content \notin Y, UnderWay \cap Y # {} PROVE UnderWay' \cap Y # {}
      BY <2>4, <3>11
    <3>12. Renewed'
      <4> SUFFICES ASSUME NEW q \in DOMAIN objects'
                   PROVE  Fresh(q)' \/ objects'[q].norders = 0 \/ IsUnderWay(Renews(q))'
        BY DEF Renewed
      <4>1. q \in DOMAIN objects /\ objects'[q].norders = objects[q].norders
        BY <2>6
      <4>2. Fresh(q) \/ objects[q].norders = 0 \/ IsUnderWay(Renews(q))
        BY <3>1, <4>1 DEF Renewed
      <4>3. ASSUME IsUnderWay(Renews(q)) PROVE IsUnderWay(Renews(q))'
        <5>1. Content \notin Renews(q)
          BY <2>1 DEF Renews, Lists
        <5>2. UnderWay' \cap Renews(q) # {}
          BY <3>11, <4>3, <5>1 DEF IsUnderWay
        <5> QED BY <5>2 DEF IsUnderWay, Renews, Lists
      <4> QED BY <3>6, <4>1, <4>2, <4>3
    <3>13. Filled'
      <4> SUFFICES ASSUME NEW q \in DOMAIN objects', Fresh(q)'
                   PROVE  /\ objects'[q].norders = Len(queues'[q])
                          /\ \A s \in Slots(objects'[q].norders) : SlotFilled(q, s)'
        BY DEF Filled
      <4>1. /\ q \in DOMAIN objects /\ objects'[q].norders = objects[q].norders /\ Fresh(q)
            /\ queues' = queues
        BY <2>1, <2>6, <3>6
      <4>2. /\ objects[q].norders = Len(queues[q])
            /\ \A s \in Slots(objects[q].norders) : SlotFilled(q, s)
        BY <3>1, <4>1 DEF Filled
      <4>3. ASSUME NEW s \in Slots(objects[q].norders) PROVE SlotFilled(q, s)'
        <5>1. SlotFilled(q, s)
          BY <4>2
        <5>2. CASE q = id /\ s = slot
          <6>1. objects'[q].orders[s] = queues'[q][s + 1]
            BY <3>2, <3>4, <3>5, <4>1, <5>2
          <6>2. s \notin Unasked(objects'[q].norders)
            BY <3>3, <4>1, <5>2
          <6> QED BY <6>1, <6>2 DEF SlotFilled
        <5>3. CASE ~(q = id /\ s = slot)
          <6>1. objects'[q].orders[s] = objects[q].orders[s]
            <7>1. CASE q = id
              <8>1. s \in DOMAIN objects[id].orders
                BY <2>1, <2>7, <7>1 DEF ObjectOK
              <8> QED BY <3>5, <5>3, <7>1, <8>1
            <7>2. CASE q # id
              BY <2>6, <4>1, <7>2
            <7> QED BY <7>1, <7>2
          <6>2. IsUnderWay(Fills(q, s)) => IsUnderWay(Fills(q, s))'
            <7>1. Content \notin Fills(q, s)
              BY <2>1, <5>3 DEF Fills, Announces
            <7>2. UnderWay \cap Fills(q, s) # {} => UnderWay' \cap Fills(q, s) # {}
              BY <3>11, <7>1
            <7> QED BY <7>2 DEF IsUnderWay, Fills, Announces
          <6> QED BY <4>1, <5>1, <6>1, <6>2 DEF SlotFilled
        <5> QED BY <5>2, <5>3
      <4> QED BY <4>1, <4>2, <4>3
    <3> QED BY <3>5, <3>9, <3>10, <3>12, <3>13
  <2>15. Reading' <=> Reading
    BY <2>1 DEF Reading
  <2> QED BY <2>4, <2>5, <2>9, <2>10, <2>11, <2>12, <2>13, <2>14, <2>15 DEF IInv
<1> QED BY <1>1, <1>2

(* What has been carried out is gone from the front, and the planet has    *)
(* changed.                                                                *)
LEMMA EndTurnData ==
  ASSUME IInv, EndTurn
  PROVE  /\ UNCHANGED <<paramsRead, patient, pageSize, objects, descs, stopped>>
         /\ Srv!Push(Msg("NewTurn"))
         /\ patient => Wire = <<>> /\ Arriving = <<>> /\ Waiting = <<>>
         /\ Typed'
         /\ \A q \in Planets :
              /\ changed[q] \in Nat /\ changed'[q] \in Nat /\ changed[q] <= changed'[q]
              /\ \/ changed'[q] = changed[q] /\ queues'[q] = queues[q]
                 \/ /\ changed[q] < changed'[q]
                    /\ queues[q] # <<>> /\ queues'[q] = Tail(queues[q])
<1>1. /\ patient => Quiet
      /\ clock' = clock + 1
      /\ Srv!Push(Msg("NewTurn"))
      /\ UNCHANGED <<paramsRead, patient, pageSize, objects, descs, stopped>>
  BY DEF EndTurn, chosenVars, clientVars
<1>2. PICK ready \in SUBSET {q \in Planets : queues[q] # <<>>} :
        /\ queues' = [q \in Planets |-> IF q \in ready THEN Tail(queues[q]) ELSE queues[q]]
        /\ changed' = [q \in Planets |-> IF q \in ready THEN clock + 1 ELSE changed[q]]
  BY <1>1 DEF EndTurn
<1>3. patient => Wire = <<>> /\ Arriving = <<>> /\ Waiting = <<>>
  BY <1>1, Queues DEF Quiet, IInv
<1>4. /\ clock \in Nat
      /\ \A q \in Planets : /\ queues[q] \in Seq(ServerOrder)
                            /\ changed[q] \in Nat /\ changed[q] <= clock
  <2>1. Typed
    BY DEF IInv
  <2>2. \A q \in Planets : changed[q] \in Nat /\ changed[q] <= clock
    BY <2>1 DEF Typed
  <2> QED BY <2>1, <2>2 DEF Typed
<1>5. /\ DOMAIN queues' = Planets /\ DOMAIN changed' = Planets
      /\ changed' = [q \in Planets |-> changed'[q]]
      /\ \A q \in Planets :
           /\ q \in ready => /\ queues'[q] = Tail(queues[q]) /\ queues[q] # <<>>
                             /\ changed'[q] = clock + 1
           /\ q \notin ready => queues'[q] = queues[q] /\ changed'[q] = changed[q]
  BY ONLY <1>2
<1>6. ASSUME NEW q \in Planets
      PROVE  /\ queues'[q] \in Seq(ServerOrder)
             /\ changed'[q] \in 0..(clock + 1) /\ changed'[q] \in Nat
             /\ changed[q] <= changed'[q]
             /\ q \in ready => changed[q] < changed'[q]
  <2>1. queues'[q] \in Seq(ServerOrder)
    <3>1. queues[q] \in Seq(ServerOrder)
      BY <1>4
    <3>2. queues[q] # <<>> => Tail(queues[q]) \in Seq(ServerOrder)
      BY <3>1
    <3> QED BY ONLY <1>5, <3>1, <3>2, q \in Planets
  <2>2. PICK c \in Nat, d \in Nat : c = changed[q] /\ d = clock /\ c <= d
    BY <1>4
  <2>3. changed'[q] = IF q \in ready THEN d + 1 ELSE c
    BY <1>5, <2>2
  <2>4. /\ changed'[q] \in Nat /\ c <= changed'[q] /\ changed'[q] \in 0..(d + 1)
        /\ q \in ready => c < changed'[q]
    BY ONLY <2>2, <2>3
  <2> QED BY <2>1, <2>2, <2>4
<1>7. changed' \in [Planets -> Nat]
  BY ONLY <1>5, <1>6
<1>8. Typed'
  <2>1. clock + 1 \in Nat
    BY <1>4
  <2>2. paramsRead \in BOOLEAN /\ patient \in BOOLEAN /\ pageSize \in Nat \ {0}
        /\ stopped \in {"no", "slot", "description"}
    BY DEF IInv, Typed
  <2> QED BY ONLY <1>1, <1>5, <1>6, <1>7, <2>1, <2>2 DEF Typed
<1>9. ASSUME NEW q \in Planets
      PROVE  \/ changed'[q] = changed[q] /\ queues'[q] = queues[q]
             \/ /\ changed[q] < changed'[q]
                /\ queues[q] # <<>> /\ queues'[q] = Tail(queues[q])
  BY <1>5, <1>6
<1> QED BY <1>1, <1>3, <1>4, <1>6, <1>8, <1>9

(* A turn that ends leaves the client's errands as they are; the next      *)
(* errand is to hear of it.                                                *)
LEMMA EndTurnInv ==
  ASSUME IInv, EndTurn
  PROVE  IInv'
<1> PICK new : new = Msg("NewTurn")
  OBVIOUS
<1>1. /\ UNCHANGED <<paramsRead, patient, pageSize, objects, descs, stopped>>
      /\ Srv!Push(Msg("NewTurn"))
      /\ patient => Wire = <<>> /\ Arriving = <<>> /\ Waiting = <<>>
      /\ Typed'
      /\ \A q \in Planets :
           /\ changed[q] \in Nat /\ changed'[q] \in Nat /\ changed[q] <= changed'[q]
           /\ \/ changed'[q] = changed[q] /\ queues'[q] = queues[q]
              \/ /\ changed[q] < changed'[q]
                 /\ queues[q] # <<>> /\ queues'[q] = Tail(queues[q])
  BY EndTurnData
<1>2. new \in Replies /\ new.type = "NewTurn"
  <2>1. new \in Replies
    BY Says DEF PlainTypes
  <2> QED BY <2>1 DEF Msg
<1>3. Srv!IInv
  BY DEF IInv
<1>4. /\ Srv!IInv'
      /\ Wire' = Wire
      /\ Arriving' = Arriving \o <<new>>
      /\ Waiting' = Waiting
      /\ Passing' = Passing \cup {new}
      /\ UnderWay' = UnderWay \cup {new}
  BY <1>1, <1>3, PushEffect
<1>5. SmithCalled'
  BY <1>1, <1>2, <1>3, SmithPush DEF IInv
<1>6. ObjectsKept'
  <2>1. DOMAIN objects \subseteq Planets /\ \A q \in DOMAIN objects : ObjectOK(q)
    BY DEF IInv, ObjectsKept
  <2>2. ASSUME NEW q \in DOMAIN objects PROVE ObjectOK(q)'
    <3>1. objects[q].updated \in Nat /\ objects[q].updated <= changed[q]
      BY <2>1 DEF ObjectOK, ObjectType
    <3>2. objects[q].updated <= changed'[q]
      BY <1>1, <2>1, <3>1
    <3> QED BY <1>1, <2>1, <3>2 DEF ObjectOK
  <2> QED BY <1>1, <2>1, <2>2 DEF ObjectsKept
<1>7. Meant'
  <2>1. ASSUME NEW r \in ToSet(Wire') PROVE RequestMeant(r)'
    <3>1. RequestMeant(r)
      BY <1>4 DEF IInv, Meant
    <3> QED BY <1>1, <3>1 DEF RequestMeant
  <2>2. ASSUME NEW r \in Passing' PROVE ReplyMeant(r)'
    <3>1. CASE r = new
      BY <1>2, <3>1 DEF ReplyMeant, IsOrder, Announces
    <3>2. CASE r \in Passing
      <4>1. ReplyMeant(r) /\ r \in Replies
        <5>1. Arriving \in Seq(Replies) /\ Waiting \in Seq(Replies)
          BY <1>3, Queues
        <5>2. r \in Replies
          BY <3>2, <5>1, Contents DEF Passing
        <5> QED BY <3>2, <5>2 DEF IInv, Meant
      <4>2. ASSUME r.type = "Object" PROVE r.updated <= changed'[r.id]
        <5>1. r.updated \in Nat /\ r.id \in Planets /\ r.updated <= changed[r.id]
          BY <4>1, <4>2, SaidToClient DEF ReplyMeant
        <5> QED BY <1>1, <5>1
      <4> QED BY <1>1, <4>1, <4>2 DEF ReplyMeant
    <3> QED BY <1>4, <3>1, <3>2
  <2> QED BY <2>1, <2>2 DEF Meant
<1>8. NoneRead'
  <2>1. ~AboutOrders(new)
    BY <1>2 DEF AboutOrders
  <2>2. NoneRead
    BY DEF IInv
  <2> QED BY <1>1, <1>4, <2>1, <2>2 DEF NoneRead
<1>9. DescriptionsFirst'
  <2>1. (OnePage' <=> OnePage) /\ (AllDescribed' <=> AllDescribed)
    BY <1>1 DEF OnePage, AllDescribed, StrGet
  <2>2. OnePage => /\ stopped # "description" /\ AllDescribed
                   /\ \A t \in Types \ descs : DescribedFirst(t)
    BY DEF IInv, DescriptionsFirst
  <2>3. descs' = descs /\ stopped' = stopped
    BY <1>1
  <2>4. ASSUME OnePage, NEW t \in Types \ descs' PROVE DescribedFirst(t)'
    <3>1. DescribedFirst(t)
      BY <2>2, <2>3, <2>4
    <3> QED BY <1>1, <1>3, <3>1, PushDescribed
  <2> QED BY <2>1, <2>2, <2>3, <2>4 DEF DescriptionsFirst
<1>10. FewGiven'
  <2> SUFFICES ASSUME patient', NEW q \in Planets
               PROVE  Len(queues'[q]) <= 1 \/ Given(q)' = {}
    BY DEF FewGiven
  <2>1. patient /\ queues[q] \in Seq(ServerOrder)
    BY <1>1 DEF IInv, Typed
  <2>2. Len(queues[q]) <= 1 \/ Given(q) = {}
    BY <2>1 DEF IInv, FewGiven
  <2>3. CASE queues'[q] = queues[q]
    BY <2>2, <2>3 DEF Given
  <2>4. CASE queues[q] # <<>> /\ queues'[q] = Tail(queues[q])
    <3> PICK s : s = queues[q]
      OBVIOUS
    <3>1. s \in Seq(ServerOrder) /\ s # <<>>
      BY <2>1, <2>4
    <3>2. /\ Len(s) \in Nat /\ Len(Tail(s)) = Len(s) - 1
          /\ \A j \in 1..Len(Tail(s)) : Tail(s)[j] = s[j + 1]
      BY ONLY <3>1
    <3>3. queues'[q] = Tail(s)
      BY <2>4
    <3>4. ASSUME Len(s) <= 1 PROVE Len(Tail(s)) <= 1
      BY ONLY <3>2, <3>4
    <3>5. ASSUME {j \in 1..Len(s) : s[j].no > MaxOrders} = {}
          PROVE  {j \in 1..Len(Tail(s)) : Tail(s)[j].no > MaxOrders} = {}
      <4> SUFFICES ASSUME NEW j \in 1..Len(Tail(s)), Tail(s)[j].no > MaxOrders PROVE FALSE
        OBVIOUS
      <4>1. j + 1 \in 1..Len(s) /\ s[j + 1].no > MaxOrders
        BY ONLY <3>2, j \in 1..Len(Tail(s)), Tail(s)[j].no > MaxOrders
      <4> QED BY <3>5, <4>1
    <3> QED BY <2>2, <3>3, <3>4, <3>5 DEF Given
  <2> QED BY <1>1, <2>3, <2>4
<1>11. ASSUME Reading PROVE (OneErrand /\ AllTrue /\ Renewed /\ Filled /\ stopped # "slot")'
  <2>1. Wire = <<>> /\ Arriving = <<>> /\ Waiting = <<>>
    BY <1>1, <1>11 DEF Reading
  <2>2. ToSet(Wire) = {} /\ ToSet(Arriving) = {} /\ ToSet(Waiting) = {}
    BY <2>1, EmptyContents
  <2>3. UnderWay = {} /\ Passing = {}
    BY <2>2 DEF UnderWay, Passing
  <2>4. ToSet(Wire') = {} /\ Passing' = {new} /\ UnderWay' = {new}
    BY <1>4, <2>2, <2>3
  <2>5. Arriving' = <<new>> /\ Wire' = <<>> /\ Waiting' = <<>>
    <3>1. Arriving' = <<>> \o <<new>>
      BY <1>4, <2>1
    <3>2. <<>> \o <<new>> = <<new>>
      OBVIOUS
    <3> QED BY <1>4, <2>1, <3>1, <3>2
  <2>6. OneErrand'
    <3> SUFFICES ASSUME NEW p \in Planets PROVE Errands(p)' <= 1
      BY DEF OneErrand
    <3> PICK A, B, C : A = AskedOf(p) /\ B = AnsweredOf(p) /\ C = HeardOf(p)
      OBVIOUS
    <3>1. Errands(p)' = Count(Wire', A) + Count(Arriving', B) + Count(Waiting', C)
      BY DEF Errands, AskedOf, AnsweredOf, HeardOf, Probed, Count
    <3>2. Count(<<>>, A) = 0 /\ Count(<<>>, C) = 0
      BY NothingSent DEF Nothing
    <3>3. Count(<<new>>, B) = IF new \in B THEN 1 ELSE 0
      BY OneSent
    <3>4. Count(Wire', A) = 0 /\ Count(Waiting', C) = 0 /\ Count(Arriving', B) \in {0, 1}
      BY <2>5, <3>2, <3>3
    <3> QED BY ONLY <3>1, <3>4
  <2>7. AllTrue'
    <3>1. ReplyTrue(new)'
      BY <1>2 DEF ReplyTrue, IsOrder, Announces
    <3>2. \A p : new \notin Probed(p)
      BY <1>2 DEF Probed
    <3>3. ToSet(Arriving') = {new}
      BY <2>5, OneSent
    <3> QED BY <2>4, <3>1, <3>2, <3>3 DEF AllTrue, Probed
  <2>8. Renewed'
    <3>1. \A p : new \in Renews(p)
      BY <1>2 DEF Renews, Lists, Said
    <3>2. \A p : IsUnderWay(Renews(p))'
      <4> TAKE p
      <4>1. UnderWay' \cap Renews(p) # {}
        BY <2>4, <3>1
      <4> QED BY <4>1 DEF IsUnderWay, Renews, Lists
    <3> QED BY <3>2 DEF Renewed
  <2>9. Filled'
    <3> SUFFICES ASSUME NEW q \in DOMAIN objects', Fresh(q)'
                 PROVE  /\ objects'[q].norders = Len(queues'[q])
                        /\ \A s \in Slots(objects'[q].norders) : SlotFilled(q, s)'
      BY DEF Filled
    <3>1. q \in DOMAIN objects /\ q \in Planets /\ objects' = objects
      BY <1>1 DEF IInv, ObjectsKept
    <3>2. objects[q].updated \in Nat /\ objects[q].updated <= changed[q]
      BY <3>1 DEF IInv, ObjectsKept, ObjectOK, ObjectType
    <3>3. objects[q].updated = changed'[q]
      BY <3>1 DEF Fresh
    <3>4. changed'[q] = changed[q] /\ queues'[q] = queues[q]
      BY <1>1, <3>1, <3>2, <3>3
    <3>5. Fresh(q)
      BY <3>1, <3>3, <3>4 DEF Fresh
    <3>6. /\ objects[q].norders = Len(queues[q])
          /\ \A s \in Slots(objects[q].norders) : SlotFilled(q, s)
      BY <1>11, <3>1, <3>5 DEF IInv, Filled
    <3>7. ASSUME NEW s, SlotFilled(q, s) PROVE SlotFilled(q, s)'
      <4>1. ~IsUnderWay(Fills(q, s))
        BY <2>3 DEF IsUnderWay
      <4> QED BY <3>1, <3>4, <3>7, <4>1 DEF SlotFilled
    <3> QED BY <3>1, <3>4, <3>6, <3>7
  <2>10. stopped' # "slot"
    BY <1>1, <1>11 DEF IInv
  <2> QED BY <2>6, <2>7, <2>8, <2>9, <2>10
<1>12. Reading' <=> Reading
  BY <1>1 DEF Reading
<1> QED BY <1>1, <1>4, <1>5, <1>6, <1>7, <1>8, <1>9, <1>10, <1>11, <1>12 DEF IInv

LEMMA StutterInv ==
  ASSUME IInv, UNCHANGED vars
  PROVE  IInv'
<1>1. /\ UNCHANGED <<conncb, seq, cbs, toServer, fromServer, events, pushed>>
      /\ UNCHANGED <<paramsRead, patient, pageSize, objects, descs, stopped>>
      /\ UNCHANGED <<queues, changed, clock, serverTurn>>
  BY DEF vars, netVars, chosenVars, clientVars, peerVars
<1>2. Srv!IInv'
  <2>1. SP!IInv
    BY SameInvariant DEF IInv
  <2>2. UNCHANGED SP!serverVars
    BY <1>1 DEF SP!serverVars
  <2>3. SP!IInv'
    BY <2>1, <2>2, ServerAssumptions, SP!StepInv
  <2> QED BY <2>3, SameInvariantNext
<1>3. /\ Wire' = Wire /\ Arriving' = Arriving /\ Waiting' = Waiting
      /\ Passing' = Passing /\ UnderWay' = UnderWay
  BY <1>1 DEF Wire, Arriving, Waiting, Passing, UnderWay
<1>4. SameData
  BY <1>1 DEF SameData
<1>5. Typed' /\ ObjectsKept' /\ FewGiven' /\ (OnePage => stopped' # "description" /\ AllDescribed')
  BY <1>4, SameKept
<1>6. /\ Reading' <=> Reading
      /\ OnePage' <=> OnePage
      /\ \A r : /\ RequestMeant(r)' <=> RequestMeant(r)
                /\ ReplyMeant(r)' <=> ReplyMeant(r)
                /\ RequestTrue(r)' <=> RequestTrue(r)
                /\ ReplyTrue(r)' <=> ReplyTrue(r)
      /\ \A p : /\ Fresh(p)' <=> Fresh(p)
                /\ WithoutOrders(p)' <=> WithoutOrders(p)
  BY <1>4, SameThings
<1>7. SmithCalled'
  BY <1>1 DEF IInv, SmithCalled, SmithAsked, SmithAnswered, CallsSmith
<1>8. Meant'
  BY <1>3, <1>6 DEF IInv, Meant
<1>9. NoneRead'
  BY <1>1, <1>3 DEF IInv, NoneRead
<1>10. DescriptionsFirst'
  <2>1. ASSUME NEW X, NEW Y, Behind(X, Y) PROVE Behind(X, Y)'
    BY <1>3, <2>1 DEF Behind, Has
  <2>2. ASSUME NEW Y PROVE IsUnderWay(Y)' <=> IsUnderWay(Y)
    BY <1>3 DEF IsUnderWay
  <2>3. ASSUME NEW t, DescribedFirst(t) PROVE DescribedFirst(t)'
    <3>1. /\ Behind(OrderThings, Describing(t))
          /\ IsUnderWay(Describing(t)) \/ Behind(ObjectThings, Paging)
          /\ IsUnderWay(Describing(t)) \/ IsUnderWay(Paging) \/ ~IsUnderWay(ListThings)
      BY <2>3 DEF DescribedFirst
    <3>2. PICK X, Y, B, P, L : /\ X = OrderThings /\ Y = Describing(t) /\ B = ObjectThings
                               /\ P = Paging /\ L = ListThings
      OBVIOUS
    <3>3. Behind(X, Y)' /\ (Behind(B, P) => Behind(B, P)')
      BY <2>1, <3>1, <3>2
    <3>4. /\ IsUnderWay(Y)' <=> IsUnderWay(Y)
          /\ IsUnderWay(P)' <=> IsUnderWay(P)
          /\ IsUnderWay(L)' <=> IsUnderWay(L)
      BY <2>2
    <3>5. DescribedFirst(t)' <=>
            /\ Behind(X, Y)'
            /\ IsUnderWay(Y)' \/ Behind(B, P)'
            /\ IsUnderWay(Y)' \/ IsUnderWay(P)' \/ ~IsUnderWay(L)'
      BY <3>2 DEF DescribedFirst
    <3> QED BY <3>1, <3>2, <3>3, <3>4, <3>5
  <2>4. OnePage => \A t \in Types \ descs : DescribedFirst(t)
    BY DEF IInv, DescriptionsFirst
  <2>5. OnePage => \A t \in Types \ descs' : DescribedFirst(t)'
    BY <1>1, <2>3, <2>4
  <2> QED BY <1>5, <1>6, <2>5 DEF DescriptionsFirst
<1>11. ASSUME Reading PROVE (OneErrand /\ AllTrue /\ Renewed /\ Filled /\ stopped # "slot")'
  <2>1. OneErrand /\ AllTrue /\ Renewed /\ Filled /\ stopped # "slot"
    BY <1>11 DEF IInv
  <2>2. OneErrand'
    BY <1>3, <2>1 DEF OneErrand, Errands
  <2>3. AllTrue'
    BY <1>3, <1>6, <2>1 DEF AllTrue
  <2>4. ASSUME NEW p PROVE IsUnderWay(Renews(p))' <=> IsUnderWay(Renews(p))
    BY <1>3 DEF IsUnderWay, Renews
  <2>5. ASSUME NEW p, NEW s PROVE SlotFilled(p, s)' <=> SlotFilled(p, s)
    BY <1>1, <1>3 DEF SlotFilled, IsUnderWay, Fills
  <2>6. Renewed'
    BY <1>1, <1>6, <2>1, <2>4 DEF Renewed
  <2>7. Filled'
    BY <1>1, <1>6, <2>1, <2>5 DEF Filled
  <2> QED BY <1>1, <2>1, <2>2, <2>3, <2>6, <2>7
<1> QED BY <1>2, <1>5, <1>6, <1>7, <1>8, <1>9, <1>10, <1>11 DEF IInv

LEMMA InitServer == Init => Srv!IInv
<1> SUFFICES ASSUME Init PROVE Srv!IInv
  OBVIOUS
<1> PICK connected : connected = Msg("Connected")
  OBVIOUS
<1>1. /\ seq = 1 /\ conncb = FALSE /\ cbs = {} /\ pushed = 0
      /\ toServer = <<>> /\ fromServer = <<>> /\ events = <<Event(connected)>>
  BY DEF Init
<1>2. connected \in Replies
  BY Says DEF PlainTypes
<1>3. events \in Seq([seq : Nat, body : Replies])
  <2>1. Event(connected) \in [seq : Nat, body : Replies]
    BY <1>2 DEF Event
  <2> QED BY <1>1, <2>1
<1>4. Srv!TypeOK
  <2>1. \A S : Nothing \in Seq(S)
    BY NothingSent
  <2>2. toServer \in Seq([seq : 2..seq, body : RequestBodies]) /\ fromServer \in Seq(Srv!Frame)
    BY <1>1, <2>1 DEF Nothing
  <2>3. /\ conncb \in BOOLEAN /\ seq \in Nat \ {0} /\ pushed \in Nat
        /\ cbs \subseteq [seq : 2..seq, cb : {"smith"} \cup {"none"}]
    <3>1. seq = 1 /\ conncb = FALSE /\ cbs = {} /\ pushed = 0
      BY <1>1
    <3>2. \A S : {} \subseteq S
      OBVIOUS
    <3>3. cbs \subseteq [seq : 2..seq, cb : {"smith"} \cup {"none"}]
      BY <3>1, <3>2
    <3>4. seq \in Nat \ {0} /\ pushed \in Nat
      BY <3>1
    <3>5. conncb \in BOOLEAN
      BY <3>1, Zenon
    <3> QED BY ONLY <3>3, <3>4, <3>5
  <2> QED BY <1>3, <2>2, <2>3 DEF Srv!TypeOK
<1>5. Srv!Open = {} /\ Srv!Firsts = {} /\ Srv!FirstNumbers = {} /\ Srv!NumbersOf(toServer) = {}
  BY <1>1 DEF Srv!Open, Srv!Firsts, Srv!FirstNumbers, Srv!NumbersOf
<1>6. \A i \in 1..Len(events) : events[i].seq = 0
  BY <1>1 DEF Event
<1>7. Srv!TableMatchesWire /\ Srv!OneEntryPerNumber /\ Srv!EventAfterCallback
  BY <1>1, <1>5 DEF Srv!TableMatchesWire, Srv!OneEntryPerNumber, Srv!EventAfterCallback
<1>8. Srv!NumbersUsed /\ Srv!WireInOrder /\ Srv!RestBehindFirst
  BY <1>1, <1>5, <1>6 DEF Srv!NumbersUsed, Srv!WireInOrder, Srv!RestBehindFirst
<1> QED BY <1>4, <1>7, <1>8 DEF Srv!IInv

LEMMA InitInv == Init => IInv
<1> SUFFICES ASSUME Init PROVE IInv
  OBVIOUS
<1> PICK connected : connected = Msg("Connected")
  OBVIOUS
<1>1. /\ cbs = {} /\ toServer = <<>> /\ fromServer = <<>> /\ events = <<Event(connected)>>
      /\ paramsRead \in ParamsRead /\ patient \in Patience /\ pageSize \in PageSizes
      /\ objects = [p \in {} |-> NewObject]
      /\ descs = {} /\ stopped = "no" /\ clock = 1
      /\ changed = [p \in Planets |-> 1]
  BY DEF Init
<1>2. queues \in [Planets -> {[s \in 1..n |-> [no |-> s, type |-> BuildType]] : n \in 0..MaxOrders}]
  BY DEF Init
<1>3. connected \in Replies /\ connected.type = "Connected"
  <2>1. connected \in Replies
    BY Says DEF PlainTypes
  <2> QED BY <2>1 DEF Msg
<1>4. /\ Wire = <<>> /\ Arriving = <<>> /\ Waiting = <<connected>>
      /\ ToSet(Wire) = {} /\ ToSet(Arriving) = {} /\ ToSet(Waiting) = {connected}
      /\ Passing = {connected} /\ UnderWay = {connected}
  <2>1. Wire = <<>> /\ Arriving = <<>>
    BY <1>1 DEF Wire, Arriving, Bodies
  <2>2. Waiting = <<connected>>
    BY <1>1 DEF Waiting, Bodies, Event
  <2>3. ToSet(Wire) = {} /\ ToSet(Arriving) = {} /\ ToSet(Waiting) = {connected}
    BY <2>1, <2>2, EmptyContents, SingleContents
  <2> QED BY <2>1, <2>2, <2>3 DEF Passing, UnderWay
<1>5. DOMAIN objects = {}
  BY <1>1
<1>6. ASSUME NEW p \in Planets
      PROVE  /\ queues[p] \in Seq(ServerOrder)
             /\ Given(p) = {}
  <2>1. PICK n \in 0..MaxOrders : queues[p] = [s \in 1..n |-> [no |-> s, type |-> BuildType]]
    BY <1>2
  <2>2. n \in Nat /\ n <= MaxOrders /\ MaxOrders \in Nat
    BY BoundAssumption
  <2> PICK queue : queue = queues[p]
    OBVIOUS
  <2>3. /\ queue = [s \in 1..n |-> queue[s]]
        /\ \A s \in 1..n : queue[s] = [no |-> s, type |-> BuildType]
    BY <2>1
  <2>4. \A s \in 1..n : queue[s] \in ServerOrder /\ queue[s].no = s
    <3>1. ASSUME NEW s \in 1..n
          PROVE  [no |-> s, type |-> BuildType] \in ServerOrder
      <4>1. s \in Nat /\ BuildType \in Types
        BY <2>2, TypesAssumption
      <4> QED BY ONLY <4>1 DEF ServerOrder
    <3>2. \A s \in 1..n : [no |-> s, type |-> BuildType].no = s
      OBVIOUS
    <3> QED BY <2>3, <3>1, <3>2
  <2>5. queue \in Seq(ServerOrder) /\ Len(queue) = n
    BY <2>2, <2>3, <2>4, FunctionIsSequence
  <2>6. \A s \in 1..n : ~(queue[s].no > MaxOrders)
    BY <2>2, <2>4
  <2> QED BY <2>5, <2>6 DEF Given
<1>7. Typed
  <2>1. paramsRead \in BOOLEAN /\ patient \in BOOLEAN
    BY <1>1, FlagsAssumption
  <2>2. pageSize \in Nat \ {0}
    BY <1>1, BoundAssumption
  <2>3. stopped \in {"no", "slot", "description"} /\ clock \in Nat
    BY <1>1
  <2>4. /\ changed \in [Planets -> Nat]
        /\ \A p \in Planets : changed[p] \in 0..clock
    BY <1>1
  <2>5. DOMAIN queues = Planets
    BY <1>2
  <2> QED BY ONLY <1>6, <2>1, <2>2, <2>3, <2>4, <2>5 DEF Typed
<1>8. ObjectsKept
  BY <1>5 DEF ObjectsKept
<1>9. SmithCalled
  BY <1>1 DEF SmithCalled, SmithAsked, SmithAnswered, CallsSmith
<1>10. Meant
  BY <1>3, <1>4 DEF Meant, ReplyMeant, IsOrder, Announces
<1>11. NoneRead
  BY <1>1, <1>3, <1>4, <1>5 DEF NoneRead, AboutOrders
<1>12. DescriptionsFirst
  <2>1. connected \notin OrderThings \cup ObjectThings \cup ListThings
    BY <1>3 DEF OrderThings, ObjectThings, ListThings, IsOrder, Announces
  <2>2. ASSUME NEW X, NEW Y, connected \notin X PROVE Behind(X, Y)
    <3>1. Guarded(<<>>, X, Y)
      BY NothingSent DEF Nothing
    <3>2. \A r \in ToSet(Waiting) : r \notin X
      BY <1>4, <2>2
    <3>3. Waiting \in Seq(Replies)
      BY <1>3, <1>4, OneSent
    <3>4. Guarded(Waiting, X, Y)
      BY <3>2, <3>3, GuardedWithout
    <3> QED BY <1>4, <3>1, <3>4 DEF Behind
  <2>3. ~IsUnderWay(ListThings)
    BY <1>4, <2>1 DEF IsUnderWay
  <2>4. \A t : DescribedFirst(t)
    BY <2>1, <2>2, <2>3 DEF DescribedFirst
  <2> QED BY <1>1, <1>5, <2>4 DEF DescriptionsFirst, AllDescribed
<1>13. OneErrand /\ AllTrue /\ Renewed /\ Filled /\ stopped # "slot"
  <2>1. OneErrand
    <3> SUFFICES ASSUME NEW p \in Planets PROVE Errands(p) <= 1
      BY DEF OneErrand
    <3> PICK A, B, C : A = AskedOf(p) /\ B = AnsweredOf(p) /\ C = HeardOf(p)
      OBVIOUS
    <3>1. Errands(p) = Count(Wire, A) + Count(Arriving, B) + Count(Waiting, C)
      BY DEF Errands
    <3>2. Count(<<>>, A) = 0 /\ Count(<<>>, B) = 0
      BY NothingSent DEF Nothing
    <3>3. Count(<<connected>>, C) = IF connected \in C THEN 1 ELSE 0
      BY OneSent
    <3>4. Count(Wire, A) = 0 /\ Count(Arriving, B) = 0 /\ Count(Waiting, C) \in {0, 1}
      BY <1>4, <3>2, <3>3
    <3> QED BY ONLY <3>1, <3>4
  <2>2. AllTrue
    BY <1>3, <1>4 DEF AllTrue, ReplyTrue, IsOrder, Announces
  <2>3. Renewed /\ Filled
    BY <1>5 DEF Renewed, Filled
  <2> QED BY <1>1, <2>1, <2>2, <2>3
<1>14. FewGiven
  BY <1>6 DEF FewGiven
<1> QED BY <1>7, <1>8, <1>9, <1>10, <1>11, <1>12, <1>13, <1>14, InitServer DEF IInv

LEMMA StepInv == IInv /\ [Next]_vars => IInv'
<1> SUFFICES ASSUME IInv, [Next]_vars PROVE IInv'
  OBVIOUS
<1>1. CASE Frame
  BY <1>1, FrameInv
<1>2. CASE HandleAnyEvent
  <2>1. CASE Start
    BY <2>1, StartInv
  <2>2. CASE ObjectIds
    BY <2>2, ObjectIdsInv
  <2>3. CASE DescIds
    BY <2>3, DescIdsInv
  <2>4. CASE DescReceive
    BY <2>4, DescReceiveInv
  <2>5. CASE DataReceive
    BY <2>5, DataReceiveInv
  <2>6. CASE ObjectUpdate
    BY <2>6, ObjectUpdateInv
  <2>7. CASE OrderReceive
    BY <2>7, OrderReceiveInv
  <2>8. CASE SmithOrderPlanet
    BY <2>8, SmithOrderPlanetInv
  <2>9. CASE Fail
    BY <2>9, FailInv
  <2> QED BY <1>2, <2>1, <2>2, <2>3, <2>4, <2>5, <2>6, <2>7, <2>8, <2>9 DEF HandleAnyEvent
<1>3. CASE Answer
  BY <1>3, AnswerInv
<1>4. CASE EndTurn
  BY <1>4, EndTurnInv
<1>5. CASE UNCHANGED vars
  BY <1>5, StutterInv
<1> QED BY <1>1, <1>2, <1>3, <1>4, <1>5 DEF Next

(* The invariant holds of every planet's orders, however many planets,     *)
(* types and orders there are and in whatever pages and portions they are  *)
(* asked for.                                                              *)
THEOREM InductiveInvariant == Spec => []IInv
BY InitInv, StepInv, PTL DEF Spec

-----------------------------------------------------------------------------
(* The properties                                                          *)

(* A planet that has an order given to it had none, and no other is on its *)
(* way; so has one whose order is on its way.                              *)
LEMMA OrderUnderWay ==
  ASSUME IInv, patient, NEW p \in Planets,
         NEW i \in 1..Len(Wire), Wire[i].type \in {"ProbeOrder", "InsertOrder"}, Wire[i].id = p
  PROVE  queues[p] = <<>> /\ Count(Wire, AskedOf(p)) <= 1
<1>1. Wire \in Seq(RequestBodies) /\ Arriving \in Seq(Replies) /\ Waiting \in Seq(Replies)
  BY Queues DEF IInv
<1>2. Wire[i] \in ToSet(Wire) /\ Wire[i] \in UnderWay
  BY <1>1, Contents DEF UnderWay
<1>3. Reading
  BY <1>2 DEF IInv, NoneRead, AboutOrders, Reading
<1>4. WithoutOrders(p)
  BY <1>2, <1>3 DEF IInv, AllTrue, RequestTrue
<1>5. Count(Wire, AskedOf(p)) <= 1
  <2>1. Errands(p) <= 1
    BY <1>3 DEF IInv, OneErrand
  <2>2. PICK a \in Nat, b \in Nat, c \in Nat :
          /\ a = Count(Wire, AskedOf(p)) /\ b = Count(Arriving, AnsweredOf(p))
          /\ c = Count(Waiting, HeardOf(p))
    BY <1>1, PlacesFinite DEF Count
  <2>3. a + b + c <= 1
    BY <2>1, <2>2 DEF Errands
  <2>4. a <= 1
    BY ONLY <2>2, <2>3
  <2> QED BY <2>2, <2>4
<1> QED BY <1>4, <1>5 DEF WithoutOrders

(* No planet is given more than one order while turns end only in quiet    *)
(* moments, however many frames, events and turns lie between the probe,   *)
(* its answer and the order: smith_order_planet() is told of a planet      *)
(* without orders once, and not again before its order has been carried    *)
(* out.                                                                    *)
THEOREM AlwaysOneOrderAtATime == Spec => []OneOrderAtATime
<1>1. IInv => OneOrderAtATime
  <2> SUFFICES ASSUME IInv, patient, NEW p \in Planets
               PROVE  Cardinality({i \in 1..Len(toServer) :
                                     toServer[i].body.type \in {"ProbeOrder", "InsertOrder"}
                                       /\ toServer[i].body.id = p})
                        + Cardinality({j \in 1..Len(queues[p]) : queues[p][j].no > MaxOrders}) <= 1
    BY DEF OneOrderAtATime
  <2> DEFINE asked == {i \in 1..Len(toServer) :
                         toServer[i].body.type \in {"ProbeOrder", "InsertOrder"}
                           /\ toServer[i].body.id = p}
  <2>1. /\ Wire \in Seq(RequestBodies) /\ Len(Wire) = Len(toServer)
        /\ \A i \in 1..Len(toServer) : Wire[i] = toServer[i].body
    <3>1. Wire \in Seq(RequestBodies) /\ toServer \in Seq([seq : Nat, body : RequestBodies])
      BY Queues DEF IInv
    <3>2. Wire = [i \in 1..Len(toServer) |-> toServer[i].body] /\ Len(toServer) \in Nat
      BY <3>1 DEF Wire, Bodies
    <3> QED BY <3>1, <3>2
  <2>2. asked \subseteq Places(Wire, AskedOf(p))
    <3> SUFFICES ASSUME NEW i \in asked PROVE i \in Places(Wire, AskedOf(p))
      OBVIOUS
    <3>1. /\ i \in 1..Len(Wire) /\ Wire[i] \in RequestBodies
          /\ Wire[i].type \in {"ProbeOrder", "InsertOrder"} /\ Wire[i].id = p
      BY <2>1
    <3> QED BY <3>1 DEF Places, AskedOf
  <2>3. /\ IsFiniteSet(asked) /\ Cardinality(asked) \in Nat
        /\ asked = {} => Cardinality(asked) = 0
        /\ asked # {} => Cardinality(asked) <= 1 /\ queues[p] = <<>>
    <3>1. /\ IsFiniteSet(Places(Wire, AskedOf(p)))
          /\ Count(Wire, AskedOf(p)) = Cardinality(Places(Wire, AskedOf(p)))
      BY <2>1, PlacesFinite DEF Count
    <3>2. /\ IsFiniteSet(asked) /\ Cardinality(asked) \in Nat
          /\ Cardinality(asked) <= Count(Wire, AskedOf(p))
          /\ Count(Wire, AskedOf(p)) \in Nat
      BY <2>2, <3>1, FS_Subset, FS_CardinalityType
    <3>3. ASSUME asked # {} PROVE Count(Wire, AskedOf(p)) <= 1 /\ queues[p] = <<>>
      <4>1. PICK i \in asked : TRUE
        BY <3>3
      <4>2. /\ i \in 1..Len(Wire)
            /\ Wire[i].type \in {"ProbeOrder", "InsertOrder"} /\ Wire[i].id = p
        BY <2>1, <4>1
      <4> QED BY <4>2, OrderUnderWay
    <3>4. asked = {} => Cardinality(asked) = 0
      BY FS_EmptySet
    <3> QED BY <3>2, <3>3, <3>4
  <2>4. /\ Cardinality(Given(p)) \in Nat /\ Cardinality(Given(p)) <= 1
        /\ queues[p] = <<>> => Cardinality(Given(p)) = 0
    <3>1. queues[p] \in Seq(ServerOrder)
      BY DEF IInv, Typed
    <3>2. Len(queues[p]) <= 1 \/ Given(p) = {}
      BY DEF IInv, FewGiven
    <3>3. Len(queues[p]) \in Nat /\ Given(p) \subseteq 1..Len(queues[p])
      BY <3>1 DEF Given
    <3>4. Given(p) = {} \/ Given(p) = {1}
      BY <3>2, <3>3
    <3>5. queues[p] = <<>> => Given(p) = {}
      BY DEF Given
    <3>6. Cardinality(Given(p)) \in {0, 1} /\ (Given(p) = {} => Cardinality(Given(p)) = 0)
      <4>1. Cardinality({}) = 0 /\ Cardinality({1}) = 1
        BY FS_EmptySet, FS_Singleton
      <4> QED BY ONLY <3>4, <4>1
    <3> QED BY ONLY <3>5, <3>6
  <2> HIDE DEF asked
  <2>5. Cardinality(asked) + Cardinality(Given(p)) <= 1
    BY <2>3, <2>4
  <2> QED BY <2>5 DEF asked, Given
<1> QED BY <1>1, InductiveInvariant, PTL

(* tpe_orders_msg_order() finds the slot of an order unless a turn could   *)
(* end with orders under way, and tpe_orders_str_get() its description     *)
(* unless descriptions come in several pages; and as long as the           *)
(* parameters of objects are not read the program does not get that far.   *)
THEOREM OrdersAlwaysFindTheirPlace == Spec => []OrdersFindTheirPlace
<1>1. IInv => OrdersFindTheirPlace
  <2> SUFFICES ASSUME IInv PROVE OrdersFindTheirPlace
    OBVIOUS
  <2>1. ~paramsRead => stopped = "no"
    BY DEF IInv, NoneRead
  <2>2. stopped = "slot" => ~patient
    BY <2>1 DEF IInv, Reading
  <2>3. stopped = "description" => pageSize < Cardinality(Types)
    <3>1. pageSize \in Nat /\ Cardinality(Types) \in Nat
      BY TypesAssumption, FS_CardinalityType DEF IInv, Typed
    <3>2. stopped = "description" => ~(pageSize >= Cardinality(Types))
      BY DEF IInv, DescriptionsFirst, OnePage
    <3> QED BY <3>1, <3>2
  <2> QED BY <2>1, <2>2, <2>3 DEF OrdersFindTheirPlace
<1> QED BY <1>1, InductiveInvariant, PTL

(* When all is quiet, and turns have ended only in quiet moments, the      *)
(* slots of every object hold the orders the planet has, but for the last  *)
(* portion of a multiple of Portion, which tpe_orders_object_update() never*)
(* asks for.                                                               *)
THEOREM OrdersAlwaysShown == Spec => []OrdersShown
<1>1. IInv => OrdersShown
  <2> SUFFICES ASSUME IInv, patient, paramsRead, Quiet,
                      NEW p \in DOMAIN objects, NEW s \in DOMAIN objects[p].orders
               PROVE  IF s \in Unasked(objects[p].norders) THEN objects[p].orders[s] = NoOrder
                      ELSE objects[p].orders[s] = queues[p][s + 1]
    BY DEF OrdersShown
  <2>1. Renewed /\ Filled /\ DOMAIN objects[p].orders = Slots(objects[p].norders)
    BY DEF IInv, Reading, ObjectsKept, ObjectOK
  <2>2. \A Y : ~IsUnderWay(Y)
    <3>1. Wire = <<>> /\ Arriving = <<>> /\ Waiting = <<>>
      BY Queues DEF Quiet, IInv
    <3> QED BY <3>1, EmptyContents DEF IsUnderWay, UnderWay, Passing
  <2>3. objects[p].norders # 0
    <3>1. Slots(0) = {}
      BY DEF Slots
    <3> QED BY <2>1, <3>1
  <2>4. Fresh(p)
    BY <2>1, <2>2, <2>3 DEF Renewed
  <2>5. SlotFilled(p, s)
    BY <2>1, <2>4 DEF Filled
  <2> QED BY <2>2, <2>5 DEF SlotFilled
<1> QED BY <1>1, InductiveInvariant, PTL
=============================================================================
