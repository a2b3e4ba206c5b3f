------------------------------- MODULE Orders -------------------------------
(***************************************************************************)
(* The orders on the player's planets: the objects of objects.c with their *)
(* order slots, the orders of tpe_orders.c with the descriptions they are  *)
(* read by, and what the computer player of ai_smith.c does to a planet    *)
(* without orders.  The module runs on Server.                             *)
(*                                                                         *)
(* How many orders an object has, and whether it can have any, stands in   *)
(* parameters of MsgObject that object_param.c describes and no code reads *)
(* yet.  paramsRead says whether they are taken to be read; it is FALSE    *)
(* for the code as it is, and everything here that begins with a number of *)
(* orders can only be checked when it is TRUE.  The computer player is not *)
(* built by the Makefile, and it is what gives orders.                     *)
(*                                                                         *)
(* Lists of objects come in one page and lists of order descriptions in    *)
(* one or more; Sequence models pages in general.                          *)
(***************************************************************************)
EXTENDS Integers, Sequences, SequencesExt, FiniteSets, Lists

CONSTANTS
  ParamsRead,       \* whether the parameters of objects may be read
  Planets,          \* ids of the planets
  Types,            \* types of orders
  BuildType,        \* the type BuildFleet
  PageSizes,        \* order descriptions in a page
  Portion,          \* orders asked for in one request: 100 in the code
  Patience,         \* whether the server may let a turn end only in a quiet moment
  MaxOrders,        \* bound: orders on a planet at the start
  MaxTurns          \* bound: turns that end

ASSUME FlagsAssumption == ParamsRead \subseteq BOOLEAN /\ Patience \subseteq BOOLEAN
ASSUME TypesAssumption ==
  /\ Types \subseteq Nat /\ IsFiniteSet(Types) /\ BuildType \in Types
  /\ Planets \subseteq Nat /\ IsFiniteSet(Planets)
ASSUME BoundAssumption ==
  {MaxOrders, MaxTurns} \subseteq Nat /\ PageSizes \cup {Portion} \subseteq Nat \ {0}

VARIABLES
  conncb, seq, cbs, toServer, fromServer, events, pushed,   \* as in Server
  paramsRead, patient, pageSize,   \* chosen at the start
  objects,          \* tpe->obj->objhash
  descs,            \* types in tpe->orders->ordertypes
  stopped,          \* how the program ended: "no", "slot" or "description"
  queues,           \* queues[p]: the orders on p at the server
  changed,          \* changed[p]: when p or its orders last changed
  clock,            \* the server's clock
  serverTurn        \* the server's turn

netVars == <<conncb, seq, cbs, toServer, fromServer, events, pushed>>
chosenVars == <<paramsRead, patient, pageSize>>
clientVars == <<objects, descs, stopped>>
peerVars == <<queues, changed, clock, serverTurn>>
vars == <<netVars, chosenVars, clientVars, peerVars>>

NoOrder == [no |-> 0, type |-> 0]
Slots(n) == 0..(n - 1)
NewObject == [updated |-> 0, norders |-> 0, orders |-> [s \in {} |-> NoOrder]]

(* Requests, frames and events.                                            *)
Msg(type) == [type |-> type]
GetObjects(ids) == [type |-> "GetObjects", ids |-> ids]
GetDescs(ids) == [type |-> "GetDescs", ids |-> ids]
GetDescPage(pos) == [type |-> "GetDescPage", pos |-> pos]
GetOrder(id, slots) == [type |-> "GetOrder", id |-> id, slots |-> slots]
ProbeOrder(id, type) == [type |-> "ProbeOrder", id |-> id, order |-> type]
InsertOrder(id, type) == [type |-> "InsertOrder", id |-> id, order |-> type]
ListOfObjects(updated) == [type |-> "ListOfObjects", updated |-> updated]
ListOfDescs(ids, next) == [type |-> "ListOfDescs", ids |-> ids, next |-> next]
Desc(id) == [type |-> "Desc", id |-> id]
Object(id, norders, updated) ==
  [type |-> "Object", id |-> id, norders |-> norders, updated |-> updated]
Order(id, slot, order) == [type |-> "Order", id |-> id, slot |-> slot, order |-> order]
AboutObject(type, id) == [type |-> type, id |-> id]

Ask(body) == [body |-> body, cb |-> "none"]
AskCalling(body, cb) == [body |-> body, cb |-> cb]
Event(body) == [seq |-> 0, body |-> body]

RequestBodies ==
  {Msg("GetObjectIDs")}
    \cup [type : {"GetObjects", "GetDescs"}, ids : Seq(Nat)]
    \cup [type : {"GetDescPage"}, pos : Nat]
    \cup [type : {"GetOrder"}, id : Planets, slots : Seq(Nat)]
    \cup [type : {"ProbeOrder", "InsertOrder"}, id : Planets, order : Types]
Unheard == {Msg("SEQUENCE"), Msg("OK")}
Replies ==
  Unheard \cup {Msg("Connected"), Msg("NewTurn"), Msg("Fail")}
    \cup [type : {"ListOfObjects"}, updated : [Planets -> Nat]]
    \cup [type : {"ListOfDescs"}, ids : Seq(Types), next : Nat]
    \cup [type : {"Desc"}, id : Types]
    \cup [type : {"Object"}, id : Planets, norders : Nat, updated : Nat]
    \cup [type : {"Order"}, id : Planets, slot : Int, order : [no : Nat, type : Types]]
    \cup [type : {"ObjectNew", "ObjectChanged", "PlanetNoOrders"}, id : Planets]

Srv == INSTANCE Server
         WITH Body <- RequestBodies, Reply <- Replies, Callback <- {"smith"},
              NoCallback <- "none", Heard <- Replies \ Unheard,
              MaxSeq <- 1, MaxSends <- 0, MaxReply <- 0, MaxPush <- MaxTurns

Init ==
  /\ conncb = FALSE
  /\ seq = 1
  /\ cbs = {}
  /\ toServer = <<>>
  /\ fromServer = <<>>
  /\ events = <<Event(Msg("Connected"))>>
  /\ pushed = 0
  /\ paramsRead \in ParamsRead
  /\ patient \in Patience
  /\ pageSize \in PageSizes
  /\ objects = [p \in {} |-> NewObject]
  /\ descs = {}
  /\ stopped = "no"
  /\ queues \in [Planets -> {[s \in 1..n |-> [no |-> s, type |-> BuildType]] : n \in 0..MaxOrders}]
  /\ changed = [p \in Planets |-> 1]
  /\ clock = 1
  /\ serverTurn = 1

-----------------------------------------------------------------------------
(* Client                                                                  *)

Arrives(type) ==
  /\ stopped = "no"
  /\ events # <<>>
  /\ Head(events).body.type = type

Content == Head(events).body

(* What smith_order_insert_cb() may send: a fleet is built after what was  *)
(* probed, unless the probe failed or offers no frigate.                   *)
SmithInserts(frame) ==
  {<<>>} \cup (IF "smith" \in Srv!Called(frame) /\ frame.body.type = "Order"
              THEN {<<Ask(InsertOrder(frame.body.id, BuildType))>>} ELSE {})

Frame ==
  /\ stopped = "no"
  /\ fromServer # <<>>
  /\ \E sent \in SmithInserts(Head(fromServer)) : Srv!HandlePacket(sent, <<>>)
  /\ UNCHANGED <<chosenVars, clientVars, peerVars>>

(* tpe_sequence_start(), as main() registers the sequences. *)
Start ==
  /\ Arrives("Connected") \/ Arrives("NewTurn")
  /\ Srv!HandleEvent(<<Ask(Msg("GetObjectIDs")), Ask(GetDescPage(0))>>, <<>>)
  /\ UNCHANGED <<chosenVars, clientVars, peerVars>>

GetIf(ids, get) == IF ids = <<>> THEN <<>> ELSE <<Ask(get)>>

(* tpe_sequence_handle_oids() with tpe_obj_object_updated() *)
ObjectIds ==
  /\ Arrives("ListOfObjects")
  /\ LET known(p) == IF p \in DOMAIN objects THEN objects[p].updated ELSE 0
         new == Ascending({p \in Planets : known(p) < Content.updated[p]})
     IN  Srv!HandleEvent(GetIf(new, GetObjects(new)), <<>>)
  /\ UNCHANGED <<chosenVars, clientVars, peerVars>>

(* tpe_sequence_handle_oids() with tpe_orders_order_desc_updated() *)
DescIds ==
  /\ Arrives("ListOfDescs")
  /\ LET new == Selected(Content.ids, Types \ descs)
     IN  Srv!HandleEvent(GetIf(new, GetDescs(new))
                           \o (IF Content.next > 0 THEN <<Ask(GetDescPage(Content.next))>> ELSE <<>>),
                         <<>>)
  /\ UNCHANGED <<chosenVars, clientVars, peerVars>>

(* tpe_orders_msg_order_description() *)
DescReceive ==
  /\ Arrives("Desc")
  /\ Srv!HandleEvent(<<>>, <<>>)
  /\ descs' = descs \cup {Content.id}
  /\ UNCHANGED <<chosenVars, objects, stopped, peerVars>>

(* Mutant: the slots are as many as before. *)
WithSlotsOld(object, norders, updated) ==
  [object EXCEPT !.updated = updated, !.norders = norders,
                 !.orders = [s \in Slots(object.norders) |-> NoOrder]]

(* An object with empty slots for its orders.                              *)
WithSlots(object, norders, updated) ==
  [object EXCEPT !.updated = updated, !.norders = norders,
                 !.orders = [s \in Slots(norders) |-> NoOrder]]

(* Mutant: one order left is taken for none. *)
FewOrders(norders) == norders <= 1

NoOrders(norders) == norders = 0

(* tpe_obj_data_receive(): the orders of the object are dropped, and it is *)
(* announced.                                                              *)
DataReceive ==
  /\ Arrives("Object")
  /\ LET id == Content.id
         isnew == id \notin DOMAIN objects
         norders == IF paramsRead THEN Content.norders ELSE 0
     IN  /\ objects' = [p \in DOMAIN objects \cup {id} |->
                          IF p # id THEN objects[p]
                          ELSE WithSlots(IF isnew THEN NewObject ELSE objects[id],
                                         norders, Content.updated)]
         /\ Srv!HandleEvent(<<>>,
              <<Event(AboutObject(IF isnew THEN "ObjectNew" ELSE "ObjectChanged", id))>>
                \o (IF paramsRead /\ NoOrders(norders)
                    THEN <<Event(AboutObject("PlanetNoOrders", id))>> ELSE <<>>))
  /\ UNCHANGED <<chosenVars, descs, stopped, peerVars>>

(* Mutant: a portion begins where the one before it does. *)
PortionsAgain(n) ==
  LET fragments == (n + Portion - 1) \div Portion
  IN  [f \in 1..fragments |->
         [i \in 1..(IF f = fragments THEN n % Portion ELSE Portion) |-> i - 1]]

(* The portions in which the slots of n orders are asked for: the last has *)
(* n % Portion of them.                                                    *)
Portions(n) ==
  LET fragments == (n + Portion - 1) \div Portion
  IN  [f \in 1..fragments |->
         [i \in 1..(IF f = fragments THEN n % Portion ELSE Portion) |-> i - 1 + (f - 1) * Portion]]

(* tpe_orders_object_update(): the object is looked at as it is by now.    *)
ObjectUpdate ==
  /\ Arrives("ObjectNew") \/ Arrives("ObjectChanged")
  /\ LET portions == Portions(objects[Content.id].norders)
     IN  Srv!HandleEvent([f \in 1..Len(portions) |-> Ask(GetOrder(Content.id, portions[f]))], <<>>)
  /\ UNCHANGED <<chosenVars, clientVars, peerVars>>

(* Mutant: an order is kept in the slot after its own. *)
SlotAfter(slot) == slot + 1

(* The slot an order is kept in: the server counts from 0 too.             *)
SlotOf(slot) == slot

(* tpe_orders_str_get(): the orders of an object that are there are written*)
(* out by their descriptions, which must be there.                         *)
StrGet(orders) ==
  {orders[s].type : s \in {t \in DOMAIN orders : orders[t] # NoOrder}} \subseteq descs

(* tpe_orders_msg_order(): the answer to a probe is dropped; another order *)
(* goes to its slot, which must be there, and the orders of the object are *)
(* printed.                                                                *)
OrderReceive ==
  /\ Arrives("Order")
  /\ LET object == objects[Content.id]
         slot == SlotOf(Content.slot)
         orders == [object.orders EXCEPT ![slot] = Content.order]
     IN  IF Content.slot = -1
         THEN UNCHANGED <<objects, stopped>>
         ELSE IF slot \notin DOMAIN object.orders
         THEN stopped' = "slot" /\ UNCHANGED objects
         ELSE /\ objects' = [objects EXCEPT ![Content.id].orders = orders]
              /\ stopped' = IF StrGet(orders) THEN "no" ELSE "description"
  /\ Srv!HandleEvent(<<>>, <<>>)
  /\ UNCHANGED <<chosenVars, descs, peerVars>>

(* smith_order_planet() *)
SmithOrderPlanet ==
  /\ Arrives("PlanetNoOrders")
  /\ Srv!HandleEvent(<<AskCalling(ProbeOrder(Content.id, BuildType), "smith")>>, <<>>)
  /\ UNCHANGED <<chosenVars, clientVars, peerVars>>

(* tpe_comm_msg_fail() *)
Fail ==
  /\ Arrives("Fail")
  /\ Srv!HandleEvent(<<>>, <<>>)
  /\ UNCHANGED <<chosenVars, clientVars, peerVars>>

HandleAnyEvent ==
  \/ Start
  \/ ObjectIds
  \/ DescIds
  \/ DescReceive
  \/ DataReceive
  \/ ObjectUpdate
  \/ OrderReceive
  \/ SmithOrderPlanet
  \/ Fail

-----------------------------------------------------------------------------
(* Game server                                                             *)

Asked(type) ==
  /\ toServer # <<>>
  /\ Head(toServer).body.type = type

Question == Head(toServer).body

Grouped(answer) == IF Len(answer) = 1 THEN answer ELSE <<Msg("SEQUENCE")>> \o answer

AllDescs == Ascending(Types)

AnswerLists ==
  \/ /\ Asked("GetObjectIDs")
     /\ Srv!Answer(<<ListOfObjects(changed)>>)
  \/ /\ Asked("GetDescPage")
     /\ LET end == Min({Question.pos + pageSize, Len(AllDescs)})
        IN  Srv!Answer(<<ListOfDescs(SubSeq(AllDescs, Question.pos + 1, end),
                                     IF end < Len(AllDescs) THEN end ELSE 0)>>)

AnswerGets ==
  \/ /\ Asked("GetObjects")
     /\ LET ids == Question.ids
        IN  Srv!Answer(Grouped([i \in 1..Len(ids) |->
              Object(ids[i], Len(queues[ids[i]]), changed[ids[i]])]))
  \/ /\ Asked("GetDescs")
     /\ Srv!Answer(Grouped([i \in 1..Len(Question.ids) |-> Desc(Question.ids[i])]))
  \/ /\ Asked("GetOrder")
     /\ LET slots == Question.slots
            queue == queues[Question.id]
        IN  Srv!Answer(Grouped([i \in 1..Len(slots) |->
              IF slots[i] + 1 \in DOMAIN queue
              THEN Order(Question.id, slots[i], queue[slots[i] + 1])
              ELSE Msg("Fail")]))

AnswerProbe ==
  /\ Asked("ProbeOrder")
  /\ \/ Srv!Answer(<<Order(Question.id, -1, [no |-> 0, type |-> Question.order])>>)
     \/ Srv!Answer(<<Msg("Fail")>>)

AnswerInsert ==
  /\ Asked("InsertOrder")
  /\ clock' = clock + 1
  /\ queues' = [queues EXCEPT ![Question.id] = Append(@, [no |-> 10 + clock, type |-> Question.order])]
  /\ changed' = [changed EXCEPT ![Question.id] = clock']
  /\ Srv!Answer(<<Msg("OK")>>)

Answer ==
  /\ \/ (AnswerLists \/ AnswerGets \/ AnswerProbe) /\ UNCHANGED <<queues, changed, clock>>
     \/ AnswerInsert
  /\ UNCHANGED <<chosenVars, clientVars, serverTurn>>

Quiet == toServer = <<>> /\ fromServer = <<>> /\ events = <<>>

(* A turn ends: the first orders of some planets have been carried out.    *)
EndTurn ==
  /\ serverTurn <= MaxTurns
  /\ patient => Quiet
  /\ serverTurn' = serverTurn + 1
  /\ clock' = clock + 1
  /\ \E ready \in SUBSET {p \in Planets : queues[p] # <<>>} :
       /\ queues' = [p \in Planets |-> IF p \in ready THEN Tail(queues[p]) ELSE queues[p]]
       /\ changed' = [p \in Planets |-> IF p \in ready THEN clock' ELSE changed[p]]
  /\ Srv!Push(Msg("NewTurn"))
  /\ UNCHANGED <<chosenVars, clientVars>>

Next == Frame \/ HandleAnyEvent \/ Answer \/ EndTurn

Spec == Init /\ [][Next]_vars

-----------------------------------------------------------------------------

(* When nothing is under way and no turn ended in between, the slots of an *)
(* object hold the orders it had when it was fetched.  Of a multiple of    *)
(* Portion the last portion is never asked for, so that those slots stay   *)
(* empty for good.                                                         *)
Unasked(n) == IF n % Portion = 0 THEN (n - Portion)..(n - 1) ELSE {}

OrdersShown ==
  patient /\ paramsRead /\ Quiet /\ stopped = "no" =>
    \A p \in DOMAIN objects : \A s \in DOMAIN objects[p].orders :
      IF s \in Unasked(objects[p].norders) THEN objects[p].orders[s] = NoOrder
      ELSE objects[p].orders[s] = queues[p][s + 1]

(* An order arrives after its description and finds its slot.  The program *)
(* ends otherwise: when descriptions come in pages the first orders can    *)
(* overtake the last of them, and the slot is sure to be there only while  *)
(* no turn ends with orders under way.                                     *)
OrdersFindTheirPlace ==
  /\ stopped = "description" => pageSize < Cardinality(Types)
  /\ stopped = "slot" => ~patient
  /\ ~paramsRead => stopped = "no"

(* The computer player gives a planet one order when it has none: two are  *)
(* under way or carried out for it only when a turn ended in between.      *)
OneOrderAtATime ==
  patient =>
    \A p \in Planets :
      Cardinality({i \in 1..Len(toServer) :
                     toServer[i].body.type \in {"ProbeOrder", "InsertOrder"}
                       /\ toServer[i].body.id = p})
        + Cardinality({j \in 1..Len(queues[p]) : queues[p][j].no > MaxOrders}) <= 1
=============================================================================
