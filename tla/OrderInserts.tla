---------------------------- MODULE OrderInserts ----------------------------
(***************************************************************************)
(* The requests about orders that tpe_orders.c writes by hand, one format  *)
(* for each: an order to move, to colonise or to build that is inserted,   *)
(* and the probe for an order of any type, whose answer is an order that   *)
(* OrderArgs goes on with.                                                 *)
(*                                                                         *)
(* In the variables of Packet, format is the description of the type of    *)
(* order and args the call: the slot, the type as                          *)
(* tpe_order_get_type_by_name() found it, and what the caller passes.      *)
(***************************************************************************)
EXTENDS OrderArgs

CONSTANT BuildWords  \* the words a caller may name after the fleet

Minus1 == Radix ^ 4 - 1
OrderType == 2

Move == <<"coord">>
Colonise == <<"object">>
Build == <<"list", "string">>

(* What the callers pass: a place, an object, or what is to be built.      *)
Wanted(desc) ==
  CASE desc = Move -> {<<l, m, l>> : l, m \in LongValues}
    [] desc = Colonise -> {<<v>> : v \in IntValues}
    [] desc = Build -> BuildWords \X StringValues

InsertInit ==
  /\ \/ /\ from = "insert" /\ format \in {Move, Colonise, Build}
        /\ args \in {[slot |-> s, type |-> t, wanted |-> w]
                       : s \in {0, Minus1}, t \in {OrderType, Minus1}, w \in Wanted(format)}
     \/ /\ from = "probe" /\ format \in Descriptions
        /\ args = [slot |-> Minus1, type |-> OrderType, wanted |-> <<>>]
  /\ stage = "compose"
  /\ measured = 0
  /\ payload = <<>>
  /\ reader = ReaderAt(0)

-----------------------------------------------------------------------------

IntArg(v) == [c |-> "i", val |-> v]
LongArg(v) == [c |-> "l", val |-> v]
Zero == [c |-> "0", val |-> 0]
RawArg(bytes) == [c |-> "r", val |-> bytes]
TextArg(s) == [c |-> "s", val |-> s]

(* server_send_format() with "iii00" and what stands behind it.            *)
SendWith(rest) ==
  LET as == <<IntArg(1), IntArg(args.slot), IntArg(args.type), Zero, Zero>> \o rest
  IN  /\ stage' = "sent"
      /\ measured' = FormatServer(FALSE, as).pos
      /\ payload' = FormatServer(TRUE, as).cells
      /\ UNCHANGED <<from, format, args, reader>>

Inserting(desc) == from = "insert" /\ stage = "compose" /\ format = desc

(* A type that is not there: nothing is sent.                              *)
Unavailable ==
  /\ Inserting(Move) \/ Inserting(Colonise)
  /\ args.type = Minus1
  /\ stage' = "refused"
  /\ UNCHANGED <<from, format, args, measured, payload, reader>>

(* tpe_orders_object_move(), with tpe_orders_object_move_object() *)
ObjectMove ==
  /\ Inserting(Move)
  /\ args.type # Minus1
  /\ SendWith(ForEach(LongArg, args.wanted))

(* tpe_orders_object_colonise() *)
ObjectColonise ==
  /\ Inserting(Colonise)
  /\ args.type # Minus1
  /\ SendWith(ForEach(IntArg, args.wanted))

(* The first pass: pairs of a type and a number, up to the first that is   *)
(* no pair.                                                                *)
Items(words) ==
  LET ends == {k \in 0..Len(words) :
                 \/ 2 * k + 2 > Len(words)
                 \/ words[2 * k + 1] \in {0, Minus1}
                 \/ words[2 * k + 2] = 0}
  IN  CHOOSE k \in ends : \A l \in ends : k <= l

(* tpe_orders_object_build(): without anything to build nothing is sent;   *)
(* the type is not looked at.                                              *)
ObjectBuild ==
  /\ Inserting(Build)
  /\ LET words == args.wanted[1]
         items == Items(words)
         buf == FlattenSeq(ForEach(LAMBDA v : HostInt(htonl(v)), <<items>> \o SubSeq(words, 1, 2 * items)))
     IN  IF items = 0
         THEN /\ stage' = "refused"
              /\ UNCHANGED <<from, format, args, measured, payload, reader>>
         ELSE SendWith(<<Zero, RawArg(buf), Zero, TextArg(args.wanted[2])>>)

(* argsizesempty *)
SizeEmpty(type) ==
  CASE type = "coord" -> 24
    [] type \in {"time", "string"} -> 8
    [] type = "object" -> 4
    [] type = "relcoord" -> 28
    [] type \in {"range", "list"} -> 16

(* tpe_orders_object_probe(): empty arguments. *)
ObjectProbe ==
  /\ from = "probe" /\ stage = "compose"
  /\ LET size == FoldLeft(+, 0, ForEach(SizeEmpty, format))
     IN  SendWith(<<RawArg([k \in 1..size |-> NUL])>>)

(* object_probe_data(): the answer is an order of that type, or a failure, *)
(* which the assertion does not allow.                                     *)
ProbeAnswered ==
  /\ from = "probe" /\ stage = "sent"
  /\ \/ /\ from' = "order" /\ args' = <<>> /\ stage' = "compose" /\ payload' = <<>>
        /\ measured' = 0
     \/ stage' = "assert" /\ UNCHANGED <<from, args, measured, payload>>
  /\ UNCHANGED <<format, reader>>

InsertNext ==
  \/ Unavailable
  \/ ObjectMove
  \/ ObjectColonise
  \/ ObjectBuild
  \/ ObjectProbe
  \/ ProbeAnswered

-----------------------------------------------------------------------------

(* The arguments a server is to read from an order that is inserted.       *)
Meant ==
  CASE format = Move -> ForEach(LongField, args.wanted)
    [] format = Colonise -> ForEach(IntField, args.wanted)
    [] format = Build ->
         LET words == args.wanted[1]
             name == args.wanted[2]
         IN  <<ListField(<<>>),
               ListField([k \in 1..Items(words) |-> <<IntField(words[2 * k - 1]), IntField(words[2 * k])>>]),
               IntField(0),
               StringField(Padded(name, PadLen(Len(name))))>>

InsertHead ==
  <<IntField(1), IntField(args.slot), IntField(args.type), IntField(0), ListField(<<>>)>>

(* The words an empty argument has in the protocol.                        *)
EmptyFields(type) ==
  CASE type = "list" -> <<ListField(<<>>), ListField(<<>>)>>
    [] type = "string" -> <<IntField(0), StringField(<<>>)>>
    [] OTHER ->
         LET fields == CHOOSE f \in FieldsOf(type) : TRUE
         IN  ForEach(LAMBDA f : [f EXCEPT !.val = 0], fields)

(* An order that is inserted is, on the wire, the order the caller means,  *)
(* with the arguments its type has; and a probe holds an empty argument    *)
(* for each that is described, two words too many for each list.           *)
InsertedIsMeant ==
  /\ from = "insert" /\ stage = "sent" =>
       /\ Size = 4 * measured
       /\ payload = AsCells(EncodeAll(InsertHead \o Meant))
       /\ format # Build => args.type # Minus1
  /\ from = "probe" /\ stage = "sent" =>
       LET empty == EncodeAll(InsertHead \o FlattenSeq(ForEach(EmptyFields, format)))
           lists == Cardinality({i \in 1..Len(format) : format[i] = "list"})
       IN  payload = AsCells(empty \o [k \in 1..8 * lists |-> NUL])

(* Every order that leaves the client is one that was meant: inserted by a *)
(* caller, or received and submitted again.                                *)
OrdersAsMeant == InsertedIsMeant /\ OrderUnchanged
=============================================================================
