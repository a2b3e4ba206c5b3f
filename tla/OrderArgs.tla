----------------------------- MODULE OrderArgs ------------------------------
(***************************************************************************)
(* The arguments of an order, from tpe_orders.c.  An order that the server *)
(* sends is read with the description of its type, which says of what type *)
(* each argument is, and tpe_orders_order_update() submits it again: it    *)
(* adds up the sizes of the arguments, allocates a buffer, and lets each   *)
(* argument write itself.                                                  *)
(*                                                                         *)
(* The order goes through the variables of Packet: format is the list of   *)
(* types in the description, args the arguments, each with its fields.     *)
(*                                                                         *)
(* Arguments of type "player" are left out: reading one passes fewer       *)
(* pointers than its format asks for (tpe_orders.c:374), and what that     *)
(* writes to is undefined.  References cannot be written (no writer).      *)
(***************************************************************************)
EXTENDS Packet

CONSTANTS
  Descriptions,     \* lists of types of arguments
  MaxOptions        \* limit on the options of a list: 1000

ArgTypes == {"coord", "time", "object", "relcoord", "range", "list", "string"}

ASSUME DescriptionsAssumption == Descriptions \subseteq Seq(ArgTypes)

-----------------------------------------------------------------------------
(* The arguments as the protocol has them                                  *)

SelectionsOf(options) ==
  {<<>>} \cup {<< <<IntField(o), IntField(v)>> >> : o \in options, v \in IntValues}

(* The fields an argument may have when it comes from the server: a string *)
(* is not longer than its maximum, and selected is what is an option.      *)
FieldsOf(type) ==
  CASE type = "coord" -> LongFields(3)
    [] type = "time" -> IntFields(2)
    [] type = "object" -> IntFields(1)
    [] type = "relcoord" -> {o \o p : o \in IntFields(1), p \in LongFields(3)}
    [] type = "range" -> IntFields(4)
    [] type = "list" ->
         {<<ListField(ForEach(LAMBDA o : <<IntField(o), StringField(<<1>>), IntField(o)>>, options)),
            ListField(selections)>>
            : options \in {<<1>>, <<1, 2>>}, selections \in SelectionsOf({1})}
    [] type = "string" -> {<<IntField(MaxString), StringField(s)>> : s \in StringValues}

OrderInit ==
  /\ from = "order" /\ format \in Descriptions
  /\ args = <<>>
  /\ stage = "compose"
  /\ measured = 0
  /\ payload = <<>>
  /\ reader = ReaderAt(0)

(* The object, the slot, the type, the turns and the resources of an order.*)
OrderHead == <<IntField(1), IntField(0), IntField(2), IntField(0), ListField(<<>>)>>
HeadSize == Len(EncodeAll(OrderHead))

ComposeOrder ==
  /\ from = "order" /\ stage = "compose" /\ ~Whole
  /\ LET type == format[Len(args) + 1]
     IN  \E f \in FieldsOf(type) : args' = Append(args, [c |-> type, val |-> f])
  /\ UNCHANGED <<from, format, stage, measured, payload, reader>>

ServerSendsOrder ==
  /\ from = "order" /\ stage = "compose" /\ Whole
  /\ stage' = "sent"
  /\ payload' = AsCells(EncodeAll(OrderHead \o FlattenSeq(ForEach(LAMBDA a : a.val, args))))
  /\ UNCHANGED <<from, format, args, measured, reader>>

-----------------------------------------------------------------------------
(* Reading: tpe_order_parse_args()                                         *)

Repeat(s, n) == FlattenSeq([i \in 1..n |-> s])

(* One call of the parser, from where the one before it set its pointer.   *)
Call(mem, r, fmt) == ParsePacket(mem, [r EXCEPT !.at = r.p], fmt)

(* The options of a list, then the selections, each behind its number.     *)
(* What is stored of the numbers themselves is dropped.                    *)
ListSelections(options, selections) == [selections EXCEPT !.out = <<options, @>>]

ListChosen(mem, options, chosen) ==
  IF chosen.stop # "no" THEN chosen
  ELSE ListSelections(options,
         Call(mem, [chosen EXCEPT !.out = <<>>],
              Repeat(<<"i", "i", "p">>, Last(chosen.out)) \o <<"p">>))

ListOptionsRead(mem, options) == ListChosen(mem, options.out, Call(mem, options, <<"i", "p">>))

ListCounted(mem, count) ==
  IF count.stop # "no" THEN count
  ELSE IF Last(count.out) >= MaxOptions THEN [count EXCEPT !.stop = "assert"]
  ELSE ListOptionsRead(mem,
         Call(mem, [count EXCEPT !.out = <<>>],
              Repeat(<<"i", "s", "i", "p">>, Last(count.out)) \o <<"p">>))

ParseList(mem, r) == ListCounted(mem, Call(mem, r, <<"i", "p">>))

(* Mutant: a time is read without moving on. *)
ArgFormatStays(type) ==
  CASE type = "coord" -> <<"l", "l", "l", "p">>
    [] type = "time" -> <<"i", "i">>
    [] type = "object" -> <<"i", "p">>
    [] type = "relcoord" -> <<"i", "l", "l", "l", "p">>
    [] type = "range" -> <<"i", "i", "i", "i">>
    [] type = "string" -> <<"i", "s", "p">>

(* The pointer stays where a range begins: its format has no "p".          *)
ArgFormat(type) ==
  CASE type = "coord" -> <<"l", "l", "l", "p">>
    [] type = "time" -> <<"i", "i", "p">>
    [] type = "object" -> <<"i", "p">>
    [] type = "relcoord" -> <<"i", "l", "l", "l", "p">>
    [] type = "range" -> <<"i", "i", "i", "i">>
    [] type = "string" -> <<"i", "s", "p">>

ParseArg(mem, r, type) ==
  IF type = "list" THEN ParseList(mem, r) ELSE Call(mem, r, ArgFormat(type))

(* The arguments read so far are in vals.                                  *)
ArgRead(r) == [r EXCEPT !.out = <<>>, !.vals = Append(@, r.out)]

ParseArgs(mem, p, desc) ==
  FoldLeft(LAMBDA r, type : IF r.stop # "no" THEN r ELSE ArgRead(ParseArg(mem, r, type)),
           [at |-> p, p |-> p, out |-> <<>>, stop |-> "no", vals |-> <<>>], desc)

(* tpe_orders_msg_order() and object_probe_data(), as far as they read.    *)
ReceiveOrder ==
  /\ from = "order" /\ stage = "sent"
  /\ stage' = "read"
  /\ LET head == ParsePacket(Memory(0), ReaderAt(0), <<"i", "i", "i", "i", "B", "p">>)
     IN  reader' = ParseArgs(Memory(0), head.p, format)
  /\ UNCHANGED <<from, format, args, measured, payload>>

-----------------------------------------------------------------------------
(* Writing: tpe_orders_order_update().  An argument is written from the    *)
(* values that were read.                                                  *)

(* Bytes of an argument.  A string is cut at its maximum here, and is not  *)
(* cut where it is written.                                                *)
StringSize(v) ==
  IF v[2] = <<>> THEN 8
  ELSE 8 + PadLen(IF Len(v[2]) > v[1] THEN v[1] ELSE Len(v[2]))

(* Mutant: the words in front of the selections are not counted. *)
ListSizeBare(v) == (Len(v[2]) \div 2) * 8

ListSize(v) == (Len(v[2]) \div 2) * 8 + 16

SizeOf(type, v) ==
  CASE type = "coord" -> 24
    [] type = "time" -> 8
    [] type = "object" -> 4
    [] type = "relcoord" -> 28
    [] type = "range" -> 16
    [] type = "list" -> ListSize(v)
    [] type = "string" -> StringSize(v)

HostInts(vs) == FlattenSeq(ForEach(LAMBDA v : HostInt(htonl(v)), vs))

WriteCoord(v) == FlattenSeq(ForEach(LAMBDA l : HostLong(ntohll(l)), v))

(* Mutant: the maximum is written back. *)
WriteTimeMax(v) == HostInts(v)

WriteTime(v) == HostInts(<<v[1], 0>>)

WriteObject(v) == HostInts(v)

(* htonl() of a long: its low half, turned round, as a long.               *)
WriteRelCoord(v) ==
  HostInts(<<v[1]>>)
    \o FlattenSeq(ForEach(LAMBDA l : HostLong(htonl(l % (Radix ^ 4))), SubSeq(v, 2, 4)))

WriteRange(v) == HostInts(<<v[1], 0, 0, 0>>)

(* Three words and the number of selections stand in front of them.        *)
WriteList(v) == HostInts(<<0, 0, 0, Len(v[2]) \div 2>> \o v[2])

WriteString(v) ==
  LET slen == PadLen(Len(v[2]))
  IN  HostInts(<<0, slen>>) \o Padded(v[2], slen)

WriteArg(type, v) ==
  CASE type = "coord" -> WriteCoord(v)
    [] type = "time" -> WriteTime(v)
    [] type = "object" -> WriteObject(v)
    [] type = "relcoord" -> WriteRelCoord(v)
    [] type = "range" -> WriteRange(v)
    [] type = "list" -> WriteList(v)
    [] type = "string" -> WriteString(v)

(* The assertion of arg_string_write().                                    *)
StringFits(v) == PadLen(Len(v[2])) + 8 = StringSize(v)

(* The first pass allocates; the second writes each argument behind the    *)
(* one before it, and what is sent are the words it counted.               *)
OrderUpdate ==
  /\ from = "order" /\ stage = "read" /\ reader.stop = "no"
  /\ LET n == Len(format)
         sizes == [i \in 1..n |-> SizeOf(format[i], reader.vals[i])]
         written == FlattenSeq([i \in 1..n |-> WriteArg(format[i], reader.vals[i])])
     IN  /\ measured' = FoldLeft(+, 0, sizes)
         /\ IF \A i \in 1..n : format[i] = "string" => StringFits(reader.vals[i])
            THEN /\ stage' = "submitted"
                 /\ payload' = FormatServer(TRUE, <<[c |-> "V", val |-> 0],
                      [c |-> "i", val |-> 1], [c |-> "i", val |-> 0], [c |-> "i", val |-> 2],
                      [c |-> "0", val |-> 0], [c |-> "0", val |-> 0],
                      [c |-> "r", val |-> written]>>).cells
            ELSE /\ stage' = "assert"
                 /\ UNCHANGED payload
  /\ UNCHANGED <<from, format, args, reader>>

OrderNext == ComposeOrder \/ ServerSendsOrder \/ ReceiveOrder \/ OrderUpdate



-----------------------------------------------------------------------------
(* Properties                                                              *)

(* What stands behind a range is read from the place of the range, so a    *)
(* range must come last.                                                   *)
Readable == \A i \in 1 .. Len(format) - 1 : format[i] # "range"

(* The two passes over the arguments agree for every list of types: what   *)
(* the arguments write fills the buffer that was measured, no more and no  *)
(* less, and the assertion of arg_string_write() holds for a string within *)
(* its maximum.                                                            *)
ArgsFit ==
  from = "order" /\ Readable =>
    /\ stage # "assert"
    /\ stage = "submitted" => Size = HeadSize + measured

(* The plain values of an argument, as they are stored when it is read.    *)
PlainValues(a) ==
  IF a.c = "list"
  THEN [k \in 1..2 |-> FlattenSeq(ForEach(LAMBDA e : ForEach(LAMBDA f : f.val, e), a.val[k].val))]
  ELSE ForEach(LAMBDA f : f.val, a.val)

(* The arguments of an order are read as they were sent, up to the end of  *)
(* the frame, whatever their types and their number.                       *)
OrderReadIsMeant ==
  from = "order" /\ stage = "read" /\ Readable =>
    /\ reader.stop = "no"
    /\ reader.vals = ForEach(PlainValues, args)
    /\ reader.at = Size

(* What the server is to find in an order that is submitted again: the     *)
(* fields as they came, those that are for reading only empty.             *)
Resubmitted(a) ==
  CASE a.c = "time" -> <<a.val[1], IntField(0)>>
    [] a.c = "range" -> <<a.val[1], IntField(0), IntField(0), IntField(0)>>
    [] a.c = "list" -> <<ListField(<<>>), a.val[2]>>
    [] a.c = "string" ->
         <<IntField(0), StringField(Padded(a.val[2].val, PadLen(Len(a.val[2].val))))>>
    [] OTHER -> a.val

SubmittedAsReceived ==
  payload = AsCells(EncodeAll(OrderHead \o FlattenSeq(ForEach(Resubmitted, args))))

(* An order of places, times, objects and texts that is submitted again is *)
(* the order that was received.                                            *)
OrderUnchanged ==
  (from = "order" /\ stage = "submitted"
     /\ \A i \in 1..Len(format) : format[i] \in {"coord", "time", "object", "string"})
    => SubmittedAsReceived
=============================================================================
