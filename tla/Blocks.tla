------------------------------- MODULE Blocks -------------------------------
(***************************************************************************)
(* parse_block() of tpe_util.c: a frame read into a structure by a         *)
(* description of its members, with structures inside it.  Messages are    *)
(* read so (tpe_board.c), and the descriptions of objects (objects.c).     *)
(*                                                                         *)
(* Both callers leave it to parse_block() to allocate the structure, which *)
(* it refuses.  intoBlock says whether they are taken to pass one; it is   *)
(* FALSE for the code as it is, and TRUE is how parse_block() is called    *)
(* for the structures inside.                                              *)
(*                                                                         *)
(* In the variables of Packet, format is the name of the description and   *)
(* args the fields of the frame.                                           *)
(***************************************************************************)
EXTENDS Packet

CONSTANTS
  IntoBlock,        \* whether a structure may be passed
  MaxBlockString    \* strings that long are given up: 5000

ASSUME IntoBlockAssumption == IntoBlock \subseteq BOOLEAN

-----------------------------------------------------------------------------
(* Descriptions.  A member is an int, a long, a string or a list of        *)
(* structures, which has a description of its own.                         *)

Member(kind) == [kind |-> kind, sub |-> <<>>]
ListOf(items) == [kind |-> "structs", sub |-> items]

objectdescparam == <<Member("string"), Member("int"), Member("string")>>
objectdescprops == <<Member("int"), Member("string"), Member("string"), ListOf(objectdescparam)>>
objdescparse ==
  <<Member("int"), Member("string"), Member("string"), Member("long"), ListOf(objectdescprops)>>

(* The third member is the number of types of the message, which have no   *)
(* member: there must be none.                                             *)
parsemessage ==
  <<Member("int"), Member("int"), Member("int"), Member("string"), Member("string"),
    Member("int"), ListOf(<<Member("int"), Member("int")>>)>>

BlockItems == [object |-> objdescparse, message |-> parsemessage]

-----------------------------------------------------------------------------
(* Reading.  A reader stores the members of a structure in its out, those  *)
(* of the structures inside as sequences; NULL is the empty string.        *)

(* extract_string() *)
BlockString(mem, r) ==
  LET len == IntAt(mem, r.at)
      chars == [i \in 1..len |-> ByteAt(mem, r.at + 3 + i)]
  IN  IF len >= MaxBlockString THEN Store(r, 4, <<>>)
      ELSE Store(r, 4 + len, UpToNUL(chars))

RECURSIVE ReadBlock(_, _, _)

(* extract_struct(): structures one behind the other. *)
ReadStructs(mem, r, items) ==
  LET count == IntAt(mem, r.at)
      all == FoldLeft(LAMBDA t, i : ReadBlock(mem, t, items),
                      [r EXCEPT !.at = @ + 4, !.out = <<>>], [i \in 1..count |-> i])
  IN  [all EXCEPT !.out = Append(r.out, all.out)]

ReadMember(mem, r, item) ==
  CASE item.kind = "int" -> ReadInt(mem, r)
    [] item.kind = "long" -> ReadLong(mem, r)
    [] item.kind = "string" -> BlockString(mem, r)
    [] item.kind = "structs" -> ReadStructs(mem, r, item.sub)

(* The loop of parse_block().                                              *)
ReadBlock(mem, r, items) ==
  LET block == FoldLeft(LAMBDA t, item : ReadMember(mem, t, item), [r EXCEPT !.out = <<>>], items)
  IN  [block EXCEPT !.out = Append(r.out, block.out)]

(* parse_block(): the end of the frame is set by it, and nothing is where  *)
(* there is no structure.                                                  *)
ParseBlock(mem, items, into) ==
  IF into THEN ReadBlock(mem, ReaderAt(0), items) ELSE ReaderAt(0)

-----------------------------------------------------------------------------

ListsOf(elements) == {<<>>} \cup {<<e>> : e \in elements} \cup {<<e, e>> : e \in elements}

Params == {<<StringField(s), IntField(1), StringField(s)>> : s \in StringValues}
Props ==
  {<<IntField(1), StringField(s), StringField(s), ListField(ps)>>
     : s \in StringValues, ps \in ListsOf(Params)}

(* Frames of each kind.  Messages have no types: with any, the rest of the *)
(* message is read from the wrong place.                                   *)
Content(name) ==
  CASE name = "object" ->
         {<<IntField(1), StringField(s), StringField(s), LongField(l), ListField(ps)>>
            : s \in StringValues, l \in LongValues, ps \in ListsOf(Props)}
    [] name = "message" ->
         {i \o <<ListField(<<>>), StringField(s), StringField(t), i[1], ListField(refs)>>
            : i \in IntFields(2), s, t \in StringValues, refs \in ListsOf(IntFields(2))}

BlockInit ==
  /\ from = "block"
  /\ format \in DOMAIN BlockItems
  /\ args \in Content(format)
  /\ stage = "sent"
  /\ measured = 0
  /\ payload = AsCells(EncodeAll(args))
  /\ reader = ReaderAt(0)

(* tpe_obj_object_description_receive() and the beginning of               *)
(* tpe_board_msg_message_receive()                                         *)
ReceiveBlock ==
  /\ from = "block" /\ stage = "sent"
  /\ \E into \in IntoBlock : reader' = ParseBlock(Memory(0), BlockItems[format], into)
  /\ stage' = "read"
  /\ UNCHANGED <<from, format, args, measured, payload>>

-----------------------------------------------------------------------------

RECURSIVE PlainFields(_)

(* The plain values of fields, as a structure has them.                    *)
PlainFields(fields) ==
  ForEach(LAMBDA f : IF f.kind = "list" THEN ForEach(LAMBDA e : PlainFields(e), f.val) ELSE f.val, fields)

(* The number of types of a message stands where the types should.         *)
Stored(fields) ==
  LET values == PlainFields(fields)
  IN  IF format = "message" THEN [values EXCEPT ![3] = Len(values[3])] ELSE values

(* A frame that is read into a structure is read to its end, with every    *)
(* member of it and of the structures inside it in its place.              *)
BlockReadIsMeant ==
  from = "block" /\ stage = "read" /\ reader.out # <<>> =>
       /\ reader.at = Size
       /\ reader.out = <<Stored(args)>>

(* What is read is what the server sent, whichever of the two parsers      *)
(* reads it.                                                               *)
FramesReadAsMeant == ReadIsMeant /\ BlockReadIsMeant
=============================================================================
