------------------------------- MODULE Packet -------------------------------
(***************************************************************************)
(* The content of frames.  What the client sends is written by             *)
(* format_server() and server_send_strings() of server.c, the first in two *)
(* passes, one that measures and one that writes.  What it receives is     *)
(* read by tpe_util_parse_packet() of tpe_util.c, one letter of a format   *)
(* after the other.                                                        *)
(*                                                                         *)
(* A behaviour is one frame: its fields are chosen one by one, it is sent, *)
(* and if it comes from the server it is read.  A server that is older     *)
(* than the client leaves the last fields out.                             *)
(***************************************************************************)
EXTENDS Wire

CONSTANTS
  ClientFormats,    \* formats of server_send_format() and "strings"
  ServerFormats,    \* formats of tpe_util_parse_packet()
  IntValues, LongValues, StringValues, RawValues,
  MaxList,          \* bound: elements of a list
  MaxString,        \* limit on the length of a string that is read: 2000
  Junk              \* what a byte behind the payload may hold

VARIABLES
  from,             \* who writes the frame: "client", "server", or "order" (OrderArgs)
  format,           \* its format, a sequence of letters
  args,             \* the arguments so far, records [c, val]
  stage,            \* "compose", "sent", "strings" or "read", and those of OrderArgs
  measured,         \* words that the first pass counted
  payload,          \* what was written: bytes by their offset
  reader            \* the state of tpe_util_parse_packet() when it ends

vars == <<from, format, args, stage, measured, payload, reader>>

-----------------------------------------------------------------------------
(* Numbers as the host keeps them, the lowest byte first.                  *)

HostInt(v) == Reverse(Bytes(4, v))
HostLong(v) == Reverse(Bytes(8, v))

(* htonl() and ntohl(), and ntohll() as server.h puts it together.         *)
htonl(v) == Number(HostInt(v))
ntohll(v) == htonl(v % (Radix ^ 4)) * Radix ^ 4 + htonl(v \div (Radix ^ 4))

-----------------------------------------------------------------------------
(* Writing                                                                 *)

(* Mutant: a string that needs no padding gets a word of it.               *)
PadLenMore(len) == len + (4 - (len % 4))

PadLen(len) == IF len % 4 # 0 THEN len + (4 - (len % 4)) ELSE len

(* The state of a pass: the position in words, whether there is a buffer   *)
(* to write to, and the bytes written so far.                              *)
Put(w, bytes, words) ==
  [w EXCEPT !.pos = @ + words,
            !.cells = IF w.writing
                      THEN [k \in 4 * w.pos .. 4 * w.pos + Len(bytes) - 1 |-> bytes[k - 4 * w.pos + 1]] @@ @
                      ELSE @]

PutString(w, s) ==
  IF s = <<>> THEN Put(w, HostInt(0), 1)
  ELSE LET padlen == PadLen(Len(s))
       IN  Put(Put(w, HostInt(htonl(padlen)), 1), Padded(s, padlen), padlen \div 4)

FormatChar(w, a) ==
  CASE a.c = "0" -> Put(w, HostInt(0), 1)
    [] a.c = "i" -> Put(w, HostInt(htonl(a.val)), 1)
    [] a.c = "l" -> Put(w, HostLong(ntohll(a.val)), 2)
    [] a.c = "s" -> PutString(w, a.val)
    [] a.c = "r" -> Put(w, a.val, Len(a.val) \div 4)
    [] a.c = "V" -> w

FormatServer(writing, as) ==
  FoldLeft(FormatChar, [pos |-> 0, writing |-> writing, cells |-> <<>>], as)

(* server_send_strings(): without padding, and without anything when all   *)
(* strings are empty.                                                      *)
StringsPayload(as) ==
  LET strs == ForEach(LAMBDA a : a.val, as)
  IN  IF FlattenSeq(strs) = <<>> THEN <<>>
      ELSE FlattenSeq(ForEach(LAMBDA str : HostInt(htonl(Len(str))) \o str, strs))

AsCells(bytes) == [k \in 0 .. Len(bytes) - 1 |-> bytes[k + 1]]

-----------------------------------------------------------------------------
(* Reading                                                                 *)

(* The arrays: the letter, and what an element is made of.                 *)
Ints == "a" :> <<"int">>
Oids == "O" :> <<"int", "long">>
ArgDescriptions == "Q" :> <<"string", "int", "string">>
References == "r" :> <<"int", "int">>
ListOptions == "6" :> <<"int", "string", "int">>
Builds == "B" :> <<"int", "int">>
PlanetResources == "R" :> <<"int", "int", "int", "int">>
Ships == "S" :> <<"int", "int">>

Arrays == Ints @@ Oids @@ ArgDescriptions @@ References @@ ListOptions @@ Builds
            @@ PlanetResources @@ Ships

(* A reader: the offset it is at, the pointer its last "p" set, the values *)
(* it has stored, and why it stopped, if it did; mem is what it reads from.*)
ByteAt(mem, k) == IF k \in DOMAIN mem.bytes THEN mem.bytes[k] ELSE mem.junk
NumberAt(mem, at, n) == Number(Reverse([i \in 1..n |-> ByteAt(mem, at + i - 1)]))
IntAt(mem, at) == htonl(NumberAt(mem, at, 4))
LongAt(mem, at) == ntohll(NumberAt(mem, at, 8))

Store(r, size, v) == [r EXCEPT !.at = @ + size, !.out = Append(@, v)]

ReadInt(mem, r) == Store(r, 4, IntAt(mem, r.at))
ReadLong(mem, r) == Store(r, 8, LongAt(mem, r.at))

UpToNUL(chars) ==
  LET n == SelectInSeq(chars, LAMBDA b : b = NUL)
  IN  IF n = 0 THEN chars ELSE SubSeq(chars, 1, n - 1)

(* tpe_util_string_extract(): a copy that ends at the first NUL.           *)
ReadString(mem, r) ==
  LET len == IntAt(mem, r.at)
      chars == [i \in 1..len |-> ByteAt(mem, r.at + 3 + i)]
  IN  IF len >= MaxString THEN [r EXCEPT !.stop = "assert"]
      ELSE Store(r, 4 + len, UpToNUL(chars))

ReadField(mem, r, kind) ==
  IF r.stop # "no" THEN r
  ELSE CASE kind = "int" -> ReadInt(mem, r)
         [] kind = "long" -> ReadLong(mem, r)
         [] kind = "string" -> ReadString(mem, r)

(* The fields of n elements, read by all, become one value of r.           *)
Gathered(r, n, w, all) ==
  IF all.stop # "no" THEN [r EXCEPT !.stop = all.stop]
  ELSE [all EXCEPT !.out = Append(r.out,
          [i \in 1..n |-> SubSeq(all.out, (i - 1) * w + 1, i * w)])]

ReadArray(mem, r, kinds) ==
  LET n == IntAt(mem, r.at)
      w == Len(kinds)
  IN  Gathered(r, n, w,
        FoldLeft(LAMBDA t, k : ReadField(mem, t, k), [r EXCEPT !.at = @ + 4, !.out = <<>>],
                 [i \in 1 .. n * w |-> kinds[((i - 1) % w) + 1]]))

(* Mutant: being at the end counts as being behind it.                     *)
BehindAtEnd(mem, r) == r.at >= mem.end
Behind(mem, r) == r.at > mem.end

(* One round of the loop.                                                  *)
ParseChar(mem, r, c) ==
  IF r.stop # "no" THEN r
  ELSE IF Behind(mem, r) THEN [r EXCEPT !.stop = "overflow"]
  ELSE CASE c = "-" -> [r EXCEPT !.at = @ + 4]
         [] c = "i" -> ReadInt(mem, r)
         [] c = "l" -> ReadLong(mem, r)
         [] c = "s" -> ReadString(mem, r)
         [] c = "p" -> [r EXCEPT !.p = r.at]
         [] c \in DOMAIN Arrays -> ReadArray(mem, r, Arrays[c])

ReaderAt(at) == [at |-> at, p |-> at, out |-> <<>>, stop |-> "no"]
ParsePacket(mem, r, fmt) == FoldLeft(LAMBDA s, c : ParseChar(mem, s, c), r, fmt)

-----------------------------------------------------------------------------
(* What the arguments mean, as fields of the protocol.                     *)

SimpleValues(kind) ==
  CASE kind = "int" -> IntValues
    [] kind = "long" -> LongValues
    [] kind = "string" -> StringValues
LongFields(n) == {[i \in 1..n |-> LongField(l)] : l \in LongValues}
IntFields(n) == {[i \in 1..n |-> IntField(v)] : v \in IntValues}
SimpleField(kind, v) == [kind |-> kind, val |-> v]

(* Elements of an array: one value for each of its fields, the same for    *)
(* fields of a kind.                                                       *)
Elements(kinds) ==
  {[j \in 1..Len(kinds) |-> CASE kinds[j] = "int" -> i [] kinds[j] = "long" -> l [] kinds[j] = "string" -> s]
     : i \in IntValues, l \in LongValues, s \in StringValues}

Values(c) ==
  CASE c \in {"i", "-"} -> IntValues
    [] c = "l" -> LongValues
    [] c = "s" -> StringValues
    [] c \in {"0", "V", "p"} -> {0}
    [] c = "r" /\ from = "client" -> RawValues
    [] OTHER -> UNION {[1..n -> Elements(Arrays[c])] : n \in 0..MaxList}

Meaning(a) ==
  CASE a.c \in {"i", "-", "0"} -> <<IntField(a.val)>>
    [] a.c = "l" -> <<LongField(a.val)>>
    [] a.c = "s" -> <<StringField(a.val)>>
    [] a.c \in {"p", "V"} -> <<>>
    [] a.c \in DOMAIN Arrays ->
         <<ListField(ForEach(LAMBDA e : [j \in 1..Len(e) |-> SimpleField(Arrays[a.c][j], e[j])], a.val))>>

MeaningOf(as) == FlattenSeq(ForEach(Meaning, as))

Init ==
  /\ \/ from = "client" /\ format \in ClientFormats
     \/ from = "server" /\ format \in ServerFormats
  /\ args = <<>>
  /\ stage = "compose"
  /\ measured = 0
  /\ payload = <<>>
  /\ reader = ReaderAt(0)

Whole == Len(args) = Len(format)

Compose ==
  /\ from \in {"client", "server"} /\ stage = "compose"
  /\ ~Whole
  /\ LET c == format[Len(args) + 1]
     IN  \E v \in Values(c) : args' = Append(args, [c |-> c, val |-> v])
  /\ UNCHANGED <<from, format, stage, measured, payload, reader>>

(* server_send_format(): the first pass has no buffer, and there is no     *)
(* second when it counts nothing.                                          *)
SendFormat ==
  /\ from = "client" /\ stage = "compose" /\ Whole
  /\ stage' = "sent"
  /\ LET len == FormatServer(FALSE, args).pos
     IN  /\ measured' = len
         /\ payload' = IF len > 0 THEN FormatServer(TRUE, args).cells ELSE <<>>
  /\ UNCHANGED <<from, format, args, reader>>

SendStrings ==
  /\ from = "client" /\ stage = "compose" /\ Whole
  /\ \A i \in 1..Len(format) : format[i] = "s"
  /\ stage' = "strings"
  /\ payload' = AsCells(StringsPayload(args))
  /\ UNCHANGED <<from, format, args, measured, reader>>

ServerSends ==
  /\ from = "server" /\ stage = "compose"
  /\ args # <<>>
  /\ stage' = "sent"
  /\ payload' = AsCells(EncodeAll(MeaningOf(args)))
  /\ UNCHANGED <<from, format, args, measured, reader>>

Size == Cardinality(DOMAIN payload)
Memory(junk) == [bytes |-> payload, end |-> Size, junk |-> junk]

Receive ==
  /\ from = "server" /\ stage = "sent"
  /\ stage' = "read"
  /\ \E junk \in Junk :
       reader' = ParsePacket(Memory(junk), ReaderAt(0), format)
  /\ UNCHANGED <<from, format, args, measured, payload>>

Next == Compose \/ SendFormat \/ SendStrings \/ ServerSends \/ Receive

Spec == Init /\ [][Next]_vars

-----------------------------------------------------------------------------
(* Properties                                                              *)

(* What an argument of the client looks like on the wire: a string has     *)
(* NULs behind it up to the next word.                                     *)
OnWire(a) ==
  CASE a.c = "r" -> a.val
    [] a.c = "s" -> Str(Padded(a.val, 4 * ((Len(a.val) + 3) \div 4)))
    [] OTHER -> EncodeAll(Meaning(a))

(* What is sent is the arguments, each in its place, whole and in network  *)
(* order: no word of the buffer is left out or written twice, whatever the *)
(* lengths of the strings and of raw data.  server_send_strings() does not *)
(* pad, and sends nothing when all its strings are empty.                  *)
SentIsMeant ==
  /\ stage = "sent" /\ from = "client" =>
       /\ Size = 4 * measured
       /\ payload = AsCells(FlattenSeq(ForEach(OnWire, args)))
  /\ stage = "strings" =>
       \/ payload = AsCells(EncodeAll(MeaningOf(args)))
       \/ payload = <<>> /\ \A i \in 1..Len(args) : args[i].val = <<>>

Returned(c) == c \notin {"-", "p"}

Missing == {i \in Len(args) + 1 .. Len(format) : format[i] # "p"}

(* A whole frame is read to its end and not beyond, the client goes on,    *)
(* and it has stored what the server sent.  A frame that lacks two of its  *)
(* fields or more never passes for a whole one: the client ends rather     *)
(* than go on with what lies behind it.  (One missing field at the end is  *)
(* not seen, since the end is looked at before a field is read and not     *)
(* after the last.)                                                        *)
ReadIsMeant ==
  from = "server" /\ stage = "read" =>
    /\ Whole =>
         /\ reader.stop = "no"
         /\ reader.at = Size
         /\ reader.out = ForEach(LAMBDA a : a.val, SelectSeq(args, LAMBDA a : Returned(a.c)))
    /\ Cardinality(Missing) > 1 => reader.stop # "no"
=============================================================================
