-------------------------------- MODULE Wire --------------------------------
(***************************************************************************)
(* Numbers and strings as the bytes of a payload, in network order: what   *)
(* the protocol lays down, against which the two directions of the client  *)
(* are checked.                                                            *)
(*                                                                         *)
(* A byte has Radix values, 256 in the program.  A string is the sequence  *)
(* of its characters, none of which is NUL; on the wire its length stands  *)
(* before it.  A field is a record [kind, val], where the value of a list  *)
(* is the sequence of its elements and an element a sequence of fields.    *)
(***************************************************************************)
EXTENDS Integers, Sequences, SequencesExt

CONSTANT Radix

ASSUME RadixAssumption == Radix \in Nat /\ Radix > 1

Byte == 0 .. Radix - 1
NUL == 0

Bytes(n, v) == [i \in 1..n |-> (v \div Radix ^ (n - i)) % Radix]
Int32(v) == Bytes(4, v)
Int64(v) == Bytes(8, v)
Str(s) == Int32(Len(s)) \o s

(* The number that bytes stand for.                                        *)
Number(bytes) == FoldLeft(LAMBDA n, b : n * Radix + b, 0, bytes)

IntField(v) == [kind |-> "int", val |-> v]
LongField(v) == [kind |-> "long", val |-> v]
StringField(s) == [kind |-> "string", val |-> s]
ListField(s) == [kind |-> "list", val |-> s]

EncodeSimple(f) ==
  CASE f.kind = "int" -> Int32(f.val)
    [] f.kind = "long" -> Int64(f.val)
    [] f.kind = "string" -> Str(f.val)

ForEach(Op(_), s) == [i \in 1..Len(s) |-> Op(s[i])]

RECURSIVE EncodeAll(_)

(* A field, and a sequence of fields, as the protocol writes them.         *)
Encode(f) ==
  IF f.kind = "list"
  THEN Int32(Len(f.val)) \o FoldLeft(LAMBDA b, e : b \o EncodeAll(e), <<>>, f.val)
  ELSE EncodeSimple(f)
EncodeAll(fields) == FoldLeft(LAMBDA b, f : b \o Encode(f), <<>>, fields)

(* The string s with NULs behind it up to a length of n, as strncpy() puts *)
(* it, cut off when it is longer.                                          *)
Padded(s, n) == [i \in 1..n |-> IF i <= Len(s) THEN s[i] ELSE NUL]
=============================================================================
