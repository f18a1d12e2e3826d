------------------------------- MODULE Codec -------------------------------
(***************************************************************************)
(* tool/encodegen: the methods that it generates for a type, as operators  *)
(* of the type.  A type is a tree of records, what parseField makes of the *)
(* declaration; a struct, an array and a slice are the sequence of their   *)
(* elements, a map the sequence of its pairs in the order in which this    *)
(* iteration meets them, a number itself.                                  *)
(*                                                                         *)
(* A byte has G + 1 bits.                                                  *)
(***************************************************************************)
EXTENDS Varint, SequencesExt

CONSTANTS
  Bits16, Bits32, Bits64,   \* the widths of the integer types
  Nil,                      \* the nil of pointers, slices and maps
  Error                     \* in the place of bytes that could not be made

----------------------------------------------------------------------------
(* Types                                                                   *)

Prim(name)      == [kind |-> "primitive", name |-> name]
PointerTo(t)    == [kind |-> "pointer", elem |-> t]
SliceOf(t)      == [kind |-> "slice", elem |-> t]
ArrayOf(n, t)   == [kind |-> "array", len |-> n, elem |-> t]
StructOf(ts)    == [kind |-> "struct", fields |-> ts]
MapOf(k, t)     == [kind |-> "map", elem |-> StructOf(<<k, t>>)]
TimeType        == [kind |-> "time"]
\* A struct of another package, encoded by its own generated methods, whose
\* receivers may be pointers.
External(t, p)  == [kind |-> "external", elem |-> t, pointer |-> p]
\* What no code is generated for: an identifier declared in another file passes
\* for a primitive of an unknown name.
LeftOut         == [kind |-> "left out"]

\* One declaration of a struct, with n names (none when it is embedded) of type
\* t, which is LeftOut when parseField does not understand it: only the first
\* name becomes a field.
Declare(n, t) == <<t>> \o [i \in 1 .. n - 1 |-> LeftOut]

OneByte  == {"int8", "uint8", "byte", "bool"}
Signed   == {"int16", "int32", "rune", "int", "int64"}
Width(name) ==
  CASE name \in {"int16", "uint16"} -> Bits16
    [] name \in {"int32", "rune", "uint32", "float32"} -> Bits32
    [] OTHER -> Bits64

\* The types of the parts of a value with n of them.
Parts(t, n) == IF t.kind = "struct" THEN t.fields ELSE [i \in 1 .. n |-> t.elem]

RECURSIVE Zero(_)
Zero(t) ==
  CASE t.kind \in {"pointer", "slice", "map"} -> Nil
    [] t.kind = "struct" -> [i \in DOMAIN t.fields |-> Zero(t.fields[i])]
    [] t.kind = "array" -> [i \in 1 .. t.len |-> Zero(t.elem)]
    [] t.kind = "external" -> Zero(t.elem)
    [] t.kind = "time" -> [sec |-> 0, nsec |-> 0, zone |-> <<>>]
    [] t.kind = "primitive" /\ t.name = "string" -> <<>>
    [] OTHER -> 0

----------------------------------------------------------------------------
(* MaxSize                                                                 *)

CountSizeForgotten == 0
CountSize == MaxVarintLen(Bits64)

RECURSIVE Size(_, _)
Size(t, v) ==
  LET parts == IF t.kind \in {"struct", "array", "slice", "map"} /\ v # Nil
               THEN LET ts == Parts(t, Len(v))
                    IN  FoldLeft(LAMBDA sum, i : sum + Size(ts[i], v[i]), 0, [i \in DOMAIN v |-> i])
               ELSE 0
  IN CASE t.kind = "primitive" /\ t.name = "string" -> CountSize + Len(v)
       [] t.kind = "primitive" /\ t.name \in OneByte -> 1
       [] t.kind = "primitive" /\ t.name # "string" /\ t.name \notin OneByte -> MaxVarintLen(Width(t.name))
       [] t.kind \in {"slice", "map"} -> CountSize + 1 + parts
       [] t.kind = "pointer" -> 1 + (IF v = Nil THEN 0 ELSE Size(t.elem, v))
       [] t.kind = "external" -> (IF t.pointer THEN 1 ELSE 0) + Size(t.elem, v)
       [] t.kind = "time" -> 16
       [] OTHER -> parts

----------------------------------------------------------------------------
(* EncodeTo                                                                *)

\* The bytes of a time, with a number in the place of each of the bytes that
\* spell it: version, seconds, nanoseconds, minutes east of UTC (-1 is UTC), and
\* the byte of the seconds of the zone, which have its sign.  A zone in the minute
\* west of UTC cannot be told from UTC.
Minutes(zone) == IF zone >= 0 THEN zone \div 60 ELSE -((-zone) \div 60)
PutTime(v) ==
  LET utc     == v.zone = <<>>
      minutes == IF utc THEN -1 ELSE Minutes(v.zone[1])
      seconds == IF utc THEN 0 ELSE v.zone[1] - 60 * minutes
  IN  IF ~utc /\ minutes = -1 THEN <<Error>>
      ELSE <<IF seconds = 0 THEN 1 ELSE 2>> \o [i \in 1 .. 8 |-> v.sec] \o [i \in 1 .. 4 |-> v.nsec]
             \o <<minutes, minutes, seconds % 256>>

RECURSIVE Put(_, _)
Put(t, v) ==
  LET parts == LET ts == Parts(t, Len(v)) IN FlattenSeq([i \in DOMAIN v |-> Put(ts[i], v[i])])
  IN CASE t.kind = "primitive" /\ t.name = "string" -> PutVarint(Len(v)) \o v
       [] t.kind = "primitive" /\ t.name \in OneByte -> <<v % 2^(G + 1)>>
       [] t.kind = "primitive" /\ t.name \in Signed -> PutVarint(v)
       [] t.kind = "primitive" /\ t.name \notin OneByte \cup Signed \cup {"string"} -> PutUvarint(v)
       [] t.kind \in {"slice", "map"} -> IF v = Nil THEN <<0>> ELSE <<1>> \o PutVarint(Len(v)) \o parts
       [] t.kind = "pointer" -> IF v = Nil THEN <<0>> ELSE <<1>> \o Put(t.elem, v)
       [] t.kind = "external" -> (IF t.pointer THEN <<1>> ELSE <<>>) \o Put(t.elem, v)
       [] t.kind = "time" -> PutTime(v)
       [] t.kind \in {"struct", "array"} -> parts
       [] OTHER -> <<>>

\* An error on the way is the error of the whole.
Encoded(t, v) == LET bytes == Put(t, v) IN IF Error \in {bytes[i] : i \in DOMAIN bytes} THEN Error ELSE bytes

----------------------------------------------------------------------------
(* Decode                                                                  *)

\* UnmarshalBinary is given 15 bytes of version 1, 16 of another.  It adds the byte of
\* the seconds without a sign, and takes a zone of -60 seconds for UTC.
GetTime(in, n) ==
  LET zone == 60 * in[n + 13] + (IF in[n] = 1 THEN 0 ELSE in[n + 15])
  IN  [sec |-> in[n + 1], nsec |-> in[n + 9], zone |-> IF zone = -60 THEN <<>> ELSE <<zone>>]
AsLongAsRead(in, n) == n + (IF in[n] = 1 THEN 15 ELSE 16)
AfterTime(in, n) == n + 16

\* m[k] = v.  Keys that are pointers are fresh ones, and equal to no other.
PutPair(t, m, pair) ==
  LET old == {i \in DOMAIN m : m[i][1] = pair[1]}
  IN  IF old = {} \/ (t.elem.fields[1].kind = "pointer" /\ pair[1] # Nil) THEN Append(m, pair)
      ELSE [i \in DOMAIN m |-> IF i \in old THEN pair ELSE m[i]]

\* The value at position n of the bytes and the position after it, decoded over
\* the value old; what follows a presence byte is decoded into fresh variables.
RECURSIVE Get(_, _, _, _)
Get(t, in, n, old) ==
  LET GetParts(ts, olds, start) ==
        FoldLeft(LAMBDA acc, i : LET g == Get(ts[i], in, acc[2], olds[i]) IN <<Append(acc[1], g[1]), g[2]>>,
                 <<<<>>, start>>, [i \in DOMAIN ts |-> i])
      Fresh(ts) == [i \in DOMAIN ts |-> Zero(ts[i])]
      Counted   == LET len == Varint(in, n + 1)
                       ts  == Parts(t, len[1])
                   IN  GetParts(ts, Fresh(ts), len[2])
  IN CASE t.kind = "primitive" /\ t.name = "string" ->
            LET len == Varint(in, n) IN <<SubSeq(in, len[2], len[2] + len[1] - 1), len[2] + len[1]>>
       [] t.kind = "primitive" /\ t.name = "int8" ->
            <<IF in[n] >= 2^G THEN in[n] - 2^(G + 1) ELSE in[n], n + 1>>
       [] t.kind = "primitive" /\ t.name \in OneByte \ {"int8"} -> <<in[n], n + 1>>
       [] t.kind = "primitive" /\ t.name \in Signed -> Varint(in, n)
       [] t.kind = "primitive" /\ t.name \notin OneByte \cup Signed \cup {"string"} -> Uvarint(in, n)
       [] t.kind = "slice" -> IF in[n] = 0 THEN <<Nil, n + 1>> ELSE Counted
       [] t.kind = "map" ->
            IF in[n] = 0 THEN <<Nil, n + 1>>
            ELSE LET read == Counted
                 IN  <<FoldLeft(LAMBDA m, pair : PutPair(t, m, pair), <<>>, read[1]), read[2]>>
       [] t.kind = "pointer" -> IF in[n] = 0 THEN <<Nil, n + 1>> ELSE Get(t.elem, in, n + 1, Zero(t.elem))
       [] t.kind = "external" -> Get(t.elem, in, n + (IF t.pointer THEN 1 ELSE 0), Zero(t.elem))
       [] t.kind = "time" -> <<GetTime(in, n), AfterTime(in, n)>>
       [] t.kind = "struct" -> GetParts(t.fields, old, n)
       [] t.kind = "array" -> LET ts == Parts(t, t.len) IN GetParts(ts, Fresh(ts), n)
       [] OTHER -> <<old, n>>

----------------------------------------------------------------------------
(* The methods of a type, with pointers or values for receivers            *)

Receiver(t, pointer) == IF pointer THEN PointerTo(t) ELSE t

MaxSize(t, pointer, v) == Size(Receiver(t, pointer), v)
Encode(t, pointer, v)  == Encoded(Receiver(t, pointer), v)

\* Decode fills the receiver old.  The bytes of a nil pointer leave it as it is.
Decode(t, pointer, in, old) ==
  CASE pointer /\ in[1] = 0 -> <<old, 2>>
    [] pointer /\ in[1] # 0 -> Get(t, in, 2, old)
    [] OTHER -> Get(t, in, 1, old)
=============================================================================
