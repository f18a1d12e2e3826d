------------------------------ MODULE MCTools ------------------------------
(***************************************************************************)
(* The two tools run on small inputs: the generated methods of every       *)
(* example type, encoding a value and decoding the bytes over another, or  *)
(* setctx on every small package, twice.                                   *)
(***************************************************************************)
EXTENDS ExampleTypes, SetCtx

VARIABLES
  tool,    \* "encodegen" or "setctx"
  stage,   \* the steps encodegen has taken
  input,   \* what it works on
  output   \* what it has made of it

vars == <<tool, stage, input, output>>

----------------------------------------------------------------------------
(* Values: every part takes each of its values in turn, with the other     *)
(* parts at their longest or zero.                                         *)

\* Receivers also hold what the codec leaves out.
Numbers(name) ==
  CASE name = "bool" -> {0, 1}
    [] name \in {"uint8", "byte"} -> {0, 1, 2^(G + 1) - 1}
    [] name = "int8" -> {-(2^G), -1, 0, 2^G - 1}
    [] name \in Signed -> {-(2^(Width(name) - 1)), -1, 0, 1, 2^(Width(name) - 1) - 1}
    [] OTHER -> {0, 1, 2^G, 2^Width(name) - 1}

Highest(S) == CHOOSE x \in S : \A y \in S : y <= x

RECURSIVE Full(_)
Full(t) ==
  CASE t.kind = "primitive" /\ t.name = "string" -> <<1, 0, 7>>
    [] t.kind = "primitive" /\ t.name # "string" -> Highest(Numbers(t.name))
    [] t.kind \in {"pointer", "external"} -> Full(t.elem)
    [] t.kind = "slice" -> <<Full(t.elem), Zero(t.elem)>>
    [] t.kind = "map" -> <<Full(t.elem), Zero(t.elem)>>
    [] t.kind = "array" -> [i \in 1 .. t.len |-> Full(t.elem)]
    [] t.kind = "struct" -> [i \in DOMAIN t.fields |-> Full(t.fields[i])]
    [] t.kind = "time" -> [sec |-> 5, nsec |-> 9, zone |-> <<90>>]
    [] OTHER -> 1

\* Of whole minutes and not, on both sides of UTC and in the minute west of it, and the
\* one whose seconds make it UTC.
Zones == {<<>>} \cup {<<s>> : s \in {0, 540, 90, -60, -120, -150, -30, -316}}

RECURSIVE Values(_)
Values(t) ==
  CASE t.kind = "primitive" /\ t.name = "string" -> {<<>>, <<0>>, Full(t)}
    [] t.kind = "primitive" /\ t.name # "string" -> Numbers(t.name)
    [] t.kind = "pointer" -> {Nil} \cup Values(t.elem)
    [] t.kind = "external" -> Values(t.elem)
    [] t.kind \in {"slice", "map"} -> {Nil, <<>>, Full(t)} \cup {<<x>> : x \in Values(t.elem)}
    [] t.kind = "array" -> {[Full(t) EXCEPT ![1] = x] : x \in Values(t.elem)} \cup {Zero(t)}
    [] t.kind = "struct" ->
         UNION {{[Full(t) EXCEPT ![i] = x], [Zero(t) EXCEPT ![i] = x]} : <<i, x>> \in
           UNION {{i} \X Values(t.fields[i]) : i \in DOMAIN t.fields}}
    [] t.kind = "time" -> {[sec |-> 5, nsec |-> 9, zone |-> z] : z \in Zones}
    [] OTHER -> {0, 1}

\* Beside the examples: a declaration of two names, one that is not understood,
\* a struct without a field, keys that are pointers to the same.
Odd == {StructOf(Declare(2, GoInt) \o Declare(1, LeftOut) \o Declare(1, GoString)), StructOf(<<>>), SliceOf(LeftOut)}
SamePointers == <<MapOf(PointerTo(GoString), GoInt), << <<<<1>>, 2>>, <<<<1>>, 3>> >> >>

EncodegenInput(i) ==
  \/ \E m \in Methods(TRUE) \cup Methods(FALSE) \cup {[type |-> t, pointer |-> TRUE] : t \in Odd} :
       \E v \in Values(m.type), o \in {Zero(m.type), Full(m.type)} :
         i = [type |-> m.type, pointer |-> m.pointer, value |-> v, old |-> o]
  \/ \E m \in Methods(TRUE) : i = [type |-> m.type, pointer |-> TRUE, value |-> Nil, old |-> Full(m.type)]
  \/ i = [type |-> SamePointers[1], pointer |-> FALSE, value |-> SamePointers[2], old |-> Nil]

\* Packages of a main, with one call at most, and two functions with up to two, of
\* which a call of the database may have been converted already.
Bodies(f, ctx) ==
  LET calls == {c \in [to : {"f", "g"} \cup (IF f = "g" THEN {"Begin", "QueryContext"} ELSE {"Query"}), own : {FALSE, f = "main"},
                       arg : {"none", "known", "opaque"}] :
                  c.arg = "none" <=> c.to \in {"Query", "Begin"} \/ (c.to \in {"f", "g"} /\ ctx[c.to] = "none")}
  IN  {[ctx |-> ctx[f], calls |-> cs] : cs \in {{}} \cup
         (IF f = "main" THEN {{c} : c \in calls} ELSE {{c, d} : <<c, d>> \in calls \X calls})}
MCPackages ==
  UNION {{[main |-> b, f |-> c, g |-> d] : b \in Bodies("main", ctx), c \in Bodies("f", ctx), d \in Bodies("g", ctx)} :
           ctx \in {c \in [{"main", "f", "g"} -> {"none", "http.Request"}] : c.main = "none"}}
\* A package for when the other tool runs.
None == [f \in Funcs |-> [ctx |-> "none", calls |-> {}]]

----------------------------------------------------------------------------
MCInit ==
  /\ stage = 0 /\ output = <<>>
  /\ \/ tool = "encodegen" /\ read = None /\ SetCtxInit /\ EncodegenInput(input)
     \/ tool = "setctx" /\ SetCtxInit /\ input = <<>>

EncodeIt ==
  /\ tool = "encodegen" /\ stage = 0
  /\ output' = Encode(input.type, input.pointer, input.value)
  /\ stage' = 1
  /\ UNCHANGED <<tool, input, setCtxVars>>

\* The bytes of the next value follow.
DecodeIt ==
  /\ tool = "encodegen" /\ stage = 1 /\ output # Error
  /\ output' = [bytes |-> output, back |-> Decode(input.type, input.pointer, output \o <<1, 0>>, input.old)]
  /\ stage' = 2
  /\ UNCHANGED <<tool, input, setCtxVars>>

SetCtx == tool = "setctx" /\ SetCtxNext /\ UNCHANGED vars

MCNext == EncodeIt \/ DecodeIt \/ SetCtx

MCSpec == MCInit /\ [][MCNext]_<<vars, setCtxVars>>

----------------------------------------------------------------------------
\* Encode allocates MaxSize bytes and EncodeTo writes into them: it never runs
\* out of them, whatever the numbers, the lengths and what is nil.
MaxSizeSuffices ==
  tool = "encodegen" /\ stage = 1 /\ output # Error =>
    Len(output) <= MaxSize(input.type, input.pointer, input.value)

\* A zone with negative seconds comes back 256 seconds further east.
ZoneBack(zone) ==
  LET negative == zone # <<>> /\ zone[1] < 0 /\ zone[1] % 60 # 0
  IN  IF ~negative THEN zone ELSE IF zone[1] + 256 = -60 THEN <<>> ELSE <<zone[1] + 256>>

\* What a receiver holds once v is decoded over old: v, with the parts the code
\* leaves out as they were, or zero where they stand behind a fresh variable.
RECURSIVE Filled(_, _, _)
Filled(t, v, old) ==
  CASE t.kind = "left out" -> old
    [] t.kind = "time" -> [v EXCEPT !.zone = ZoneBack(@)]
    [] t.kind = "struct" -> [i \in DOMAIN t.fields |-> Filled(t.fields[i], v[i], old[i])]
    [] t.kind \in {"pointer", "slice", "map"} /\ v = Nil -> Nil
    [] t.kind \in {"pointer", "external"} /\ v # Nil -> Filled(t.elem, v, Zero(t.elem))
    [] t.kind \in {"slice", "map", "array"} /\ v # Nil -> [i \in DOMAIN v |-> Filled(t.elem, v[i], Zero(t.elem))]
    [] OTHER -> v

\* Decoding what was encoded gives the value back, nothing of what the receiver
\* held shows through, nil and empty are told apart, and exactly the bytes of
\* the value are read.  Only a nil pointer leaves the receiver alone, and only the
\* zone of a time may change: the seconds of one west of UTC lose their sign.
DecodesBack ==
  tool = "encodegen" /\ stage = 2 =>
    output.back = <<IF input.pointer /\ input.value = Nil THEN input.old
                    ELSE Filled(input.type, input.value, input.old), Len(output.bytes) + 1>>
=============================================================================
