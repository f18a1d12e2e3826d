------------------------------- MODULE Varint -------------------------------
(***************************************************************************)
(* encoding/binary, as far as the methods that encodegen generates use it: *)
(* the variable-length numbers.  A byte holds G bits of the number, and    *)
(* one bit more says whether another byte follows (G = 7 in the code, less *)
(* in the instances, with widths to match).                                *)
(***************************************************************************)
EXTENDS Integers, Sequences

CONSTANT G
ASSUME GAssumption == G \in Nat \ {0}

\* 2^n, and how many numbers a byte can hold beside the bit.
Power(n) == LET power[i \in 0 .. n] == IF i = 0 THEN 1 ELSE 2 * power[i - 1] IN power[n]
Group    == Power(G)

MaxVarintLen(bits) == (bits + G - 1) \div G

PutUvarint(x) ==
  LET put[y \in 0 .. x] == IF y < Group THEN <<y>> ELSE <<Group + (y % Group)>> \o put[y \div Group]
  IN  put[x]
ZigZag(x)    == IF x >= 0 THEN 2 * x ELSE -2 * x - 1
PutVarint(x) == PutUvarint(ZigZag(x))

\* The number at position n, and the position after it.  Bytes that end within a
\* number are read as 0, and none of them is used.
Uvarint(in, n) ==
  LET get[i \in 1 .. Len(in) + 1] ==
        IF i > Len(in) THEN <<0, 0>>
        ELSE IF in[i] < Group THEN <<in[i], i + 1>>
        ELSE LET rest == get[i + 1] IN <<in[i] - Group + Group * rest[1], rest[2]>>
      read == get[n]
  IN  IF read[2] = 0 THEN <<0, n>> ELSE read
Varint(in, n) ==
  LET u == Uvarint(in, n)
  IN  <<IF u[1] % 2 = 0 THEN u[1] \div 2 ELSE -((u[1] + 1) \div 2), u[2]>>
=============================================================================
