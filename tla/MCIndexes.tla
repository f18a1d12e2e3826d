----------------------------- MODULE MCIndexes -----------------------------
(***************************************************************************)
(* The two stores of items: the index over small items that have a number, *)
(* a name and the length of the name, and the table in files.  A behaviour *)
(* is one of the index or one of the table.                                *)
(***************************************************************************)
EXTENDS Index, Mmap

VARIABLE part

\* Numbers 0 and 1, names of up to two bytes.
Names    == UNION {[1 .. n -> 0 .. MaxByte] : n \in 0 .. 2}
MCValues == {0, 1} \X Names
\* The place of a name in the order of strings.
Byte(s, i) == IF i \in DOMAIN s THEN s[i] ELSE 0
Rank(s)    == Len(s) + (MaxByte + 2) * Byte(s, 1) + Byte(s, 2)
ByName   == 2
MCKey ==
  << [x \in MCValues |-> x[1]],                   \* by number
     [x \in MCValues |-> 2 * Rank(x[2]) + x[1]],  \* by name, then number
     [x \in MCValues |-> Len(x[2])] >>            \* by length: mixes up values
MCName   == [c \in {ByName} |-> [x \in MCValues |-> x[2]]]
\* Key 11 is another key with the number 1.  In a table of three slots every probe of
\* -3 is the first slot, and the first of -4 is none.
MCKeys   == {-4, -3, 0, 1, 11}
MCNumber == [k \in MCKeys |-> IF k = 11 THEN 1 ELSE k]
MCPrimes == <<3, 5>>

MCInit == part \in {"index", "table"} /\ Init /\ MmapInit
MCNext ==
  /\ UNCHANGED part
  /\ \/ part = "index" /\ Next /\ UNCHANGED mmapVars
     \/ part = "table" /\ MmapNext /\ UNCHANGED vars
MCSpec == MCInit /\ [][MCNext]_<<part, vars, mmapVars>>
=============================================================================
