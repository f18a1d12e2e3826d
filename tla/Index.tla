------------------------------- MODULE Index -------------------------------
(***************************************************************************)
(* library/index: the same items in several B-trees, each ordered by a     *)
(* condition of its own.  Every operation holds the lock from its first    *)
(* tree to its last, so it is one action here; MustInsert panics with the  *)
(* lock held, and nobody gets it any more.                                 *)
(*                                                                         *)
(* A condition orders the values by a key: Key[c][x] < Key[c][y] is its    *)
(* lessFunc.  A tree holds one value at most of every key.                 *)
(***************************************************************************)
EXTENDS Naturals, Sequences

CONSTANTS
  N,        \* the conditions are 1 .. N, the first is the primary one
  Values,   \* the values of type T
  Key,
  Name,     \* Name[c][x]: the string of x, for the conditions that order by strings first
  MaxByte   \* the last byte, 255 in the code

Conds == 1 .. N

ASSUME KeyAssumption == N \in Nat \ {0} /\ Key \in [Conds -> [Values -> Nat]]

\* Strings are sequences of bytes, and s < t as in Go.
ASSUME MaxByteAssumption == MaxByte \in Nat
Strings == Seq(0 .. MaxByte)
Before(s, t) ==
  \E i \in 1 .. Len(t) :
    /\ i <= Len(s) + 1 /\ (i <= Len(s) => s[i] < t[i])
    /\ \A j \in 1 .. i - 1 : s[j] = t[j]

ASSUME NameAssumption ==
  /\ DOMAIN Name \subseteq Conds
  /\ \A c \in DOMAIN Name :
       /\ Name[c] \in [Values -> Strings]
       /\ \A x, y \in Values : Before(Name[c][x], Name[c][y]) => Key[c][x] < Key[c][y]

VARIABLES
  trees,    \* trees[c]: the values in the tree of condition c
  held      \* whether a panic has left the lock held

vars == <<trees, held>>

Init == trees = [c \in Conds |-> {}] /\ held = FALSE

\* The B-tree: the value of the same key, the tree without it, the tree with x in
\* its place.
Same(c, x, y)      == Key[c][x] = Key[c][y]
Get(c, x)          == {y \in trees[c] : Same(c, x, y)}
Without(c, S, olds) == {y \in S : \A o \in olds : ~Same(c, o, y)}
With(c, S, x)      == Without(c, S, {x}) \cup {x}

\* What leaves the primary tree, olds, is what is deleted from the others.
SearchedAgain(x, olds) == IF olds = {} THEN {} ELSE {x}
Removed(x, olds) == olds

ReplaceOrInsert(x) ==
  /\ ~held
  /\ trees' = [c \in Conds |-> With(c, Without(c, trees[c], Removed(x, Get(1, x))), x)]
  /\ UNCHANGED held

Delete(x) ==
  /\ ~held
  /\ trees' = [c \in Conds |-> Without(c, trees[c], Removed(x, Get(1, x)))]
  /\ UNCHANGED held

\* Inserts tree by tree, and panics after the first in which it has replaced a
\* value.
Taken(x) == {c \in Conds : Get(c, x) # {}}
MustInsert(x) ==
  /\ ~held
  /\ trees' = [c \in Conds |-> IF \E d \in Taken(x) : d < c THEN trees[c] ELSE With(c, trees[c], x)]
  /\ held' = (Taken(x) # {})

Next == \E x \in Values : ReplaceOrInsert(x) \/ Delete(x) \/ MustInsert(x)

Spec == Init /\ [][Next]_vars

----------------------------------------------------------------------------
(* Searching                                                               *)

AscendRange(c, ge, lt) == {y \in trees[c] : Key[c][ge] <= Key[c][y] /\ Key[c][y] < Key[c][lt]}

\* Upper bounds of a range over strings.  The bound of a
\* prefix adds one to its last byte that is not MaxByte, and leaves the bytes
\* after it at 0; a prefix of nothing but MaxByte panics.
StringExactMatch(s) == Append(s, 0)
NotLast(s)          == {i \in DOMAIN s : s[i] # MaxByte}
Carried(s)          == CHOOSE i \in NotLast(s) : \A j \in NotLast(s) : j <= i
Kept(b)             == b
Afterwards(b)       == 0
StringPrefixMatch(s) ==
  [i \in DOMAIN s |-> IF i < Carried(s) THEN s[i] ELSE IF i = Carried(s) THEN s[i] + 1 ELSE Afterwards(s[i])]

----------------------------------------------------------------------------
TypeOK ==
  /\ trees \in [Conds -> SUBSET Values] /\ held \in BOOLEAN
  /\ \A c \in Conds : \A x, y \in trees[c] : Same(c, x, y) => x = y

\* No two values that the primary condition tells apart are the same to c.
Separates(c) == \A x, y \in Values : Same(c, x, y) => Same(1, x, y)

\* Whatever the conditions, none finds a value that was deleted or replaced:
\* one that mixes up values may lose some, but keeps none that is gone.
NoGhosts == ~held => \A c \in Conds : trees[c] \subseteq trees[1]

\* And only one that mixes up values the primary condition tells apart finds
\* fewer than the primary one.
NoneMissing == ~held => \A c \in Conds : trees[c] # trees[1] => ~Separates(c)

\* index.go:63-103: the others lose what left the primary tree.  As long as no
\* MustInsert has panicked, no condition finds what is gone, and those that tell
\* the items apart find them all.
TreesAgree == NoGhosts /\ NoneMissing

\* The ranges of names, from and to the first value of a name: those from a name to
\* its StringExactMatch, and those from a prefix to its StringPrefixMatch.
Foremost(c, x) == \A y \in Values : Name[c][y] = Name[c][x] => Key[c][x] <= Key[c][y]
Ranges ==
  {r \in {[cond |-> c, ge |-> x, lt |-> y] : c \in DOMAIN Name, x, y \in Values} :
     Foremost(r.cond, r.ge) /\ Foremost(r.cond, r.lt)}
From(r) == Name[r.cond][r.ge]
To(r)   == Name[r.cond][r.lt]
ExactRanges  == {r \in Ranges : To(r) = StringExactMatch(From(r))}
PrefixRanges == {r \in Ranges : NotLast(From(r)) # {} /\ To(r) = StringPrefixMatch(From(r))}

Begins(p, s) == Len(p) <= Len(s) /\ \A i \in DOMAIN p : p[i] = s[i]
Found(r)     == AscendRange(r.cond, r.ge, r.lt)
NameIn(r, y) == Name[r.cond][y]

\* index.go:156-172: the range from a name to its bound has the values of that name
\* alone; the one from a prefix has all whose name begins with it, and any other value
\* in it comes from a carry: its name is a beginning of the bound.
RangesFound ==
  /\ \A r \in ExactRanges : Found(r) = {y \in trees[r.cond] : NameIn(r, y) = From(r)}
  /\ \A r \in PrefixRanges :
       /\ {y \in trees[r.cond] : Begins(From(r), NameIn(r, y))} \subseteq Found(r)
       /\ \A y \in Found(r) :
            \/ Begins(From(r), NameIn(r, y))
            \/ From(r)[Len(From(r))] = MaxByte /\ Begins(NameIn(r, y), To(r))
=============================================================================
