------------------------- MODULE IndexesProofs -------------------------
(***************************************************************************)
(* Proofs about the two stores of items: Index, for any conditions,        *)
(* values, orders and names; and Mmap, for any keys, numbers and primes,   *)
(* and any number of Saves.                                                *)
(***************************************************************************)
EXTENDS Index, Mmap, WellFoundedInduction, SequenceTheorems, FiniteSetTheorems, TLAPS

----------------------------------------------------------------------------
(* Index: the trees                                                        *)

\* Being the same to a condition is an equivalence.
LEMMA SameEquivalence ==
  ASSUME NEW c \in Conds, NEW x \in Values, NEW y \in Values, NEW z \in Values
  PROVE  /\ Same(c, x, x)
         /\ Same(c, x, y) => Same(c, y, x)
         /\ Same(c, x, y) /\ Same(c, y, z) => Same(c, x, z)
BY DEF Same

\* There is a primary condition.
LEMMA OneIsACondition == 1 \in Conds
BY KeyAssumption DEF Conds

\* What a tree keeps its type and its keys under: removing values, and putting one
\* in the place of the one of the same key.
Tree(c, S) == S \in SUBSET Values /\ \A x, y \in S : Same(c, x, y) => x = y

\* Removing values keeps it.
LEMMA WithoutTree ==
  ASSUME NEW c \in Conds, NEW S, Tree(c, S), NEW olds
  PROVE  Tree(c, Without(c, S, olds))
BY DEF Tree, Without

\* So does putting one in.
LEMMA WithTree ==
  ASSUME NEW c \in Conds, NEW S, Tree(c, S), NEW x \in Values
  PROVE  Tree(c, With(c, S, x))
BY SameEquivalence DEF Tree, With, Without

\* index.go:12: every tree is a set of values, of which no two have the same key.
THEOREM TypeCorrect == Spec => []TypeOK
<1>1. Init => TypeOK
  BY DEF Init, TypeOK
<1>2. TypeOK /\ [Next]_vars => TypeOK'
  <2> SUFFICES ASSUME TypeOK, [Next]_vars PROVE TypeOK'
    OBVIOUS
  <2>0. \A c \in Conds : Tree(c, trees[c])
    BY DEF TypeOK, Tree
  <2>1. ASSUME NEW x \in Values, ReplaceOrInsert(x) PROVE TypeOK'
    <3>1. \A c \in Conds : Tree(c, trees'[c])
      BY <2>0, <2>1, WithoutTree, WithTree DEF ReplaceOrInsert
    <3> QED BY <2>1, <3>1 DEF ReplaceOrInsert, TypeOK, Tree, Same
  <2>2. ASSUME NEW x \in Values, Delete(x) PROVE TypeOK'
    <3>1. \A c \in Conds : Tree(c, trees'[c])
      BY <2>0, <2>2, WithoutTree DEF Delete
    <3> QED BY <2>2, <3>1 DEF Delete, TypeOK, Tree, Same
  <2>3. ASSUME NEW x \in Values, MustInsert(x) PROVE TypeOK'
    <3>1. \A c \in Conds : Tree(c, trees'[c])
      BY <2>0, <2>3, WithTree DEF MustInsert
    <3> QED BY <2>3, <3>1 DEF MustInsert, TypeOK, Tree, Same
  <2>4. CASE UNCHANGED vars
    BY <2>4 DEF vars, TypeOK, Same
  <2> QED BY <2>1, <2>2, <2>3, <2>4 DEF Next
<1> QED BY <1>1, <1>2, PTL DEF Spec

----------------------------------------------------------------------------
\* An item leaves the primary tree only together with what the other trees hold of
\* it, and stays in it otherwise.
LEMMA NoGhostsStep == TypeOK /\ NoGhosts /\ [Next]_vars => NoGhosts'
<1> SUFFICES ASSUME TypeOK, NoGhosts, [Next]_vars, ~held',
                    NEW c \in Conds, NEW y \in trees'[c]
             PROVE  y \in trees'[1]
  BY DEF NoGhosts
<1> USE OneIsACondition
<1>1. ASSUME NEW x \in Values, ReplaceOrInsert(x) PROVE y \in trees'[1]
  <2>1. /\ trees'[c] = With(c, Without(c, trees[c], Get(1, x)), x)
        /\ trees'[1] = With(1, Without(1, trees[1], Get(1, x)), x)
        /\ ~held
    BY <1>1 DEF ReplaceOrInsert, Removed
  <2>2. CASE y = x
    BY <2>1, <2>2 DEF With
  <2>3. CASE y # x
    <3>1. y \in trees[c] /\ \A o \in Get(1, x) : ~Same(c, o, y)
      BY <2>1, <2>3 DEF With, Without
    <3>2. y \in trees[1] /\ y \in Values
      BY <2>1, <3>1 DEF NoGhosts, TypeOK
    <3>3. ~Same(1, x, y)
      BY <3>1, <3>2, SameEquivalence DEF Get
    <3>4. \A o \in Get(1, x) : o \in Values /\ Same(1, x, o)
      BY DEF Get, TypeOK
    <3>5. \A o \in Get(1, x) : ~Same(1, o, y)
      BY <3>2, <3>3, <3>4, SameEquivalence
    <3> QED BY <2>1, <3>2, <3>3, <3>5 DEF With, Without
  <2> QED BY <2>2, <2>3
<1>2. ASSUME NEW x \in Values, Delete(x) PROVE y \in trees'[1]
  <2>1. /\ trees'[c] = Without(c, trees[c], Get(1, x))
        /\ trees'[1] = Without(1, trees[1], Get(1, x))
        /\ ~held
    BY <1>2 DEF Delete, Removed
  <2>2. y \in trees[c] /\ \A o \in Get(1, x) : ~Same(c, o, y)
    BY <2>1 DEF Without
  <2>3. y \in trees[1] /\ y \in Values
    BY <2>1, <2>2 DEF NoGhosts, TypeOK
  <2>4. ~Same(1, x, y)
    BY <2>2, <2>3, SameEquivalence DEF Get
  <2>5. \A o \in Get(1, x) : o \in Values /\ Same(1, x, o)
    BY DEF Get, TypeOK
  <2>6. \A o \in Get(1, x) : ~Same(1, o, y)
    BY <2>3, <2>4, <2>5, SameEquivalence
  <2> QED BY <2>1, <2>3, <2>6 DEF Without
<1>3. ASSUME NEW x \in Values, MustInsert(x) PROVE y \in trees'[1]
  <2>1. ~held /\ Taken(x) = {}
    BY <1>3 DEF MustInsert
  <2>2. trees'[c] = With(c, trees[c], x) /\ trees'[1] = With(1, trees[1], x)
    BY <1>3, <2>1 DEF MustInsert
  <2>3. \A z \in trees[1] : ~Same(1, x, z)
    BY <2>1 DEF Taken, Get
  <2> QED BY <2>1, <2>2, <2>3 DEF With, Without, NoGhosts
<1>4. CASE UNCHANGED vars
  BY <1>4 DEF vars, NoGhosts
<1> QED BY <1>1, <1>2, <1>3, <1>4 DEF Next

\* index.go:68 and 97: whatever the conditions, none of them finds a value that was
\* deleted or replaced, as long as no MustInsert has panicked.
THEOREM NoGhostsHolds == Spec => []NoGhosts
<1>1. Init => NoGhosts
  BY DEF Init, NoGhosts
<1> QED BY <1>1, TypeCorrect, NoGhostsStep, PTL DEF Spec

----------------------------------------------------------------------------
\* What is not the same to the primary condition is not the same to one that
\* separates, so a tree of the latter loses no more than the primary one.
LEMMA NoneMissingStep == TypeOK /\ NoGhosts /\ NoneMissing /\ [Next]_vars => NoneMissing'
<1> SUFFICES ASSUME TypeOK, NoGhosts, NoneMissing, [Next]_vars, ~held',
                    NEW c \in Conds, Separates(c)
             PROVE  trees'[c] = trees'[1]
  BY DEF NoneMissing, Separates, Same
<1> USE OneIsACondition
<1>0. trees'[c] \subseteq trees'[1]
  BY NoGhostsStep DEF NoGhosts
<1>1. \A u \in Values, v \in Values : ~Same(1, u, v) => ~Same(c, u, v)
  BY DEF Separates
<1>2. ~held => trees[c] = trees[1] /\ trees[1] \subseteq Values
  BY DEF NoneMissing, TypeOK
<1>3. \A x : Get(1, x) \subseteq Values
  BY DEF Get, TypeOK
<1>4. ASSUME NEW x \in Values, ReplaceOrInsert(x) PROVE trees'[1] \subseteq trees'[c]
  <2>1. /\ trees'[c] = With(c, Without(c, trees[c], Get(1, x)), x)
        /\ trees'[1] = With(1, Without(1, trees[1], Get(1, x)), x)
        /\ ~held
    BY <1>4 DEF ReplaceOrInsert, Removed
  <2> QED BY <1>1, <1>2, <1>3, <2>1 DEF With, Without
<1>5. ASSUME NEW x \in Values, Delete(x) PROVE trees'[1] \subseteq trees'[c]
  <2>1. /\ trees'[c] = Without(c, trees[c], Get(1, x))
        /\ trees'[1] = Without(1, trees[1], Get(1, x))
        /\ ~held
    BY <1>5 DEF Delete, Removed
  <2> QED BY <1>1, <1>2, <1>3, <2>1 DEF Without
<1>6. ASSUME NEW x \in Values, MustInsert(x) PROVE trees'[1] \subseteq trees'[c]
  <2>1. ~held /\ Taken(x) = {}
    BY <1>6 DEF MustInsert
  <2>2. trees'[c] = With(c, trees[c], x) /\ trees'[1] = With(1, trees[1], x)
    BY <1>6, <2>1 DEF MustInsert
  <2> QED BY <1>1, <1>2, <2>1, <2>2 DEF With, Without
<1>7. CASE UNCHANGED vars
  BY <1>2, <1>7 DEF vars
<1> QED BY <1>0, <1>4, <1>5, <1>6, <1>7 DEF Next

\* index.go:63-103: as long as no MustInsert has panicked, no condition finds what
\* is gone, and those that tell the same items apart as the primary one find exactly
\* what it finds.
THEOREM TreesAgreeHolds == Spec => []TreesAgree
<1>1. Init => NoneMissing
  BY OneIsACondition DEF Init, NoneMissing
<1>2. NoGhosts /\ NoneMissing => TreesAgree
  BY DEF TreesAgree
<1> QED BY <1>1, <1>2, TypeCorrect, NoGhostsHolds, NoneMissingStep, PTL DEF Spec

----------------------------------------------------------------------------
(* Index: ranges of names                                                  *)

\* A set of natural numbers has a least one.
LEMMA LeastOfNaturals ==
  ASSUME NEW S, S \subseteq Nat, S # {}
  PROVE  \E i \in S : \A j \in S : i <= j
<1>1. PICK i \in S : \A j \in S : <<j, i>> \notin OpToRel(<, Nat)
  BY NatLessThanWellFounded, WFMin
<1>2. \A j \in S : ~(j < i)
  BY <1>1 DEF OpToRel
<1> QED
  BY <1>2

\* A string is so many bytes.
LEMMA BytesOf ==
  ASSUME NEW s \in Strings
  PROVE  Len(s) \in Nat /\ \A i \in 1 .. Len(s) : s[i] \in 0 .. MaxByte
BY ElementOfSeq, LenProperties DEF Strings

\* The order of strings is total: the first byte they differ in decides, or the length.
LEMMA BeforeTotal ==
  ASSUME NEW s \in Strings, NEW t \in Strings
  PROVE  s = t \/ Before(s, t) \/ Before(t, s)
<1> DEFINE n == Len(s)
           m == Len(t)
           Differ == {i \in Nat : i >= 1 /\ (i > n \/ i > m \/ s[i] # t[i])}
<1>1. n \in Nat /\ m \in Nat /\ \A i \in 1 .. n : s[i] \in 0 .. MaxByte
  BY BytesOf
<1>2. \A i \in 1 .. m : t[i] \in 0 .. MaxByte
  BY BytesOf
<1>3. n + 1 \in Differ /\ Differ \subseteq Nat
  BY <1>1
<1>4. PICK i \in Differ : \A j \in Differ : i <= j
  BY <1>3, LeastOfNaturals
<1>5. \A j \in 1 .. i - 1 : j <= n /\ j <= m /\ s[j] = t[j]
  <2> SUFFICES ASSUME NEW j \in 1 .. i - 1 PROVE j <= n /\ j <= m /\ s[j] = t[j]
    OBVIOUS
  <2>1. j \in Nat /\ j >= 1 /\ j < i
    BY <1>3
  <2>2. j \notin Differ
    BY <1>3, <1>4, <2>1
  <2> QED
    BY <1>1, <2>1, <2>2
<1>6. CASE i <= n /\ i <= m
  <2>1. s[i] < t[i] \/ t[i] < s[i]
    BY <1>1, <1>2, <1>6, MaxByteAssumption
  <2> QED
    BY <1>1, <1>5, <1>6, <2>1 DEF Before
<1>7. CASE i > n /\ i <= m
  BY <1>1, <1>5, <1>7 DEF Before
<1>8. CASE i <= n /\ i > m
  BY <1>1, <1>5, <1>8 DEF Before
<1>9. CASE i > n /\ i > m
  <2>1. n = m
    <3>1. n + 1 >= i /\ (n >= i - 1)
      BY <1>1, <1>4, <1>3
    <3>2. i = 1 \/ (i - 1 \in 1 .. i - 1)
      BY <1>3
    <3> QED
      BY <1>1, <1>3, <1>5, <1>9, <3>1, <3>2
  <2>2. \A j \in 1 .. n : s[j] = t[j]
    BY <1>1, <1>3, <1>5, <1>9
  <2> QED
    BY <2>1, <2>2, SeqEqual DEF Strings
<1> QED
  BY <1>1, <1>3, <1>6, <1>7, <1>8, <1>9

\* What StringExactMatch makes: from a name to its bound there is nothing but the name.
LEMMA ExactRange ==
  ASSUME NEW p \in Strings, NEW t \in Strings, NEW b \in Strings, b = StringExactMatch(p)
  PROVE  /\ Before(p, b)
         /\ ~Before(t, p) /\ ~Before(b, t) /\ t # b => t = p
<1>1. /\ Len(p) \in Nat /\ Len(b) = Len(p) + 1 /\ b[Len(p) + 1] = 0
      /\ \A i \in 1 .. Len(p) : b[i] = p[i]
  BY AppendProperties, LenProperties DEF StringExactMatch, Strings
<1>2. Len(t) \in Nat /\ \A i \in 1 .. Len(t) : t[i] \in Nat
  BY BytesOf, MaxByteAssumption
<1>3. \A i \in 1 .. Len(p) : p[i] \in Nat
  BY BytesOf, MaxByteAssumption
<1>4. Before(p, b)
  BY <1>1 DEF Before
<1>5. ASSUME ~Before(t, p), Before(t, b), t # p PROVE FALSE
  <2>1. Before(p, t)
    BY <1>5, BeforeTotal
  <2>2. PICK i \in 1 .. Len(t) : /\ i <= Len(p) + 1 /\ (i <= Len(p) => p[i] < t[i])
                                 /\ \A j \in 1 .. i - 1 : p[j] = t[j]
    BY <2>1 DEF Before
  <2>3. PICK j \in 1 .. Len(b) : /\ j <= Len(t) + 1 /\ (j <= Len(t) => t[j] < b[j])
                                 /\ \A k \in 1 .. j - 1 : t[k] = b[k]
    BY <1>5 DEF Before
  <2>4. CASE j < i
    BY <1>1, <1>2, <2>2, <2>3, <2>4
  <2>5. CASE j = i
    BY <1>1, <1>2, <1>3, <2>2, <2>3, <2>5
  <2>6. CASE j > i
    BY <1>1, <1>2, <1>3, <2>2, <2>3, <2>6
  <2> QED
    BY <1>1, <1>2, <2>4, <2>5, <2>6
<1> QED
  BY <1>4, <1>5, BeforeTotal

\* The byte that StringPrefixMatch adds one to is the last that is not MaxByte.
LEMMA CarriedIsLast ==
  ASSUME NEW p \in Strings, NotLast(p) # {}
  PROVE  /\ Carried(p) \in 1 .. Len(p) /\ p[Carried(p)] < MaxByte
         /\ \A i \in 1 .. Len(p) : i > Carried(p) => p[i] = MaxByte
<1> DEFINE FromEnd == {Len(p) - i : i \in NotLast(p)}
<1>1. Len(p) \in Nat /\ \A i \in 1 .. Len(p) : p[i] \in 0 .. MaxByte
  BY BytesOf
<1>2. NotLast(p) = {i \in 1 .. Len(p) : p[i] # MaxByte}
  BY LenProperties DEF NotLast, Strings
<1>3. FromEnd \subseteq Nat /\ FromEnd # {}
  BY <1>1, <1>2
<1>4. PICK m \in FromEnd : \A j \in FromEnd : m <= j
  BY <1>3, LeastOfNaturals
<1>5. PICK i \in NotLast(p) : m = Len(p) - i
  BY <1>4
<1>6. \A j \in NotLast(p) : j <= i
  <2> SUFFICES ASSUME NEW j \in NotLast(p) PROVE j <= i
    OBVIOUS
  <2>1. Len(p) - j \in FromEnd
    OBVIOUS
  <2>2. Len(p) - i <= Len(p) - j
    BY <1>4, <1>5, <2>1
  <2>3. i \in Nat /\ j \in Nat
    BY <1>2
  <2> QED
    BY <1>1, <2>2, <2>3
<1>7. Carried(p) \in NotLast(p) /\ \A j \in NotLast(p) : j <= Carried(p)
  BY <1>6 DEF Carried
<1> HIDE DEF FromEnd
<1>8. Carried(p) \in 1 .. Len(p) /\ p[Carried(p)] # MaxByte
  BY <1>2, <1>7
<1>9. \A j \in 1 .. Len(p) : j > Carried(p) => p[j] = MaxByte
  BY <1>1, <1>2, <1>7, <1>8
<1> QED
  BY <1>1, <1>8, <1>9, MaxByteAssumption

\* What StringPrefixMatch makes: from a prefix to its bound there is all that begins with
\* it, and if the bound has bytes after the one added to, beginnings of the bound.
LEMMA PrefixRange ==
  ASSUME NEW p \in Strings, NEW t \in Strings, NEW b \in Strings,
         NotLast(p) # {}, b = StringPrefixMatch(p)
  PROVE  /\ Begins(p, t) => (t = p \/ Before(p, t)) /\ Before(t, b)
         /\ ~Before(t, p) /\ ~Before(b, t) /\ t # b =>
              Begins(p, t) \/ (p[Len(p)] = MaxByte /\ Begins(t, b))
<1> DEFINE k == Carried(p)
<1>1. /\ Len(p) \in Nat /\ Len(b) = Len(p) /\ DOMAIN p = 1 .. Len(p)
      /\ k \in 1 .. Len(p) /\ p[k] \in Nat /\ b[k] = p[k] + 1
      /\ \A i \in 1 .. Len(p) : /\ i < k => b[i] = p[i]
                                /\ i > k => b[i] = 0 /\ p[i] = MaxByte
  <2>1. /\ k \in 1 .. Len(p)
        /\ \A i \in 1 .. Len(p) : i > k => p[i] = MaxByte
    BY CarriedIsLast
  <2>2. /\ Len(p) \in Nat /\ DOMAIN p = 1 .. Len(p) /\ DOMAIN b = 1 .. Len(b) /\ Len(b) \in Nat
    BY LenProperties DEF Strings
  <2>3. b = [i \in DOMAIN p |-> IF i < k THEN p[i] ELSE IF i = k THEN p[i] + 1 ELSE 0]
    BY DEF StringPrefixMatch, Afterwards
  <2>4. p[k] \in Nat
    BY <2>1, BytesOf, MaxByteAssumption
  <2> HIDE DEF k
  <2>5. Len(b) = Len(p)
    BY <2>2, <2>3
  <2>6. /\ b[k] = p[k] + 1
        /\ \A i \in 1 .. Len(p) : (i < k => b[i] = p[i]) /\ (i > k => b[i] = 0)
    BY <2>1, <2>2, <2>3
  <2> QED
    BY <2>1, <2>2, <2>4, <2>5, <2>6
<1> HIDE DEF k
<1>2. Len(t) \in Nat /\ DOMAIN t = 1 .. Len(t) /\ \A i \in 1 .. Len(t) : t[i] \in 0 .. MaxByte
  BY BytesOf, LenProperties DEF Strings
<1>3. \A i \in 1 .. Len(p) : p[i] \in 0 .. MaxByte
  BY BytesOf
<1>4. ASSUME Begins(p, t) PROVE (t = p \/ Before(p, t)) /\ Before(t, b)
  <2>1. Len(p) <= Len(t) /\ \A i \in 1 .. Len(p) : p[i] = t[i]
    BY <1>1, <1>4 DEF Begins
  <2>2. Len(p) = Len(t) => p = t
    BY <2>1, SeqEqual DEF Strings
  <2>3. Len(p) < Len(t) => Before(p, t)
    <3> DEFINE i == Len(p) + 1
    <3>1. Len(p) < Len(t) => i \in 1 .. Len(t)
      BY <1>1, <1>2
    <3>2. i <= Len(p) + 1 /\ ~(i <= Len(p)) /\ \A j \in 1 .. i - 1 : p[j] = t[j]
      BY <1>1, <2>1
    <3> QED
      BY <3>1, <3>2 DEF Before
  <2>4. Before(t, b)
    <3>1. k \in 1 .. Len(b) /\ k <= Len(t) + 1 /\ t[k] < b[k]
      BY <1>1, <1>2, <2>1
    <3>2. \A j \in 1 .. k - 1 : t[j] = b[j]
      BY <1>1, <2>1
    <3> QED
      BY <3>1, <3>2 DEF Before
  <2> QED
    BY <1>1, <1>2, <2>1, <2>2, <2>3, <2>4
<1>5. ASSUME ~Before(t, p), Before(t, b), ~Begins(p, t)
      PROVE  p[Len(p)] = MaxByte /\ Begins(t, b)
  <2>1. Before(p, t)
    <3>1. t # p
      BY <1>1, <1>5 DEF Begins
    <3> QED
      BY <1>5, <3>1, BeforeTotal
  <2>2. PICK i \in 1 .. Len(t) : /\ i <= Len(p) + 1 /\ (i <= Len(p) => p[i] < t[i])
                                 /\ \A j \in 1 .. i - 1 : p[j] = t[j]
    BY <2>1 DEF Before
  <2>3. i <= Len(p)
    <3>1. i > Len(p) => Begins(p, t)
      BY <1>1, <1>2, <2>2 DEF Begins
    <3> QED
      BY <1>1, <1>5, <2>2, <3>1
  <2>4. i <= k
    BY <1>1, <1>2, <2>2, <2>3, MaxByteAssumption
  <2>5. PICK j \in 1 .. Len(b) : /\ j <= Len(t) + 1 /\ (j <= Len(t) => t[j] < b[j])
                                 /\ \A n \in 1 .. j - 1 : t[n] = b[n]
    BY <1>5 DEF Before
  <2>6. j > Len(t)
    <3> SUFFICES ASSUME j <= Len(t) PROVE FALSE
      BY <1>1, <1>2, <2>5
    <3>1. CASE j < i
      BY <1>1, <1>2, <2>2, <2>4, <2>5, <3>1
    <3>2. CASE j = i
      BY <1>1, <1>2, <1>3, <2>2, <2>3, <2>4, <2>5, <3>2, MaxByteAssumption
    <3>3. CASE j > i
      <4>1. t[i] = b[i]
        BY <1>1, <2>2, <2>5, <3>3
      <4>2. i = k
        BY <1>1, <1>3, <2>2, <2>3, <2>4, <4>1, MaxByteAssumption
      <4>3. b[j] = 0
        BY <1>1, <2>5, <3>3, <4>2
      <4> QED
        BY <1>2, <2>5, <4>3, MaxByteAssumption
    <3> QED
      BY <1>1, <1>2, <2>2, <2>5, <3>1, <3>2, <3>3
  <2>7. Len(t) < Len(p) /\ \A n \in 1 .. Len(t) : t[n] = b[n]
    BY <1>1, <1>2, <2>5, <2>6
  <2>8. i = k
    BY <1>1, <1>3, <2>2, <2>3, <2>4, <2>7, MaxByteAssumption
  <2>9. Len(p) > k
    BY <1>1, <1>2, <2>2, <2>7, <2>8
  <2> QED
    BY <1>1, <1>2, <2>7, <2>9 DEF Begins
<1> QED
  BY <1>4, <1>5, BeforeTotal

\* index.go:111-172: for any names and conditions that order by them, the range from a
\* name to its StringExactMatch has the values of that name, and the one from a prefix to
\* its StringPrefixMatch all those whose names begin with it, and else only what a carry
\* over the last byte lets in.
THEOREM RangesFoundHolds == Spec => []RangesFound
<1>1. TypeOK => RangesFound
  <2> SUFFICES ASSUME TypeOK PROVE RangesFound
    OBVIOUS
  <2>1. ASSUME NEW r \in Ranges, NEW y \in trees[r.cond]
        PROVE  /\ From(r) \in Strings /\ To(r) \in Strings /\ NameIn(r, y) \in Strings
               /\ y \in Found(r) => ~Before(NameIn(r, y), From(r)) /\ ~Before(To(r), NameIn(r, y))
                                    /\ NameIn(r, y) # To(r)
               /\ (NameIn(r, y) = From(r) \/ Before(From(r), NameIn(r, y))) /\ Before(NameIn(r, y), To(r))
                    => y \in Found(r)
    <3>1. PICK c \in DOMAIN Name, ge \in Values, lt \in Values : r = [cond |-> c, ge |-> ge, lt |-> lt]
      BY <2>1 DEF Ranges
    <3>2. Foremost(c, ge) /\ Foremost(c, lt)
      BY <2>1, <3>1 DEF Ranges
    <3>3. c \in Conds /\ y \in Values /\ y \in trees[c]
      BY <2>1, <3>1, NameAssumption DEF TypeOK
    <3>4. Key[c][ge] \in Nat /\ Key[c][lt] \in Nat /\ Key[c][y] \in Nat
      BY <3>1, <3>3, KeyAssumption
    <3>5. Name[c] \in [Values -> Strings]
      BY <3>1, NameAssumption
    <3>6. \A x, z \in Values : Before(Name[c][x], Name[c][z]) => Key[c][x] < Key[c][z]
      BY <3>1, NameAssumption
    <3>7. From(r) = Name[c][ge] /\ To(r) = Name[c][lt] /\ NameIn(r, y) = Name[c][y]
      BY <3>1 DEF From, To, NameIn
    <3>8. y \in Found(r) <=> Key[c][ge] <= Key[c][y] /\ Key[c][y] < Key[c][lt]
      BY <3>1, <3>3 DEF Found, AscendRange
    <3>9. y \in Found(r) => ~Before(Name[c][y], Name[c][ge]) /\ ~Before(Name[c][lt], Name[c][y])
      BY <3>1, <3>3, <3>4, <3>6, <3>8
    <3>10. y \in Found(r) => Name[c][y] # Name[c][lt]
      BY <3>2, <3>3, <3>4, <3>8 DEF Foremost
    <3>11. Name[c][y] = Name[c][ge] \/ Before(Name[c][ge], Name[c][y]) => Key[c][ge] <= Key[c][y]
      BY <3>1, <3>2, <3>3, <3>4, <3>6 DEF Foremost
    <3>12. Before(Name[c][y], Name[c][lt]) => Key[c][y] < Key[c][lt]
      BY <3>1, <3>3, <3>6
    <3> QED
      BY <3>1, <3>3, <3>5, <3>7, <3>8, <3>9, <3>10, <3>11, <3>12
  <2>2. ASSUME NEW r \in Ranges PROVE Found(r) \subseteq trees[r.cond]
    BY DEF Found, AscendRange
  <2>3. ASSUME NEW r \in ExactRanges PROVE Found(r) = {y \in trees[r.cond] : NameIn(r, y) = From(r)}
    <3>1. r \in Ranges /\ To(r) = StringExactMatch(From(r))
      BY <2>3 DEF ExactRanges
    <3>2. ASSUME NEW y \in trees[r.cond] PROVE y \in Found(r) <=> NameIn(r, y) = From(r)
      BY <2>1, <3>1, ExactRange
    <3> QED
      BY <2>2, <3>1, <3>2
  <2>4. ASSUME NEW r \in PrefixRanges
        PROVE  /\ {y \in trees[r.cond] : Begins(From(r), NameIn(r, y))} \subseteq Found(r)
               /\ \A y \in Found(r) : \/ Begins(From(r), NameIn(r, y))
                                      \/ (From(r)[Len(From(r))] = MaxByte /\ Begins(NameIn(r, y), To(r)))
    <3>1. r \in Ranges /\ NotLast(From(r)) # {} /\ To(r) = StringPrefixMatch(From(r))
      BY <2>4 DEF PrefixRanges
    <3>2. ASSUME NEW y \in trees[r.cond], Begins(From(r), NameIn(r, y)) PROVE y \in Found(r)
      BY <2>1, <3>1, <3>2, PrefixRange
    <3>3. ASSUME NEW y \in Found(r)
          PROVE  \/ Begins(From(r), NameIn(r, y))
                 \/ (From(r)[Len(From(r))] = MaxByte /\ Begins(NameIn(r, y), To(r)))
      BY <2>1, <2>2, <3>1, <3>3, PrefixRange
    <3> QED
      BY <3>2, <3>3
  <2> QED
    BY <2>3, <2>4 DEF RangesFound
<1> QED
  BY <1>1, TypeCorrect, PTL

----------------------------------------------------------------------------
(* Mmap: numbers of slots                                                  *)

\* Whatever the number of items, New has chosen one of the primes.
LEMMA CalcModProper == IsPrime(calcMod(MaxItemCount))
<1> DEFINE AtLeast(m) == {i \in DOMAIN Primes : m <= Primes[i]}
           Least(S)   == Primes[CHOOSE i \in S : \A j \in S : i <= j]
<1>1. ASSUME NEW S \in SUBSET DOMAIN Primes, S # {} PROVE IsPrime(Least(S))
  <2>1. S \subseteq Nat
    BY PrimesAssumption
  <2>2. \E i \in S : \A j \in S : i <= j
    BY <1>1, <2>1, LeastOfNaturals
  <2>3. (CHOOSE i \in S : \A j \in S : i <= j) \in S
    BY <2>2
  <2> QED
    BY <2>3, PrimesAssumption
<1>2. AtLeast(MaxItemCount) # {}
  BY PrimesAssumption
<1>3. \A m : AtLeast(m) \in SUBSET DOMAIN Primes
  OBVIOUS
<1>4. calcMod(MaxItemCount) = IF AtLeast((MaxItemCount * 5) \div 4) # {} THEN Least(AtLeast((MaxItemCount * 5) \div 4)) ELSE Least(AtLeast(MaxItemCount))
  BY DEF calcMod
<1> HIDE DEF AtLeast, Least
<1> QED
  BY <1>1, <1>2, <1>3, <1>4

\* Go's remainder is less than the divisor, and not negative if the number is not.
LEMMA RemBound ==
  ASSUME NEW x \in Int, NEW m \in Nat \ {0}
  PROVE  Rem(x, m) \in Int /\ Rem(x, m) < m /\ (x >= 0 => Rem(x, m) >= 0)
<1>1. x % m \in 0 .. m - 1 /\ (-x) % m \in 0 .. m - 1
  OBVIOUS
<1> QED
  BY <1>1 DEF Rem

\* Division with remainder.
LEMMA Residue ==
  ASSUME NEW x \in Int, NEW m \in Nat \ {0}
  PROVE  x % m \in 0 .. m - 1 /\ x = m * (x \div m) + (x % m) /\ x \div m \in Int
  OBVIOUS

\* A prime divides no product of two smaller numbers: of the numbers of which b
\* times is divisible by p, the least one would have p leave a smaller one.
Divides(p, x) == \E q \in Int : x = q * p

\* A prime that divides neither of two numbers does not divide their product.
LEMMA Euclid ==
  ASSUME NEW p, IsPrime(p), NEW a \in 1 .. p - 1, NEW b \in 1 .. p - 1
  PROVE  ~Divides(p, a * b)
<1> DEFINE T == {c \in 1 .. p - 1 : Divides(p, c * b)}
<1> SUFFICES ASSUME T # {} PROVE FALSE
  OBVIOUS
<1>0. p \in Nat \ {0, 1}
  BY DEF IsPrime
<1>1. PICK c \in T : \A d \in T : c <= d
  <2>1. T \subseteq Nat
    BY <1>0
  <2> QED
    BY <2>1, LeastOfNaturals
<1>2. c \in 1 .. p - 1 /\ Divides(p, c * b)
  BY <1>1
<1>3. PICK m \in Int : c * b = m * p
  BY <1>2 DEF Divides
<1>4. c # 1
  <2> SUFFICES ASSUME c = 1 PROVE FALSE
    OBVIOUS
  <2>1. b = m * p
    BY <1>3
  <2>2. m >= 1
    <3> SUFFICES ASSUME m <= 0 PROVE FALSE
      BY <1>3
    <3>1. m * p <= 0
      BY <1>0
    <3> QED
      BY <2>1, <3>1
  <2>3. m * p >= p
    BY <1>0, <2>2
  <2> QED
    BY <1>0, <2>1, <2>3
<1> DEFINE q == p \div c
           r == p % c
<1>5. q \in Int /\ r \in 0 .. c - 1 /\ p = c * q + r
  <2>1. p \in Int /\ c \in Nat \ {0}
    BY <1>0, <1>2
  <2> QED
    BY <2>1, Residue
<1>6. r # 0
  <2>1. c \in 2 .. p - 1
    BY <1>0, <1>2, <1>4
  <2> QED
    BY <2>1 DEF IsPrime
<1> HIDE DEF q, r
<1>7. r * b = (b - q * m) * p
  <2>1. b \in Int /\ c \in Int /\ p \in Int /\ r \in Int /\ r = p - c * q
    BY <1>0, <1>2, <1>5
  <2>2. r * b = p * b - (c * q) * b
    BY <1>5, <2>1
  <2>3. (c * q) * b = q * (c * b)
    BY <1>5, <2>1
  <2>4. q * (m * p) = (q * m) * p
    BY <1>3, <1>5, <2>1
  <2>5. r * b = p * b - (q * m) * p
    BY <1>3, <2>2, <2>3, <2>4
  <2> QED
    BY <1>3, <1>5, <2>1, <2>5
<1>8. r \in T
  <2>1. Divides(p, r * b)
    <3>1. b - q * m \in Int
      BY <1>3, <1>5
    <3> QED
      BY <1>7, <3>1 DEF Divides
  <2>2. r \in 1 .. p - 1
    BY <1>0, <1>2, <1>5, <1>6
  <2> QED
    BY <2>1, <2>2
<1>9. r < c
  BY <1>2, <1>5
<1> QED
  BY <1>1, <1>2, <1>5, <1>8, <1>9

\* Two numbers less than p apart have different multiples modulo p.
LEMMA Distinct ==
  ASSUME NEW p, IsPrime(p), NEW h \in Int, NEW b \in 1 .. p - 1,
         NEW i \in 0 .. p - 1, NEW j \in 0 .. p - 1, i < j
  PROVE  (h + i * b) % p # (h + j * b) % p
<1> SUFFICES ASSUME (h + i * b) % p = (h + j * b) % p PROVE FALSE
  OBVIOUS
<1>0. p \in Nat \ {0} /\ b \in Int /\ i \in Int /\ j \in Int
  BY DEF IsPrime
<1> DEFINE x == h + i * b
           y == h + j * b
           u == x \div p
           v == y \div p
<1>1. x \in Int /\ y \in Int
  BY <1>0
<1>2. y - x = (j - i) * b
  BY <1>0
<1> HIDE DEF x, y
<1>3. u \in Int /\ v \in Int /\ x = p * u + (x % p) /\ y = p * v + (y % p) /\ x % p \in Int /\ x % p = y % p
  <2>1. /\ x = p * (x \div p) + (x % p) /\ x \div p \in Int /\ x % p \in 0 .. p - 1
        /\ y = p * (y \div p) + (y % p) /\ y \div p \in Int
    BY <1>0, <1>1, Residue
  <2>2. x % p = y % p
    BY DEF x, y
  <2> QED
    BY <1>0, <2>1, <2>2
<1> HIDE DEF u, v
<1>4. y - x = (v - u) * p
  <2> DEFINE r == x % p
  <2>1. x = p * u + r /\ y = p * v + r /\ r \in Int
    BY <1>3, Zenon
  <2> HIDE DEF r
  <2>2. y - x = p * v - p * u
    BY <1>0, <1>1, <1>3, <2>1
  <2> QED
    BY <1>0, <1>3, <2>2
<1>5. Divides(p, (j - i) * b)
  <2>1. v - u \in Int
    BY <1>3
  <2> QED
    BY <1>2, <1>4, <2>1 DEF Divides
<1>6. j - i \in 1 .. p - 1
  BY <1>0
<1> QED
  BY <1>5, <1>6, Euclid

----------------------------------------------------------------------------
(* Mmap: what is in memory and on disk                                     *)

\* No slot points past n cells of data.
Within(f, n) == \A i \in DOMAIN f : f[i].to <= n

Slot == [from : Nat, to : Nat]
Cell == Keys \cup Nat

\* While Save works in memory the index is empty, it is written only when the data
\* is, and what it has in memory is never behind its slots.
SaveTypeOK ==
  /\ pc \in {"idle", "create", "fill", "write data", "write index"}
  /\ mod \in Nat \ {0, 1} /\ saves \in Nat
  /\ index \in Seq(Slot) /\ data \in Seq(Cell)
  /\ buf \in Seq(Cell) /\ slots \in [1 .. mod -> Slot]

SaveInv ==
  /\ SaveTypeOK
  /\ pc \in {"create", "fill", "write data"} => index = <<>>
  /\ pc \in {"fill", "write data", "write index"} => Within(slots, Len(buf))
  /\ pc = "write index" => data = buf
  /\ IndexWithinData

\* A value encoded is a sequence that is not empty.
LEMMA ValueProperties ==
  ASSUME NEW k \in Keys, NEW s \in Nat
  PROVE  Value(k, s) \in Seq(Cell) /\ Len(Value(k, s)) > 0
<1>1. k \in Cell /\ s \in Cell /\ 0 \in Cell
  BY DEF Cell
<1>2. /\ <<k, s>> \in Seq(Cell) /\ Len(<<k, s>>) > 0
      /\ <<k, s, 0>> \in Seq(Cell) /\ Len(<<k, s, 0>>) > 0
  BY <1>1
<1>3. Value(k, s) = <<k, s>> \/ Value(k, s) = <<k, s, 0>>
  BY Zenon DEF Value
<1> QED
  BY <1>2, <1>3

\* An entry is a sequence of cells.
LEMMA EntryLength ==
  ASSUME NEW k \in Keys, NEW s \in Nat
  PROVE  <<k>> \o Value(k, s) \in Seq(Cell)
<1>1. k \in Cell
  BY DEF Cell
<1> QED
  BY <1>1, ValueProperties

\* At first there are no files.
LEMMA SaveInvInit == MmapInit => SaveInv
<1> SUFFICES ASSUME MmapInit PROVE SaveInv
  OBVIOUS
<1>1. Empty \in Slot
  BY DEF Empty, Slot
<1>2. mod \in Nat \ {0, 1}
  BY CalcModProper DEF MmapInit, IsPrime
<1> QED BY <1>1, <1>2 DEF MmapInit, SaveInv, SaveTypeOK, Within, IndexWithinData

\* store puts an entry at the end of the buffer.
LEMMA FillKeeps == ASSUME SaveInv, NEW k \in Keys, Fill(k) PROVE SaveInv'
<1> DEFINE entry == <<k>> \o Value(k, saves)
<1>1. entry \in Seq(Cell)
  BY EntryLength DEF SaveInv, SaveTypeOK
<1>2. /\ pc = "fill" /\ index = <<>> /\ UNCHANGED <<mod, index, data, saves>>
  BY DEF Fill, SaveInv, SaveTypeOK
<1> SUFFICES /\ pc' \in {"idle", "fill"}
             /\ buf' \in Seq(Cell) /\ slots' \in [1 .. mod -> Slot]
             /\ Within(slots', Len(buf'))
  BY <1>2 DEF SaveInv, SaveTypeOK, IndexWithinData, Within
<1>3. CASE Search(k) = "stored"
  <2>1. buf' = buf \o entry /\ pc' = pc
    BY <1>3 DEF Fill
  <2>2. PICK n : slots' = [slots EXCEPT ![n] = [from |-> Len(buf), to |-> Len(buf) + Len(entry)]]
    BY <1>3 DEF Fill
  <2>3. Len(buf) \in Nat /\ Len(entry) \in Nat /\ Len(buf') = Len(buf) + Len(entry) /\ buf' \in Seq(Cell)
    <3>1. buf \in Seq(Cell)
      BY DEF SaveInv, SaveTypeOK
    <3>2. buf \o entry \in Seq(Cell) /\ Len(buf \o entry) = Len(buf) + Len(entry)
      BY <1>1, <3>1
    <3> QED BY <1>1, <2>1, <3>1, <3>2
  <2>4. [from |-> Len(buf), to |-> Len(buf) + Len(entry)] \in Slot
    BY <2>3 DEF Slot
  <2>5. slots' \in [1 .. mod -> Slot]
    BY <2>2, <2>4 DEF SaveInv, SaveTypeOK
  <2>6. \A i \in 1 .. mod : slots'[i].to <= Len(buf')
    <3> SUFFICES ASSUME NEW i \in 1 .. mod PROVE slots'[i].to <= Len(buf')
      OBVIOUS
    <3>1. slots \in [1 .. mod -> Slot] /\ slots[i].to \in Nat /\ slots[i].to <= Len(buf)
      BY <1>2 DEF SaveInv, SaveTypeOK, Within, Slot
    <3>2. CASE i = n
      BY <2>2, <2>3, <3>1, <3>2
    <3>3. CASE i # n
      BY <2>2, <2>3, <3>1, <3>3
    <3> QED BY <3>2, <3>3
  <2> QED BY <1>2, <2>1, <2>3, <2>5, <2>6 DEF Within
<1>4. CASE Search(k) # "stored"
  BY <1>2, <1>4 DEF Fill, SaveInv, SaveTypeOK, Within
<1> QED BY <1>3, <1>4

\* Slots are written once the data is.
LEMMA WriteIndexKeeps == ASSUME SaveInv, WriteIndex PROVE SaveInv'
<1>1. PICK n \in Len(index) + 1 .. mod : index' = SubSeq(slots, 1, n) /\ pc' = IF n = mod THEN "idle" ELSE pc
  BY DEF WriteIndex
<1>2. pc = "write index" /\ data = buf /\ UNCHANGED <<mod, data, buf, slots, saves>>
  BY DEF WriteIndex, SaveInv, SaveTypeOK
<1>3. n \in 1 .. mod /\ mod \in Nat /\ slots \in [1 .. mod -> Slot]
  <2>1. index \in Seq(Slot) /\ mod \in Nat /\ slots \in [1 .. mod -> Slot]
    BY DEF SaveInv, SaveTypeOK
  <2>2. Len(index) \in Nat
    BY <2>1
  <2> QED BY <2>1, <2>2
<1>4. index' = [i \in 1 .. n |-> slots[i]]
  BY <1>1, <1>3
<1>5. index' \in Seq(Slot) /\ DOMAIN index' = 1 .. n
  BY <1>3, <1>4
<1>6. \A i \in DOMAIN index' : index'[i].to <= Len(data)
  <2>1. \A i \in 1 .. mod : slots[i].to <= Len(data)
    BY <1>2, <1>3 DEF SaveInv, SaveTypeOK, Within
  <2> QED BY <1>3, <1>4, <1>5, <2>1
<1> QED BY <1>1, <1>2, <1>5, <1>6 DEF SaveInv, SaveTypeOK, IndexWithinData, Within

\* Every step keeps what is on disk within what it refers to.
LEMMA SaveInvStep == SaveInv /\ [MmapNext]_mmapVars => SaveInv'
<1> SUFFICES ASSUME SaveInv, [MmapNext]_mmapVars PROVE SaveInv'
  OBVIOUS
<1>1. ASSUME NEW some \in BOOLEAN, Save(some) PROVE SaveInv'
  BY <1>1 DEF Save, Truncated, SaveInv, SaveTypeOK, IndexWithinData, Within
<1>2. CASE CreateData
  <2>1. Empty \in Slot
    BY DEF Empty, Slot
  <2>2. slots' \in [1 .. mod -> Slot] /\ Within(slots', 0)
    BY <1>2, <2>1 DEF CreateData, Within, Empty
  <2> QED BY SMTT(60), <1>2, <2>2 DEF CreateData, SaveInv, SaveTypeOK, IndexWithinData, Within
<1>3. CASE Filled
  BY <1>3 DEF Filled, SaveInv, SaveTypeOK, IndexWithinData, Within
<1>4. CASE WriteData
  <2>1. index' = <<>>
    BY <1>4 DEF WriteData, SaveInv, SaveTypeOK
  <2>2. DOMAIN index' = {}
    BY <2>1
  <2> QED BY <1>4, <2>1, <2>2 DEF WriteData, SaveInv, SaveTypeOK, IndexWithinData, Within
<1>5. CASE Stop
  BY <1>5 DEF Stop, SaveInv, SaveTypeOK, IndexWithinData, Within
<1>6. ASSUME UNCHANGED <<mod, index, data, saveVars>> PROVE SaveInv'
  BY <1>6 DEF saveVars, SaveInv, SaveTypeOK, IndexWithinData, Within
<1>7. CASE LoadIndex \/ LoadData \/ ReadSlot \/ ReadData \/ \E k \in Keys : StartGet(k)
  BY <1>6, <1>7 DEF LoadIndex, LoadData, ReadSlot, ReadData, StartGet
<1>8. CASE UNCHANGED mmapVars
  BY <1>6, <1>8 DEF mmapVars
<1> QED BY <1>1, <1>2, <1>3, <1>4, <1>5, <1>7, <1>8, FillKeeps, WriteIndexKeeps DEF MmapNext, Write

\* mmap.go:72-115: while Save works the index is empty, and what it has in memory is
\* never behind its slots.
THEOREM SaveCorrect == MmapSpec => []SaveInv
BY SaveInvInit, SaveInvStep, PTL DEF MmapSpec

\* mmap.go:107-115: wherever a Save fails or dies, and whatever Saves there were
\* before, the index on disk never points past the end of the data on disk.
THEOREM IndexWithinDataHolds == MmapSpec => []IndexWithinData
<1>1. SaveInv => IndexWithinData
  BY DEF SaveInv, SaveTypeOK
<1> QED BY <1>1, SaveCorrect, PTL

----------------------------------------------------------------------------
(* Mmap: what Get finds.  In memory every key stored is at the first of its *)
(* probes that another key has not taken before it, and what is on disk is *)
(* a part of what is in memory.                                            *)

Occupied(n) == slots[n].to # 0
KeyAt(n)    == buf[slots[n].from + 1]

\* A slot in use refers to an entry of this Save: a key stored, and its value.
EntryAt(n) ==
  Occupied(n) =>
    /\ slots[n].from < slots[n].to /\ slots[n].to <= Len(buf)
    /\ KeyAt(n) \in want
    /\ SubSeq(buf, slots[n].from + 2, slots[n].to) = Value(KeyAt(n), saves)

\* The search for k goes past its probe i, and ends with k at its probe i.
SlotTaken(n)  == n \in 1 .. mod /\ Occupied(n)
Passes(k, i) == SlotTaken(Probe(k, i) + 1) /\ KeyAt(Probe(k, i) + 1) # k
Placed(k, i) ==
  /\ SlotTaken(Probe(k, i) + 1) /\ KeyAt(Probe(k, i) + 1) = k
  /\ \A j \in 0 .. i - 1 : Passes(k, j)

TableInv ==
  /\ \A n \in 1 .. mod : EntryAt(n)
  /\ \A k \in want : \E i \in 0 .. mod - 1 : Placed(k, i)

\* The index is not empty only when the table is complete, and the data on disk.
DiskInv ==
  /\ want \subseteq Keys /\ (pc = "create" => want = {})
  /\ pc \in {"fill", "write data", "write index"} => TableInv
  /\ index # <<>> =>
       /\ TableInv /\ data = buf
       /\ Len(index) <= mod /\ \A n \in DOMAIN index : index[n] = slots[n]

GetTypeOK ==
  /\ get.stage \in {"slot", "data", "done"}
  /\ get.i \in 0 .. mod - 1 /\ get.began \in 0 .. saves
  /\ get = [stage |-> get.stage, key |-> get.key, i |-> get.i, slot |-> get.slot,
            answer |-> get.answer, began |-> get.began, whole |-> get.whole]
  /\ Busy => get.key \in Keys /\ ~loading
  /\ mapped \in [index : Nat, data : Nat]

\* What a Get during which no Save has begun has come to know: the slot it has read is
\* one of the table, and if the files were whole they still are, and its key is at none
\* of the probes it has gone past.
GetInv ==
  get.began = saves =>
    /\ index = <<>> => \/ get.stage = "slot" /\ get.i = 0
                       \/ get.stage = "done" /\ get.answer = Fault
    /\ Busy /\ get.whole => Whole /\ \A j \in 0 .. get.i - 1 : Passes(get.key, j)
    /\ get.stage = "data" =>
         SlotTaken(Probe(get.key, get.i) + 1) /\ get.slot = slots[Probe(get.key, get.i) + 1]

\* A probe is less than the number of slots.
LEMMA ProbeBound ==
  ASSUME SaveInv, NEW k \in Keys, NEW i \in Int
  PROVE  Probe(k, i) \in Int /\ Probe(k, i) < mod
<1>1. mod \in Nat \ {0, 1}
  BY DEF SaveInv, SaveTypeOK
<1>2. h1(k) \in Int /\ h2(k) \in Int
  BY <1>1, RemBound, NumberAssumption DEF h1, h2
<1>3. h1(k) + i * h2(k) \in Int
  BY <1>2
<1> QED
  BY <1>1, <1>3, RemBound DEF Probe

\* Only that of a negative key may be no slot.
LEMMA ProbeInRange ==
  ASSUME mod \in Nat \ {0, 1}, NEW k \in Keys, NEW i \in Nat, ~(Number[k] < 0)
  PROVE  /\ Probe(k, i) \in 0 .. mod - 1 /\ Probe(k, i) = (h1(k) + i * h2(k)) % mod
         /\ h1(k) \in Nat /\ h2(k) \in 1 .. mod - 1
<1>1. Number[k] \in Int /\ Number[k] >= 0
  BY NumberAssumption
<1>2. h1(k) \in Int /\ h1(k) >= 0
  BY <1>1, RemBound DEF h1
<1>3. h2(k) \in 1 .. mod - 1
  <2>1. mod - 1 \in Nat \ {0}
    OBVIOUS
  <2>2. Rem(Number[k], mod - 1) \in Int /\ Rem(Number[k], mod - 1) < mod - 1 /\ Rem(Number[k], mod - 1) >= 0
    BY <1>1, <2>1, RemBound
  <2> QED
    BY <1>1, <2>2 DEF h2
<1>4. i * h2(k) \in Int /\ i * h2(k) >= 0
  BY <1>3
<1>5. h1(k) + i * h2(k) >= 0 /\ h1(k) + i * h2(k) \in Int
  BY <1>2, <1>4
<1>6. Probe(k, i) = (h1(k) + i * h2(k)) % mod
  BY <1>5 DEF Probe, Rem
<1>7. (h1(k) + i * h2(k)) % mod \in 0 .. mod - 1
  <2>1. mod \in Nat \ {0}
    OBVIOUS
  <2> QED
    BY <1>5, <2>1, Residue
<1> QED
  BY <1>2, <1>3, <1>6, <1>7

\* A read of a value that is in the file and in the mapping.
LEMMA CellsRead ==
  ASSUME NEW f \in Nat, NEW t \in Nat, f < t, data \in Seq(Cell), t <= Len(data)
  PROVE  [n \in 1 .. t - (f + 1) |-> CellAt(f + 1 + n)] = SubSeq(data, f + 2, t)
<1> DEFINE c == [n \in 1 .. t - (f + 1) |-> CellAt(f + 1 + n)]
           v == SubSeq(data, f + 2, t)
<1>1. Len(data) \in Nat /\ DOMAIN data = 1 .. Len(data)
  OBVIOUS
<1>2. \A n \in 1 .. t - (f + 1) : f + 1 + n \in DOMAIN data /\ c[n] = data[f + 1 + n] /\ c[n] \in Cell
  BY <1>1 DEF CellAt
<1>3. c \in Seq(Cell) /\ Len(c) = t - (f + 1)
  <2> DEFINE m == t - (f + 1)
  <2>1. m \in Nat
    OBVIOUS
  <2>2. c \in [1 .. m -> Cell]
    BY <1>2
  <2> HIDE DEF c, m
  <2>3. c \in Seq(Cell) /\ Len(c) = m
    BY <2>1, <2>2
  <2> QED
    BY <2>3 DEF m
<1>4. /\ v \in Seq(Cell)
      /\ Len(v) = IF f + 2 <= t THEN t - (f + 2) + 1 ELSE 0
      /\ \A j \in 1 .. t - (f + 2) + 1 : v[j] = data[(f + 2) + j - 1]
  <2>1. \A j \in f + 2 .. t : data[j] \in Cell
    BY <1>1, ElementOfSeq
  <2> QED
    BY <2>1, SubSeqProperties
<1> HIDE DEF c, v
<1>5. Len(v) = Len(c) /\ \A j \in 1 .. Len(c) : v[j] = c[j]
  BY <1>2, <1>3, <1>4
<1>6. c = v
  BY <1>3, <1>4, <1>5, SeqEqual
<1> QED
  BY <1>6 DEF c, v

\* The table is a matter of the memory alone.
LEMMA TableFrame ==
  ASSUME UNCHANGED <<mod, buf, slots, want, saves>>
  PROVE  /\ TableInv' = TableInv
         /\ \A k, i : Passes(k, i)' = Passes(k, i)
         /\ \A n : SlotTaken(n)' = SlotTaken(n)
         /\ \A k, i : Probe(k, i)' = Probe(k, i)
<1>1. \A k, i : Probe(k, i)' = Probe(k, i)
  BY DEF Probe, h1, h2
<1>2. \A n : SlotTaken(n)' = SlotTaken(n) /\ KeyAt(n)' = KeyAt(n) /\ EntryAt(n)' = EntryAt(n)
  BY DEF SlotTaken, Occupied, KeyAt, EntryAt
<1>3. \A k, i : Passes(k, i)' = Passes(k, i)
  BY <1>1, <1>2 DEF Passes
<1>4. \A k, i : Placed(k, i)' = Placed(k, i)
  BY <1>1, <1>2, <1>3 DEF Placed
<1> QED
  BY <1>1, <1>2, <1>3, <1>4 DEF TableInv

\* A key that finds room takes a free slot, the first of its probes that another key
\* has not taken.
LEMMA Room ==
  ASSUME SaveInv, NEW k \in Keys, Search(k) = "stored"
  PROVE  \E i \in 0 .. mod - 1 :
           /\ End(k) = {i} /\ Probe(k, i) + 1 \in 1 .. mod /\ ~Occupied(Probe(k, i) + 1)
           /\ \A j \in 0 .. i - 1 : Passes(k, j)
<1> DEFINE Ends == {i \in 0 .. mod - 1 :
                      Probe(k, i) < 0 \/ At(k, i).to = 0 \/ buf[At(k, i).from + 1] = k}
<1>1. End(k) = {i \in Ends : \A j \in Ends : i <= j}
  BY DEF End, First
<1>2. \E i \in End(k) : Probe(k, i) >= 0 /\ At(k, i).to = 0
  <2>1. End(k) # {}
    BY <1>1, Zenon DEF Search
  <2> QED
    BY <2>1 DEF Search
<1>3. PICK i \in End(k) : Probe(k, i) >= 0 /\ At(k, i).to = 0
  BY <1>2
<1>4. mod \in Nat \ {0, 1} /\ slots \in [1 .. mod -> Slot] /\ i \in 0 .. mod - 1
  BY <1>1 DEF SaveInv, SaveTypeOK
<1>5. End(k) = {i}
  BY <1>1, <1>4
<1>6. Probe(k, i) + 1 \in 1 .. mod /\ ~Occupied(Probe(k, i) + 1)
  <2>1. Probe(k, i) \in Int /\ Probe(k, i) < mod
    BY <1>4, ProbeBound
  <2> QED
    BY <1>3, <1>4, <2>1 DEF At, Occupied
<1>7. ASSUME NEW j \in 0 .. i - 1 PROVE Passes(k, j)
  <2>1. j \in 0 .. mod - 1 /\ j \notin Ends
    BY <1>1, <1>4
  <2>2. Probe(k, j) \in Int /\ Probe(k, j) < mod
    BY <2>1, ProbeBound
  <2>3. ~(Probe(k, j) < 0) /\ At(k, j).to # 0 /\ buf[At(k, j).from + 1] # k
    BY <2>1
  <2> QED
    BY <1>4, <2>2, <2>3 DEF Passes, SlotTaken, Occupied, KeyAt, At
<1> QED
  BY <1>4, <1>5, <1>6, <1>7

\* What an entry at the end of the buffer consists of.
LEMMA EntryAtEnd ==
  ASSUME NEW b \in Seq(Cell), NEW e \in Seq(Cell), NEW k \in Cell, NEW v \in Seq(Cell),
         e = <<k>> \o v, Len(v) > 0
  PROVE  /\ SubSeq(b \o e, Len(b) + 2, Len(b) + Len(e)) = v
         /\ (b \o e)[Len(b) + 1] = k
<1> DEFINE w == b \o e
           t == SubSeq(w, Len(b) + 2, Len(b) + Len(e))
<1>1. /\ Len(b) \in Nat /\ Len(v) \in Nat /\ Len(e) = Len(v) + 1 /\ e[1] = k
      /\ \A j \in 1 .. Len(v) : e[j + 1] = v[j]
  OBVIOUS
<1>2. /\ w \in Seq(Cell) /\ Len(w) = Len(b) + Len(e)
      /\ \A j \in 1 .. Len(b) + Len(e) : w[j] = IF j <= Len(b) THEN b[j] ELSE e[j - Len(b)]
  BY ConcatProperties
<1>3. \A j \in 1 .. Len(e) : w[Len(b) + j] = e[j]
  BY <1>1, <1>2
<1>4. \A j \in Len(b) + 2 .. Len(b) + Len(e) : w[j] \in Cell
  BY <1>1, <1>2, ElementOfSeq
<1> HIDE DEF w
<1>5. /\ t \in Seq(Cell)
      /\ Len(t) = IF Len(b) + 2 <= Len(b) + Len(e) THEN (Len(b) + Len(e)) - (Len(b) + 2) + 1 ELSE 0
      /\ \A j \in 1 .. (Len(b) + Len(e)) - (Len(b) + 2) + 1 : t[j] = w[(Len(b) + 2) + j - 1]
  <2>1. Len(b) + 2 \in Int /\ Len(b) + Len(e) \in Int
    BY <1>1
  <2> QED
    BY <1>4, <2>1, SubSeqProperties
<1> HIDE DEF t
<1>6. Len(t) = Len(v) /\ \A j \in 1 .. Len(v) : t[j] = w[Len(b) + (j + 1)]
  BY <1>1, <1>5
<1>7. ASSUME NEW j \in 1 .. Len(v) PROVE t[j] = v[j]
  <2>1. j + 1 \in 1 .. Len(e)
    BY <1>1
  <2> QED
    BY <1>1, <1>3, <1>6, <2>1
<1>8. t = v
  BY <1>5, <1>6, <1>7, SeqEqual
<1>9. w[Len(b) + 1] = k
  BY <1>1, <1>3
<1> QED
  BY <1>8, <1>9 DEF w, t

\* What appending to the buffer and filling a free slot leaves of the other entries.
LEMMA OtherEntries ==
  ASSUME SaveInv, TableInv, NEW e \in Seq(Cell), buf' = buf \o e,
         NEW p, ~Occupied(p), NEW x, slots' = [slots EXCEPT ![p] = x],
         saves' = saves, mod' = mod, want \subseteq want'
  PROVE  \A n \in 1 .. mod : Occupied(n) =>
           EntryAt(n)' /\ Occupied(n)' /\ KeyAt(n)' = KeyAt(n)
<1> SUFFICES ASSUME NEW n \in 1 .. mod, Occupied(n)
             PROVE  EntryAt(n)' /\ Occupied(n)' /\ KeyAt(n)' = KeyAt(n)
  OBVIOUS
<1>1. n # p /\ slots'[n] = slots[n] /\ slots[n] \in Slot /\ buf \in Seq(Cell)
  BY DEF SaveInv, SaveTypeOK
<1>2. /\ slots[n].from < slots[n].to /\ slots[n].to <= Len(buf)
      /\ KeyAt(n) \in want
      /\ SubSeq(buf, slots[n].from + 2, slots[n].to) = Value(KeyAt(n), saves)
  BY DEF TableInv, EntryAt
<1> DEFINE f == slots[n].from
           t == slots[n].to
<1>3. f \in Nat /\ t \in Nat
  BY <1>1 DEF Slot
<1>4. Occupied(n)'
  BY <1>1 DEF Occupied
<1>5. buf'[f + 1] = buf[f + 1] /\ Len(buf') >= Len(buf)
  <2>1. f + 1 \in 1 .. Len(buf)
    <3>1. Len(buf) \in Nat /\ f < t /\ t <= Len(buf)
      BY <1>1, <1>2
    <3> HIDE DEF f, t
    <3> QED BY <1>3, <3>1
  <2> QED
    BY <1>1, <2>1, ConcatProperties
<1>6. SubSeq(buf', f + 2, t) = SubSeq(buf, f + 2, t)
  <2>1. CASE f + 2 <= t
    <3>1. f + 2 \in 1 .. Len(buf) /\ t \in 1 .. Len(buf)
      <4>1. Len(buf) \in Nat /\ t <= Len(buf)
        BY <1>1, <1>2
      <4> HIDE DEF f, t
      <4> QED BY <1>3, <2>1, <4>1
    <3> QED
      BY <1>1, <3>1, SubSeqOfConcat1
  <2>2. CASE ~(f + 2 <= t)
    <3>1. f + 2 \in Int /\ t \in Int /\ t < f + 2
      <4> HIDE DEF f, t
      <4> QED BY <1>3, <2>2
    <3> QED
      BY <3>1, SubSeqEmpty
  <2> QED
    BY <2>1, <2>2
<1>7. KeyAt(n)' = KeyAt(n)
  BY <1>1, <1>5 DEF KeyAt
<1>8. Len(buf) \in Nat /\ Len(buf') \in Nat
  BY <1>1, ConcatProperties
<1> HIDE DEF f, t
<1>9. f < t /\ t <= Len(buf')
  BY <1>2, <1>3, <1>5, <1>8 DEF f, t
<1>10. KeyAt(n)' \in want' /\ SubSeq(buf', f + 2, t) = Value(KeyAt(n)', saves')
  <2>1. SubSeq(buf, f + 2, t) = Value(KeyAt(n), saves)
    BY <1>2 DEF f, t
  <2> QED
    BY <1>2, <1>6, <1>7, <2>1
<1> QED
  BY <1>1, <1>4, <1>7, <1>9, <1>10 DEF EntryAt, f, t

\* Storing a key keeps every other one at its first probe, and puts it at its own.
LEMMA FillTable ==
  ASSUME SaveInv, SaveInv', TableInv, want \subseteq Keys, NEW k \in Keys, Fill(k), Search(k) = "stored"
  PROVE  TableInv'
<1>1. PICK i \in 0 .. mod - 1 :
        /\ End(k) = {i} /\ Probe(k, i) + 1 \in 1 .. mod /\ ~Occupied(Probe(k, i) + 1)
        /\ \A j \in 0 .. i - 1 : Passes(k, j)
  BY Room
<1> DEFINE e == <<k>> \o Value(k, saves)
           p == Probe(k, i) + 1
           x == [from |-> Len(buf), to |-> Len(buf) + Len(e)]
<1>2. /\ buf' = buf \o e /\ slots' = [slots EXCEPT ![p] = x]
      /\ want' = want \cup {k} /\ mod' = mod /\ saves' = saves
  BY <1>1 DEF Fill
<1>3. saves \in Nat /\ mod \in Nat /\ slots \in [1 .. mod -> Slot] /\ buf \in Seq(Cell) /\ k \in Cell
  BY DEF SaveInv, SaveTypeOK, Cell
<1>4. e \in Seq(Cell) /\ Value(k, saves) \in Seq(Cell) /\ Len(Value(k, saves)) > 0
  BY <1>3, EntryLength, ValueProperties
<1>5. /\ SubSeq(buf', Len(buf) + 2, Len(buf) + Len(e)) = Value(k, saves)
      /\ buf'[Len(buf) + 1] = k
  BY <1>2, <1>3, <1>4, EntryAtEnd
<1>6. Len(buf) \in Nat /\ Len(e) \in Nat /\ Len(e) > 0 /\ Len(buf') = Len(buf) + Len(e)
  <2>1. Len(e) = 1 + Len(Value(k, saves))
    BY <1>3, <1>4
  <2> QED
    BY <1>2, <1>3, <1>4, <2>1, ConcatProperties
<1>7. slots'[p] = x
  BY <1>1, <1>2, <1>3
<1>8. \A n \in 1 .. mod : Occupied(n) =>
        EntryAt(n)' /\ Occupied(n)' /\ KeyAt(n)' = KeyAt(n)
  BY <1>1, <1>2, <1>4, OtherEntries
<1>9. \A n \in 1 .. mod : n # p => slots'[n] = slots[n]
  BY <1>2, <1>3
<1>10. slots'[p].from = Len(buf) /\ slots'[p].to = Len(buf) + Len(e)
  BY <1>7
<1> HIDE DEF e, x
<1>11. \A n \in 1 .. mod : EntryAt(n)'
  <2> SUFFICES ASSUME NEW n \in 1 .. mod PROVE EntryAt(n)'
    OBVIOUS
  <2>1. CASE n = p
    <3>1. slots'[n].from < slots'[n].to /\ slots'[n].to <= Len(buf')
      BY <1>6, <1>10, <2>1
    <3>2. KeyAt(n)' = k
      BY <1>5, <1>10, <2>1 DEF KeyAt
    <3>3. SubSeq(buf', slots'[n].from + 2, slots'[n].to) = Value(k, saves')
      BY <1>2, <1>5, <1>10, <2>1
    <3> QED
      BY <1>2, <3>1, <3>2, <3>3 DEF EntryAt
  <2>2. CASE n # p /\ ~Occupied(n)
    BY <1>9, <2>2 DEF EntryAt, Occupied
  <2>3. CASE Occupied(n)
    BY <1>8, <2>3
  <2> QED
    BY <2>1, <2>2, <2>3
<1>12. \A l, j : Probe(l, j)' = Probe(l, j)
  BY <1>2 DEF Probe, h1, h2
<1>13. \A n : SlotTaken(n) => SlotTaken(n)' /\ KeyAt(n)' = KeyAt(n)
  BY <1>2, <1>8 DEF SlotTaken
<1>14. \A l, j : Passes(l, j) => Passes(l, j)'
  BY <1>12, <1>13 DEF Passes
<1>15. Placed(k, i)'
  <2>1. Probe(k, i)' + 1 = p
    BY <1>12
  <2>2. buf'[slots'[p].from + 1] = k /\ slots'[p].to # 0
    BY <1>5, <1>6, <1>10
  <2>3. p \in 1 .. mod'
    BY <1>1, <1>2
  <2>4. SlotTaken(Probe(k, i) + 1)' /\ KeyAt(Probe(k, i) + 1)' = k
    BY <2>1, <2>2, <2>3 DEF SlotTaken, Occupied, KeyAt
  <2> QED
    BY <1>1, <1>14, <2>4 DEF Placed
<1>16. \A l, j : Placed(l, j) => Placed(l, j)'
  BY <1>12, <1>13, <1>14 DEF Placed
<1> QED
  BY <1>2, <1>11, <1>15, <1>16 DEF TableInv

\* The actions that leave what Save has in memory alone.
LEMMA DiskFrame ==
  ASSUME SaveInv, DiskInv, UNCHANGED <<mod, buf, slots, want, saves, data, index>>,
         pc' \in {"fill", "write data", "write index"} => pc \in {"fill", "write data", "write index"},
         pc' # "create" \/ pc = "create"
  PROVE  DiskInv'
<1>1. TableInv' = TableInv
  BY TableFrame
<1> QED
  BY <1>1 DEF DiskInv

\* Writing more of the index keeps it a beginning of the table.
LEMMA WriteIndexDisk ==
  ASSUME SaveInv, DiskInv, WriteIndex
  PROVE  /\ DiskInv' /\ index' # <<>>
         /\ UNCHANGED <<mod, buf, slots, want, saves, data, get>>
<1>1. PICK n \in Len(index) + 1 .. mod : index' = SubSeq(slots, 1, n) /\ pc' = IF n = mod THEN "idle" ELSE pc
  BY DEF WriteIndex
<1>2. /\ pc = "write index" /\ data = buf /\ TableInv
      /\ UNCHANGED <<mod, buf, slots, want, saves, data, get>>
  BY DEF WriteIndex, SaveInv, SaveTypeOK, DiskInv, saveVars
<1>3. n \in 1 .. mod /\ mod \in Nat /\ slots \in [1 .. mod -> Slot]
  <2>1. index \in Seq(Slot) /\ mod \in Nat /\ slots \in [1 .. mod -> Slot]
    BY DEF SaveInv, SaveTypeOK
  <2>2. Len(index) \in Nat
    BY <2>1
  <2> QED BY <2>1, <2>2
<1>4. index' = [i \in 1 .. n |-> slots[i]]
  BY <1>1, <1>3
<1>5. DOMAIN index' = 1 .. n /\ Len(index') = n /\ index' # <<>>
  BY <1>3, <1>4
<1>6. TableInv'
  BY <1>2, TableFrame
<1>7. pc' \in {"idle", "write index"}
  BY <1>1, <1>2
<1>8. \A m \in DOMAIN index' : index'[m] = slots'[m]
  BY <1>2, <1>4, <1>5
<1>9. want' \subseteq Keys /\ data' = buf'
  BY <1>2 DEF DiskInv
<1>10. Len(index') <= mod'
  <2>1. n <= mod
    BY <1>3
  <2>2. mod' = mod /\ Len(index') = n
    BY <1>2, <1>5
  <2> QED
    BY <2>1, <2>2, Zenon
<1> QED
  BY <1>2, <1>5, <1>6, <1>7, <1>8, <1>9, <1>10 DEF DiskInv

\* Storing a key happens in memory.
LEMMA FillDisk ==
  ASSUME SaveInv, SaveInv', DiskInv, NEW k \in Keys, Fill(k)
  PROVE  DiskInv'
<1>1. pc = "fill" /\ TableInv /\ index = <<>> /\ index' = index /\ want' = want \cup {k} /\ want \subseteq Keys
  BY DEF Fill, SaveInv, DiskInv
<1>2. CASE Search(k) = "stored"
  BY <1>1, <1>2, FillTable DEF Fill, DiskInv
<1>3. CASE Search(k) # "stored"
  BY <1>1, <1>3 DEF Fill, DiskInv
<1> QED
  BY <1>2, <1>3

\* Filling begins with an empty table.
LEMMA CreateDisk ==
  ASSUME SaveInv, SaveInv', DiskInv, CreateData
  PROVE  DiskInv'
<1>1. pc = "create" /\ want = {} /\ want' = {} /\ index' = <<>> /\ pc' = "fill"
  BY DEF CreateData, SaveInv, DiskInv
<1>2. \A n \in 1 .. mod' : EntryAt(n)'
  BY DEF CreateData, EntryAt, Occupied, Empty
<1> QED
  BY <1>1, <1>2 DEF DiskInv, TableInv

\* Save, seen from Get: it begins anew, or the index is empty while it works, or it
\* leaves the table alone.
SaveSteps == (\E some \in BOOLEAN : Save(some)) \/ (\E k \in Keys : Fill(k)) \/ CreateData \/ Filled \/ Write \/ Stop
GetSteps  == LoadIndex \/ LoadData \/ (\E k \in Keys : StartGet(k)) \/ ReadSlot \/ ReadData

\* Every step keeps the files a part of the table.
LEMMA DiskSteps ==
  ASSUME SaveInv, SaveInv', DiskInv, [MmapNext]_mmapVars
  PROVE  DiskInv'
<1>1. ASSUME NEW some \in BOOLEAN, Save(some) PROVE DiskInv'
  BY <1>1 DEF Save, Truncated, DiskInv
<1>2. ASSUME NEW k \in Keys, Fill(k) PROVE DiskInv'
  BY <1>2, FillDisk
<1>3. CASE CreateData
  BY <1>3, CreateDisk
<1>4. CASE Filled \/ Stop
  BY <1>4, DiskFrame DEF Filled, Stop
<1>5. CASE WriteData
  <2>1. index = <<>> /\ index' = <<>> /\ pc = "write data" /\ pc' = "write index" /\ TableInv
    BY <1>5 DEF WriteData, SaveInv, DiskInv
  <2>2. TableInv'
    BY <1>5, <2>1, TableFrame DEF WriteData
  <2> QED
    BY <1>5, <2>1, <2>2 DEF WriteData, DiskInv
<1>6. CASE WriteIndex
  BY <1>6, WriteIndexDisk
<1>7. CASE GetSteps \/ UNCHANGED mmapVars
  <2>1. UNCHANGED <<mod, index, data, saveVars>>
    BY <1>7 DEF GetSteps, LoadIndex, LoadData, StartGet, ReadSlot, ReadData, mmapVars
  <2> QED
    BY <2>1, DiskFrame DEF saveVars
<1> QED
  BY <1>1, <1>2, <1>3, <1>4, <1>5, <1>6, <1>7 DEF MmapNext, Write, GetSteps

----------------------------------------------------------------------------
(* Mmap: the steps of Get                                                  *)

Sound == GetTypeOK /\ GetInv /\ NeverWrong

\* Save does not disturb a Get that goes on, nor an answer.
LEMMA SaveKeepsSound ==
  ASSUME SaveInv, SaveInv', DiskInv, Sound, SaveSteps
  PROVE  Sound'
<1>0. get' = get /\ mod' = mod /\ mapped' = mapped /\ loading' = loading
  BY DEF SaveSteps, Save, Fill, CreateData, Filled, Write, WriteData, WriteIndex, Stop
<1>1. ASSUME NEW some \in BOOLEAN, Save(some) PROVE Sound'
  <2>1. saves \in Nat /\ saves' = saves + 1 /\ get.began \in 0 .. saves
    BY <1>1 DEF Save, SaveInv, SaveTypeOK, Sound, GetTypeOK
  <2>2. get'.began # saves' /\ get'.began \in 0 .. saves'
    BY <1>0, <2>1
  <2> QED
    BY <1>0, <2>2 DEF Sound, GetTypeOK, GetInv, NeverWrong, Busy
<1>2. ASSUME index = <<>>, index' = <<>>, saves' = saves PROVE Sound'
  <2>1. CASE get.began = saves
    <3>1. (get.stage = "slot" /\ get.i = 0) \/ (get.stage = "done" /\ get.answer = Fault)
      BY <1>2, <2>1 DEF Sound, GetInv
    <3>2. Busy => ~get.whole
      <4>1. ~Whole
        BY <1>2 DEF Whole, SaveInv, SaveTypeOK
      <4> QED
        BY <2>1, <4>1 DEF Sound, GetInv
    <3>3. GetInv'
      BY <1>0, <1>2, <3>1, <3>2 DEF GetInv, Busy
    <3>4. NeverWrong'
      <4>1. CASE get.stage = "slot"
        BY <1>0, <4>1 DEF NeverWrong
      <4>2. CASE get.stage = "done" /\ get.answer = Fault
        <5>1. \A v : Fault # NotFound /\ Fault # Answer(v)
          BY DEF Fault, NotFound, Answer
        <5>2. get.whole => Number[get.key] < 0
          BY <2>1, <4>2, <5>1 DEF Sound, NeverWrong
        <5> QED
          BY <1>0, <4>2, <5>2 DEF NeverWrong
      <4> QED
        BY <3>1, <4>1, <4>2
    <3> QED
      BY <1>0, <1>2, <3>3, <3>4 DEF Sound, GetTypeOK, Busy
  <2>2. CASE get.began # saves
    BY <1>0, <1>2, <2>2 DEF Sound, GetTypeOK, GetInv, NeverWrong, Busy
  <2> QED
    BY <2>1, <2>2
<1>3. ASSUME UNCHANGED <<mod, buf, slots, want, saves>>, index' = <<>> => index = <<>>, Whole => Whole'
      PROVE  Sound'
  <2>1. /\ \A k, i : Passes(k, i)' = Passes(k, i)
        /\ \A n : SlotTaken(n)' = SlotTaken(n)
        /\ \A k, i : Probe(k, i)' = Probe(k, i)
    BY <1>3, TableFrame
  <2>2. GetInv'
    BY <1>0, <1>3, <2>1 DEF Sound, GetInv, Busy
  <2> QED
    BY <1>0, <1>3, <2>2 DEF Sound, GetTypeOK, NeverWrong, Busy
<1>4. CASE (\E k \in Keys : Fill(k)) \/ CreateData \/ WriteData
  BY <1>2, <1>4 DEF Fill, CreateData, WriteData, SaveInv
<1>5. CASE Filled \/ Stop
  BY <1>0, <1>3, <1>5 DEF Filled, Stop, Whole
<1>6. CASE WriteIndex
  <2>1. ~Whole
    <3>1. mod \in Nat /\ \E n \in Len(index) + 1 .. mod : TRUE
      BY <1>6 DEF WriteIndex, SaveInv, SaveTypeOK
    <3> QED
      BY <3>1 DEF Whole
  <2> QED
    BY <1>3, <1>6, <2>1, WriteIndexDisk
<1> QED
  BY <1>1, <1>4, <1>5, <1>6 DEF SaveSteps, Write

\* A key that was stored is at a probe of its own, and none of those before it ends
\* the search.
LEMMA SearchGoesOn ==
  ASSUME SaveInv, TableInv, NEW k \in want, NEW i \in 0 .. mod - 1, \A j \in 0 .. i - 1 : Passes(k, j)
  PROVE  /\ SlotTaken(Probe(k, i) + 1)
         /\ KeyAt(Probe(k, i) + 1) # k => i + 1 < mod
<1>1. PICK n \in 0 .. mod - 1 : Placed(k, n)
  BY DEF TableInv
<1>2. mod \in Nat /\ i \in Nat /\ n \in Nat
  <2>1. mod \in Nat
    BY DEF SaveInv, SaveTypeOK
  <2> QED
    BY <1>1, <2>1
<1>3. ~(n < i)
  BY <1>1, <1>2 DEF Placed, Passes
<1>4. CASE n = i
  BY <1>1, <1>4 DEF Placed
<1>5. CASE n > i
  BY <1>1, <1>2, <1>5 DEF Placed, Passes
<1> QED
  BY <1>2, <1>3, <1>4, <1>5

\* A Get that reads a slot gets no further than the key is.
LEMMA ReadSlotSound ==
  ASSUME SaveInv, DiskInv, Sound, ReadSlot
  PROVE  Sound'
<1> DEFINE n == Probe(get.key, get.i) + 1
<1>0. /\ UNCHANGED <<mod, index, data, mapped, loading, buf, slots, want, saves>>
      /\ get.stage = "slot" /\ Busy /\ mod \in Nat \ {0, 1}
  BY DEF ReadSlot, saveVars, Busy, SaveInv, SaveTypeOK
<1>1. /\ \A k, i : Passes(k, i)' = Passes(k, i)
      /\ \A m : SlotTaken(m)' = SlotTaken(m)
      /\ \A k, i : Probe(k, i)' = Probe(k, i)
      /\ Whole' = Whole
  BY <1>0, TableFrame DEF Whole
<1>2. /\ get.i \in 0 .. mod - 1 /\ get.began \in 0 .. saves
      /\ get = [stage |-> get.stage, key |-> get.key, i |-> get.i, slot |-> get.slot,
                answer |-> get.answer, began |-> get.began, whole |-> get.whole]
      /\ get.key \in Keys /\ ~loading /\ mapped \in [index : Nat, data : Nat]
  BY <1>0 DEF Sound, GetTypeOK
<1>3. ASSUME NEW a, Done(a),
             get.began = saves =>
               \/ a = Fault /\ (get.whole => Number[get.key] < 0)
               \/ a = NotFound /\ (get.whole => get.key \notin want) /\ index # <<>>
      PROVE  Sound'
  <2>1. get' = [stage |-> "done", key |-> get.key, i |-> get.i, slot |-> get.slot,
                answer |-> a, began |-> get.began, whole |-> get.whole]
    BY <1>2, <1>3 DEF Done
  <2>2. GetTypeOK' /\ GetInv'
    BY <1>0, <1>2, <1>3, <2>1 DEF GetTypeOK, GetInv, Busy
  <2>3. NeverWrong'
    BY <1>0, <1>3, <2>1 DEF NeverWrong
  <2> QED
    BY <2>2, <2>3 DEF Sound
<1>4. ASSUME get.began = saves, get.whole
      PROVE  /\ DOMAIN index = 1 .. mod /\ mapped.index = mod
             /\ \A j \in 0 .. get.i - 1 : Passes(get.key, j)
  <2>1. Len(index) = mod /\ mapped.index = mod /\ \A j \in 0 .. get.i - 1 : Passes(get.key, j)
    BY <1>0, <1>4 DEF Sound, GetInv, Whole
  <2>2. index \in Seq(Slot)
    BY DEF SaveInv, SaveTypeOK
  <2> QED
    BY <2>1, <2>2
<1>5. ASSUME n \in DOMAIN index
      PROVE  /\ index # <<>> /\ TableInv /\ index[n] = slots[n] /\ n \in 1 .. mod
  <2>1. index # <<>>
    BY <1>5
  <2>2. TableInv /\ Len(index) <= mod /\ index[n] = slots[n] /\ index \in Seq(Slot) /\ mod \in Nat
    BY <1>5, <2>1 DEF DiskInv, SaveInv, SaveTypeOK
  <2>3. DOMAIN index = 1 .. Len(index) /\ Len(index) \in Nat
    BY <2>2
  <2>4. n \in 1 .. mod
    BY <1>5, <2>2, <2>3
  <2> QED
    BY <2>1, <2>2, <2>4
<1>6. CASE n \notin 1 .. mapped.index \cap DOMAIN index /\ Done(Fault)
  <2>1. ASSUME get.began = saves, get.whole PROVE Number[get.key] < 0
    <3>1. n \notin 1 .. mod
      BY <1>4, <1>6, <2>1
    <3>2. Probe(get.key, get.i) \notin 0 .. mod - 1
      BY <1>0, <3>1
    <3> QED
      BY <1>0, <1>2, <3>2, ProbeInRange
  <2> QED
    BY <1>3, <1>6, <2>1
<1>7. CASE n \in 1 .. mapped.index /\ index # <<>> /\ SlotAt(n).to = 0 /\ Done(NotFound)
  <2>1. ASSUME get.began = saves, get.whole PROVE get.key \notin want
    <3>1. n \in DOMAIN index /\ index[n].to = 0
      BY <1>4, <1>7, <2>1 DEF SlotAt
    <3>2. TableInv /\ ~SlotTaken(n) /\ \A j \in 0 .. get.i - 1 : Passes(get.key, j)
      BY <1>4, <1>5, <2>1, <3>1 DEF SlotTaken, Occupied
    <3> QED
      BY <1>2, <3>2, SearchGoesOn
  <2> QED
    BY <1>3, <1>7, <2>1
<1>8. CASE /\ SlotAt(n).to # 0
           /\ get' = [get EXCEPT !.stage = "data", !.slot = SlotAt(n)]
  <2>1. n \in DOMAIN index /\ index[n].to # 0 /\ SlotAt(n) = index[n]
    BY <1>8 DEF SlotAt, Empty
  <2>2. get' = [stage |-> "data", key |-> get.key, i |-> get.i, slot |-> index[n],
                answer |-> get.answer, began |-> get.began, whole |-> get.whole]
    BY <1>2, <1>8, <2>1
  <2>3. GetTypeOK' /\ NeverWrong'
    BY <1>0, <1>2, <2>2 DEF GetTypeOK, NeverWrong, Busy
  <2>4. SlotTaken(n) /\ index # <<>> /\ index[n] = slots[n]
    BY <1>5, <2>1 DEF SlotTaken, Occupied
  <2>5. get.began = saves /\ get.whole => Whole /\ \A j \in 0 .. get.i - 1 : Passes(get.key, j)
    BY <1>0 DEF Sound, GetInv
  <2> HIDE DEF n
  <2>6. (Probe(get.key, get.i) + 1)' = n
    BY <1>1, <2>2 DEF n
  <2>7. GetInv'
    BY <1>0, <1>1, <2>2, <2>4, <2>5, <2>6 DEF GetInv
  <2> QED
    BY <2>3, <2>7 DEF Sound
<1> QED
  BY <1>6, <1>7, <1>8 DEF ReadSlot

\* A Get that reads an entry answers for its key, or goes on past another one.
LEMMA ReadDataSound ==
  ASSUME SaveInv, DiskInv, Sound, ReadData
  PROVE  Sound'
<1> DEFINE n        == Probe(get.key, get.i) + 1
           first    == get.slot.from + 1
           last     == get.slot.to
           There(c) == c <= mapped.data /\ c <= Len(data)
           legal    == first = mapped.data + 1 \/ (first <= mapped.data /\ data # <<>>)
           found    == legal /\ (IF first <= mapped.data THEN CellAt(first) ELSE 0) = get.key
           cells    == [c \in 1 .. last - first |-> CellAt(first + c)]
<1>0. /\ UNCHANGED <<mod, index, data, mapped, loading, buf, slots, want, saves>>
      /\ get.stage = "data" /\ Busy /\ mod \in Nat \ {0, 1}
  BY DEF ReadData, saveVars, Busy, SaveInv, SaveTypeOK
<1>1. /\ \A k, i : Passes(k, i)' = Passes(k, i)
      /\ \A m : SlotTaken(m)' = SlotTaken(m)
      /\ \A k, i : Probe(k, i)' = Probe(k, i)
      /\ Whole' = Whole
  BY <1>0, TableFrame DEF Whole
<1>2. /\ get.i \in 0 .. mod - 1 /\ get.began \in 0 .. saves
      /\ get = [stage |-> get.stage, key |-> get.key, i |-> get.i, slot |-> get.slot,
                answer |-> get.answer, began |-> get.began, whole |-> get.whole]
      /\ get.key \in Keys /\ ~loading /\ mapped \in [index : Nat, data : Nat]
  BY <1>0 DEF Sound, GetTypeOK
\* The slot is one of the table, its entry is in the file, and in the mapping if that is
\* whole.
<1>3. ASSUME get.began = saves
      PROVE  /\ index # <<>> /\ TableInv /\ data = buf /\ data \in Seq(Cell)
             /\ SlotTaken(n) /\ get.slot = slots[n] /\ EntryAt(n)
             /\ get.slot.from \in Nat /\ last \in Nat /\ get.slot.from < last /\ last <= Len(data)
             /\ first \in DOMAIN data /\ CellAt(first) = KeyAt(n)
  <2>1. index # <<>> /\ SlotTaken(n) /\ get.slot = slots[n]
    BY <1>0, <1>3 DEF Sound, GetInv
  <2>2. TableInv /\ data = buf /\ data \in Seq(Cell)
    BY <2>1 DEF DiskInv, SaveInv, SaveTypeOK
  <2>3. n \in 1 .. mod /\ Occupied(n) /\ EntryAt(n) /\ slots[n] \in Slot
    BY <2>1, <2>2 DEF SlotTaken, TableInv, SaveInv, SaveTypeOK
  <2> HIDE DEF n
  <2>4. get.slot.from \in Nat /\ last \in Nat /\ get.slot.from < last /\ last <= Len(data)
    BY <2>1, <2>2, <2>3 DEF EntryAt, Slot
  <2>5. first \in DOMAIN data
    <3>1. Len(data) \in Nat /\ DOMAIN data = 1 .. Len(data)
      BY <2>2
    <3> QED
      BY <2>4, <3>1
  <2>6. CellAt(first) = KeyAt(n)
    BY <2>1, <2>2, <2>5 DEF CellAt, KeyAt
  <2> QED
    BY <2>1, <2>2, <2>3, <2>4, <2>5, <2>6
<1>4. ASSUME get.began = saves, get.whole
      PROVE  There(first) /\ There(last) /\ \A j \in 0 .. get.i - 1 : Passes(get.key, j)
  <2>1. mapped.data >= Len(data) /\ \A j \in 0 .. get.i - 1 : Passes(get.key, j)
    BY <1>0, <1>4 DEF Sound, GetInv, Whole
  <2>2. Len(data) \in Nat /\ mapped.data \in Nat
    BY <1>2, <1>3, <1>4
  <2> QED
    BY <1>3, <1>4, <2>1, <2>2
<1>5. ASSUME NEW a, Done(a),
             get.began = saves =>
               LET right == IF get.key \in want THEN Answer(Value(get.key, saves)) ELSE NotFound
               IN  a = right \/ (~get.whole /\ a \in {Fault, NotFound})
      PROVE  Sound'
  <2>1. get' = [stage |-> "done", key |-> get.key, i |-> get.i, slot |-> get.slot,
                answer |-> a, began |-> get.began, whole |-> get.whole]
    BY <1>2, <1>5 DEF Done
  <2>2. GetTypeOK'
    BY <1>0, <1>2, <2>1 DEF GetTypeOK, Busy
  <2>3. GetInv'
    BY <1>0, <1>3, <2>1 DEF GetInv, Busy
  <2>4. NeverWrong'
    BY <1>0, <1>5, <2>1 DEF NeverWrong
  <2> QED
    BY <2>2, <2>3, <2>4 DEF Sound
<1>6. CASE ~(There(first) /\ There(last)) /\ Done(Fault)
  BY <1>4, <1>5, <1>6
<1>7. CASE found /\ last <= mapped.data /\ Done(Answer(cells))
  <2>1. ASSUME get.began = saves
        PROVE  get.key \in want /\ cells = Value(get.key, saves)
    <3>1. first <= mapped.data
      BY <1>2, <1>3, <1>7, <2>1
    <3>2. KeyAt(n) = get.key
      BY <1>3, <1>7, <2>1, <3>1
    <3>3. cells = SubSeq(data, get.slot.from + 2, last)
      BY <1>3, <2>1, CellsRead
    <3>4. Occupied(n) /\ EntryAt(n) /\ get.slot = slots[n] /\ data = buf
      BY <1>3, <2>1 DEF SlotTaken
    <3> HIDE DEF n, cells
    <3> QED
      BY <3>2, <3>3, <3>4 DEF EntryAt
  <2> QED
    BY <1>5, <1>7, <2>1
<1>8. ASSUME get.began = saves, get.whole, legal, ~found
      PROVE  /\ KeyAt(n) # get.key
             /\ get.key \in want => get.i + 1 < mod
  <2>1. KeyAt(n) # get.key
    BY <1>3, <1>4, <1>8
  <2> QED
    BY <1>2, <1>3, <1>4, <1>8, <2>1, SearchGoesOn
<1>9. CASE legal /\ ~found /\ get.i + 1 = mod /\ Done(NotFound)
  <2>1. get.began = saves /\ get.whole => get.key \notin want
    BY <1>0, <1>8, <1>9
  <2> QED
    BY <1>5, <1>9, <2>1
<1>10. CASE /\ legal /\ ~found /\ get.i + 1 < mod
            /\ get' = [get EXCEPT !.stage = "slot", !.i = @ + 1]
  <2>1. get' = [stage |-> "slot", key |-> get.key, i |-> get.i + 1, slot |-> get.slot,
                answer |-> get.answer, began |-> get.began, whole |-> get.whole]
    BY <1>2, <1>10
  <2>2. get.i + 1 \in 0 .. mod - 1
    BY <1>0, <1>2, <1>10
  <2>3. GetTypeOK' /\ NeverWrong'
    BY <1>0, <1>2, <2>1, <2>2 DEF GetTypeOK, NeverWrong, Busy
  <2>4. ASSUME get.began = saves, get.whole
        PROVE  Whole /\ \A j \in 0 .. (get.i + 1) - 1 : Passes(get.key, j)
    <3>1. Passes(get.key, get.i) /\ \A j \in 0 .. get.i - 1 : Passes(get.key, j)
      BY <1>3, <1>4, <1>8, <1>10, <2>4 DEF Passes
    <3>2. Whole
      BY <1>0, <2>4 DEF Sound, GetInv
    <3> QED
      BY <1>2, <3>1, <3>2
  <2>5. GetInv'
    <3>1. get'.began = get.began /\ get'.whole = get.whole /\ get'.i = get.i + 1
          /\ get'.key = get.key /\ get'.stage = "slot"
      BY <2>1
    <3> QED
      BY <1>0, <1>1, <1>3, <2>4, <3>1 DEF GetInv
  <2> QED
    BY <2>3, <2>5 DEF Sound
<1> QED
  BY <1>6, <1>7, <1>9, <1>10 DEF ReadData

\* A Get begins at the first probe.
LEMMA StartGetSound ==
  ASSUME SaveInv, Sound, NEW k \in Keys, StartGet(k)
  PROVE  Sound'
<1>1. /\ get' = [stage |-> "slot", key |-> k, i |-> 0, slot |-> Empty, answer |-> NotFound,
                 began |-> saves, whole |-> Whole]
      /\ mod' = mod /\ saves' = saves /\ mod \in Nat \ {0, 1} /\ saves \in Nat
      /\ mapped' = mapped /\ mapped \in [index : Nat, data : Nat] /\ loading' = loading /\ ~loading
      /\ Whole' = Whole
  BY DEF StartGet, saveVars, SaveInv, SaveTypeOK, Sound, GetTypeOK, Whole
<1>2. GetTypeOK' /\ NeverWrong'
  BY <1>1 DEF GetTypeOK, NeverWrong, Busy
<1>3. GetInv'
  BY <1>1 DEF GetInv
<1> QED
  BY <1>2, <1>3 DEF Sound

\* Every step keeps what a Get knows true, as long as no Save has begun.
LEMMA SoundSteps ==
  ASSUME SaveInv, SaveInv', DiskInv, Sound, [MmapNext]_mmapVars
  PROVE  Sound'
<1>1. CASE SaveSteps
  BY <1>1, SaveKeepsSound
<1>2. CASE LoadIndex \/ LoadData \/ UNCHANGED mmapVars
  <2>1. /\ UNCHANGED <<mod, index, data, get, buf, slots, want, saves>>
        /\ Busy => UNCHANGED <<mapped, loading>>
        /\ mapped' \in [index : Nat, data : Nat]
    <3>1. index \in Seq(Slot) /\ data \in Seq(Cell)
      BY DEF SaveInv, SaveTypeOK
    <3>2. Len(index) \in Nat /\ Len(data) \in Nat
      BY <3>1
    <3> QED
      BY <1>2, <3>2 DEF LoadIndex, LoadData, mmapVars, saveVars, Sound, GetTypeOK
  <2>2. /\ \A k, i : Passes(k, i)' = Passes(k, i)
        /\ \A n : SlotTaken(n)' = SlotTaken(n)
        /\ \A k, i : Probe(k, i)' = Probe(k, i)
    BY <2>1, TableFrame
  <2>3. GetInv'
    BY <2>1, <2>2 DEF Sound, GetInv, Busy, Whole
  <2> QED
    BY <2>1, <2>3 DEF Sound, GetTypeOK, NeverWrong, Busy
<1>3. ASSUME NEW k \in Keys, StartGet(k) PROVE Sound'
  BY <1>3, StartGetSound
<1> QED
  BY <1>1, <1>2, <1>3, ReadSlotSound, ReadDataSound DEF MmapNext, SaveSteps

\* At first nothing is stored or read.
LEMMA SoundInit == MmapInit => DiskInv /\ Sound
<1> SUFFICES ASSUME MmapInit PROVE DiskInv /\ Sound
  OBVIOUS
<1>1. /\ get.stage = "done" /\ get.answer = Fault /\ get.i = 0 /\ get.began = 0 /\ ~get.whole
      /\ get = [stage |-> get.stage, key |-> get.key, i |-> get.i, slot |-> get.slot,
                answer |-> get.answer, began |-> get.began, whole |-> get.whole]
      /\ mapped \in [index : Nat, data : Nat]
  BY DEF MmapInit
<1>2. mod \in Nat \ {0, 1} /\ saves = 0
  BY CalcModProper DEF MmapInit, IsPrime
<1>3. Sound
  BY <1>1, <1>2 DEF Sound, GetTypeOK, GetInv, NeverWrong, Busy
<1> QED
  BY <1>3 DEF MmapInit, DiskInv

TableCorrectInv == SaveInv /\ DiskInv /\ Sound

\* mmap.go:72-115 and 149-178: what is in memory, on disk and known to a Get, at every
\* step of a Save and a Get.
THEOREM TableCorrect == MmapSpec => []TableCorrectInv
<1>1. MmapInit => TableCorrectInv
  BY SaveInvInit, SoundInit DEF TableCorrectInv
<1>2. TableCorrectInv /\ [MmapNext]_mmapVars => TableCorrectInv'
  BY SaveInvStep, DiskSteps, SoundSteps DEF TableCorrectInv
<1> QED
  BY <1>1, <1>2, PTL DEF MmapSpec

\* mmap.go:149-178: a Get during which no Save begins finds nothing but what the last
\* Save has stored for its key, whatever Saves have run or died since the files were
\* mapped, and misses it only if Save was not through or Load had not mapped all of the
\* files; for any keys and numbers of either sign, any primes, and any number of Saves.
THEOREM NeverWrongHolds == MmapSpec => []NeverWrong
<1>1. TableCorrectInv => NeverWrong
  BY DEF TableCorrectInv, Sound
<1> QED
  BY <1>1, TableCorrect, PTL

----------------------------------------------------------------------------
(* Mmap: room                                                              *)

\* While the table is filled each key has one slot.
OneSlotEach ==
  \A m, n \in 1 .. mod : Occupied(m) /\ Occupied(n) /\ KeyAt(m) = KeyAt(n) => m = n

RoomInv ==
  /\ IsPrime(mod) /\ IsFiniteSet(want)
  /\ pc = "fill" => OneSlotEach

\* Storing a key keeps one slot for each key.
LEMMA FillRoom ==
  ASSUME SaveInv, SaveInv', DiskInv, RoomInv, NEW k \in Keys, Fill(k), Search(k) = "stored"
  PROVE  OneSlotEach'
<1>1. PICK i \in 0 .. mod - 1 :
        /\ End(k) = {i} /\ Probe(k, i) + 1 \in 1 .. mod /\ ~Occupied(Probe(k, i) + 1)
        /\ \A j \in 0 .. i - 1 : Passes(k, j)
  BY Room
<1>0. PICK p \in 1 .. mod : p = Probe(k, i) + 1
  BY <1>1
<1> DEFINE e == <<k>> \o Value(k, saves)
           x == [from |-> Len(buf), to |-> Len(buf) + Len(e)]
<1>2. /\ buf' = buf \o e /\ slots' = [slots EXCEPT ![p] = x]
      /\ want' = want \cup {k} /\ mod' = mod /\ saves' = saves
      /\ pc = "fill" /\ TableInv /\ OneSlotEach
  BY <1>0, <1>1 DEF Fill, DiskInv, RoomInv
<1>3. saves \in Nat /\ slots \in [1 .. mod -> Slot] /\ buf \in Seq(Cell) /\ k \in Cell
  BY DEF SaveInv, SaveTypeOK, Cell
<1>4. e \in Seq(Cell) /\ Value(k, saves) \in Seq(Cell) /\ Len(Value(k, saves)) > 0
  BY <1>3, EntryLength, ValueProperties
<1>5. k \notin want
  BY <1>1, <1>2, SearchGoesOn DEF SlotTaken
<1>6. \A n \in 1 .. mod : Occupied(n) => KeyAt(n)' = KeyAt(n) /\ KeyAt(n) \in want
  BY <1>0, <1>1, <1>2, <1>4, OtherEntries DEF TableInv, EntryAt
<1>7. KeyAt(p)' = k
  <2>1. buf'[Len(buf) + 1] = k
    BY <1>2, <1>3, <1>4, EntryAtEnd
  <2>2. slots'[p].from = Len(buf)
    BY <1>1, <1>2, <1>3
  <2> QED
    BY <2>1, <2>2 DEF KeyAt
<1>8. \A n \in 1 .. mod : n # p => Occupied(n)' = Occupied(n)
  BY <1>2, <1>3 DEF Occupied
<1>9. ASSUME NEW m \in 1 .. mod, NEW n \in 1 .. mod, Occupied(m)', Occupied(n)', KeyAt(m)' = KeyAt(n)'
      PROVE  m = n
  <2>1. CASE m = p
    BY <1>5, <1>6, <1>7, <1>8, <1>9, <2>1
  <2>2. CASE n = p
    BY <1>5, <1>6, <1>7, <1>8, <1>9, <2>2
  <2>3. CASE m # p /\ n # p
    BY <1>2, <1>6, <1>8, <1>9, <2>3 DEF OneSlotEach
  <2> QED
    BY <2>1, <2>2, <2>3
<1> QED
  BY <1>2, <1>9 DEF OneSlotEach

\* Every step does.
LEMMA RoomSteps ==
  ASSUME SaveInv, SaveInv', DiskInv, RoomInv, [MmapNext]_mmapVars
  PROVE  RoomInv'
<1>1. ASSUME NEW some \in BOOLEAN, Save(some) PROVE RoomInv'
  BY <1>1, FS_EmptySet DEF Save, RoomInv
<1>2. ASSUME NEW k \in Keys, Fill(k) PROVE RoomInv'
  <2>1. IsFiniteSet(want') /\ mod' = mod /\ pc = "fill"
    BY <1>2, FS_AddElement DEF Fill, RoomInv
  <2>2. pc' = "fill" => Search(k) = "stored"
    BY <1>2 DEF Fill
  <2> QED
    BY <1>2, <2>1, <2>2, FillRoom DEF RoomInv
<1>3. CASE CreateData
  <2>1. OneSlotEach'
    BY <1>3 DEF CreateData, OneSlotEach, Occupied, Empty
  <2> QED
    BY <1>3, <2>1 DEF CreateData, RoomInv
<1>4. CASE Filled \/ Write \/ Stop
  BY <1>4 DEF Filled, Write, WriteData, WriteIndex, Stop, RoomInv
<1>5. CASE GetSteps \/ UNCHANGED mmapVars
  <2>1. UNCHANGED <<mod, buf, slots, want, pc>>
    BY <1>5 DEF GetSteps, LoadIndex, LoadData, StartGet, ReadSlot, ReadData, mmapVars, saveVars
  <2> QED
    BY <2>1 DEF RoomInv, OneSlotEach, Occupied, KeyAt
<1> QED
  BY <1>1, <1>2, <1>3, <1>4, <1>5 DEF MmapNext, GetSteps

\* The probes of a key that is not negative are slots, and all different.
LEMMA ProbesDiffer ==
  ASSUME IsPrime(mod), NEW k \in Keys, Number[k] >= 0,
         NEW i \in 0 .. mod - 1
  PROVE  /\ Probe(k, i) \in 0 .. mod - 1
         /\ \A j \in 0 .. mod - 1 : i < j => Probe(k, i) # Probe(k, j)
<1>1. mod \in Nat \ {0, 1} /\ ~(Number[k] < 0)
  BY NumberAssumption DEF IsPrime
<1>2. h1(k) \in Int /\ h2(k) \in 1 .. mod - 1
  BY <1>1, ProbeInRange
<1>4. ASSUME NEW j \in 0 .. mod - 1 PROVE Probe(k, j) = (h1(k) + j * h2(k)) % mod /\ h1(k) + j * h2(k) \in Int
  BY <1>1, <1>2, ProbeInRange
<1>5. Probe(k, i) \in 0 .. mod - 1
  BY <1>1, ProbeInRange
<1>6. ASSUME NEW j \in 0 .. mod - 1, i < j PROVE Probe(k, i) # Probe(k, j)
  BY <1>1, <1>2, <1>4, <1>6, Distinct
<1> QED
  BY <1>5, <1>6

\* So fewer keys than slots leave a probe of any other key free.
LEMMA RoomEnough ==
  ASSUME SaveInv, DiskInv, RoomInv, pc = "fill", Cardinality(want) < mod,
         NEW k \in Keys \ want, Number[k] >= 0
  PROVE  Search(k) = "stored"
<1> DEFINE Ends == {i \in 0 .. mod - 1 :
                      Probe(k, i) < 0 \/ At(k, i).to = 0 \/ buf[At(k, i).from + 1] = k}
<1>0. /\ TableInv /\ OneSlotEach /\ IsPrime(mod) /\ mod \in Nat \ {0, 1}
      /\ slots \in [1 .. mod -> Slot]
  BY DEF DiskInv, RoomInv, SaveInv, SaveTypeOK
<1>1. \A i \in 0 .. mod - 1 : Probe(k, i) \in 0 .. mod - 1 /\ Probe(k, i) + 1 \in 1 .. mod
  BY <1>0, ProbesDiffer
<1>2. \A n \in 1 .. mod : Occupied(n) => KeyAt(n) \in want
  BY <1>0 DEF TableInv, EntryAt
<1>3. Ends # {}
  <2> SUFFICES ASSUME Ends = {} PROVE FALSE
    OBVIOUS
  <2> DEFINE S == 0 .. mod - 1
             f == [i \in S |-> KeyAt(Probe(k, i) + 1)]
  <2>1. \A i \in S : Occupied(Probe(k, i) + 1)
    BY DEF At, Occupied
  <2>2. f \in [S -> want]
    BY <1>1, <1>2, <2>1
  <2>3. IsFiniteSet(S) /\ Cardinality(S) = mod
    <3>1. 0 \in Int /\ mod - 1 \in Int /\ ~(0 > mod - 1) /\ (mod - 1) - 0 + 1 = mod
      BY <1>0
    <3> QED
      BY <3>1, FS_Interval
  <2>4. IsFiniteSet(want) /\ Cardinality(want) < Cardinality(S)
    BY <2>3 DEF RoomInv
  <2>5. PICK i \in S, j \in S : i # j /\ f[i] = f[j]
    <3> HIDE DEF S, f
    <3> QED
      BY <2>2, <2>3, <2>4, FS_PigeonHole
  <2>6. Probe(k, i) = Probe(k, j)
    <3>1. Probe(k, i) + 1 = Probe(k, j) + 1
      BY <1>0, <1>1, <2>1, <2>5 DEF OneSlotEach
    <3> QED
      BY <1>1, <3>1
  <2>7. i < j \/ j < i
    BY <1>0, <2>5
  <2> QED
    BY <1>0, <2>6, <2>7, ProbesDiffer
<1>4. PICK i \in Ends : \A j \in Ends : i <= j
  <2>1. Ends \subseteq Nat
    BY <1>0
  <2> QED
    BY <1>3, <2>1, LeastOfNaturals
<1>5. End(k) = {l \in Ends : \A j \in Ends : l <= j}
  BY DEF End, First
<1>6. i \in End(k)
  BY <1>4, <1>5
<1>7. \A l \in End(k) : l \in 0 .. mod - 1 /\ Probe(k, l) >= 0 /\ ~(Probe(k, l) < 0)
  BY SMTT(60), <1>0, <1>1, <1>5
<1>8. At(k, i).to = 0
  <2> SUFFICES ASSUME At(k, i).to # 0 PROVE FALSE
    OBVIOUS
  <2>1. i \in 0 .. mod - 1 /\ buf[At(k, i).from + 1] = k
    BY <1>4, <1>6, <1>7
  <2>2. Occupied(Probe(k, i) + 1) /\ KeyAt(Probe(k, i) + 1) = k
    BY <2>1 DEF At, Occupied, KeyAt
  <2> QED
    BY <1>1, <1>2, <2>1, <2>2
<1> HIDE DEF Ends
<1>9. /\ ~(End(k) = {}) /\ ~(\E l \in End(k) : Probe(k, l) < 0)
      /\ \E l \in End(k) : Probe(k, l) >= 0 /\ At(k, l).to = 0
  BY <1>6, <1>7, <1>8
<1> QED
  BY <1>9, Zenon DEF Search

\* mmap.go:180-228: as long as one slot is free, a key that is not negative and not yet
\* stored finds one, for any table whose number of slots is a prime: no two of its
\* probes are the same slot.
THEOREM RoomForAllHolds == MmapSpec => []RoomForAll
<1>1. MmapInit => RoomInv
  BY CalcModProper, FS_EmptySet DEF MmapInit, RoomInv
<1>2. TableCorrectInv /\ RoomInv /\ [MmapNext]_mmapVars => RoomInv'
  BY SaveInvStep, RoomSteps DEF TableCorrectInv
<1>3. TableCorrectInv /\ RoomInv => RoomForAll
  BY RoomEnough DEF RoomForAll, TableCorrectInv
<1> QED
  BY <1>1, <1>2, <1>3, TableCorrect, PTL DEF MmapSpec
=============================================================================
