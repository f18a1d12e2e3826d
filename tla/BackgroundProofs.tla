-------------------------- MODULE BackgroundProofs --------------------------
(***************************************************************************)
(* Proofs about AsyncExecute and Async as MCBackground puts them together, *)
(* for any calls of Set, futures and awaits.                               *)
(***************************************************************************)
EXTENDS MCBackground, SequenceTheorems, TLAPS

\* All the data of call c, of which there are n, are together in s.
Block(s, c, n) ==
  \E k \in 0 .. Len(s) : k + n <= Len(s) /\ \A j \in 1 .. n : s[k + j] = <<c, j>>

\* The data of each call are together in s, where call c has sizes[c] of them.
Together(s, sizes) == \A i \in 1 .. Len(s) : Block(s, s[i][1], sizes[s[i][1]])

\* Slices are within what has been written in their arrays, and appending to
\* data never writes in the array that exec reads.
SlicesApart ==
  /\ data.len <= Len(arrays[data.array])
  /\ pc = "exec" => batch.len <= Len(arrays[batch.array]) /\ batch.array # data.array

QueueIInv ==
  /\ TypeOK /\ SlicesApart /\ InOrder
  /\ Together(Content(data), size) /\ (pc = "exec" => Together(Content(batch), size))

----------------------------------------------------------------------------
(* Sequences. *)

\* The beginning of a sequence.
LEMMA PrefixOf ==
  ASSUME NEW S, NEW s \in Seq(S), NEW n \in Nat, n <= Len(s)
  PROVE  /\ SubSeq(s, 1, n) \in Seq(S) /\ Len(SubSeq(s, 1, n)) = n
         /\ \A i \in 1 .. n : SubSeq(s, 1, n)[i] = s[i]
<1>1. \A i \in 1 .. n : s[i] \in S
  BY ElementOfSeq
<1>2. /\ SubSeq(s, 1, n) \in Seq(S)
      /\ Len(SubSeq(s, 1, n)) = IF 1 <= n THEN n - 1 + 1 ELSE 0
      /\ \A i \in 1 .. n - 1 + 1 : SubSeq(s, 1, n)[i] = s[1 + i - 1]
  BY <1>1, SubSeqProperties
<1> QED
  BY <1>2

\* What was there before something was appended is still the beginning.
LEMMA PrefixOfConcat ==
  ASSUME NEW S, NEW s \in Seq(S), NEW t \in Seq(S)
  PROVE  SubSeq(s \o t, 1, Len(s)) = s
<1>0. Len(s) \in Nat
  BY LenProperties
<1>1. CASE Len(s) = 0
  <2>1. s = <<>>
    BY <1>1, EmptySeq
  <2>2. SubSeq(s \o t, 1, Len(s)) = <<>>
    BY <1>1, SubSeqEmpty
  <2> QED
    BY <2>1, <2>2
<1>2. CASE Len(s) # 0
  <2>1. 1 \in 1 .. Len(s) /\ Len(s) \in 1 .. Len(s)
    BY <1>0, <1>2
  <2>2. SubSeq(s \o t, 1, Len(s)) = SubSeq(s, 1, Len(s))
    BY <2>1, SubSeqOfConcat1
  <2> QED
    BY <2>2, SubSeqFull
<1> QED
  BY <1>1, <1>2

\* The elements of a concatenation.
LEMMA ConcatElements ==
  ASSUME NEW S, NEW s \in Seq(S), NEW t \in Seq(S), NEW r, r = s \o t
  PROVE  /\ r \in Seq(S) /\ Len(s) \in Nat /\ Len(t) \in Nat /\ Len(r) = Len(s) + Len(t)
         /\ \A i \in 1 .. Len(s) : r[i] = s[i]
         /\ \A i \in 1 .. Len(t) : r[Len(s) + i] = t[i]
<1>1. Len(s) \in Nat /\ Len(t) \in Nat
  BY LenProperties
<1>2. /\ r \in Seq(S) /\ Len(r) = Len(s) + Len(t)
      /\ \A i \in 1 .. Len(s) + Len(t) : r[i] = IF i <= Len(s) THEN s[i] ELSE t[i - Len(s)]
  BY ConcatProperties
<1>3. ASSUME NEW i \in 1 .. Len(t) PROVE r[Len(s) + i] = t[i]
  <2>1. Len(s) + i \in 1 .. Len(s) + Len(t) /\ ~(Len(s) + i <= Len(s)) /\ Len(s) + i - Len(s) = i
    BY <1>1
  <2> QED
    BY <1>2, <2>1
<1>4. ASSUME NEW i \in 1 .. Len(s) PROVE r[i] = s[i]
  BY <1>1, <1>2
<1> QED
  BY <1>1, <1>2, <1>3, <1>4

\* A piece of a sequence.
LEMMA PieceOf ==
  ASSUME NEW s, NEW x \in 0 .. Len(s), NEW y \in 0 .. Len(s)
  PROVE  SubSeq(s, x + 1, y) \in SubSeqs(s)
  BY DEF SubSeqs

\* The data of a call of Set.
LEMMA WrittenSeq ==
  ASSUME TypeOK, NEW c \in Sets
  PROVE  /\ Written(c) \in Seq(Datum) /\ Len(Written(c)) = size[c] /\ size[c] \in Nat
         /\ \A i \in 1 .. size[c] : Written(c)[i] = <<c, i>>
<1>1. size[c] \in Nat
  BY MaxSizeAssumption DEF TypeOK
<1>2. Written(c) \in [1 .. size[c] -> Datum]
  BY <1>1 DEF Written, Datum
<1>3. Written(c) \in Seq(Datum)
  BY <1>1, <1>2, SeqDef
<1>4. Len(Written(c)) \in Nat /\ DOMAIN Written(c) = 1 .. Len(Written(c))
  BY <1>3, LenProperties
<1>5. 1 .. Len(Written(c)) = 1 .. size[c]
  BY <1>2, <1>4
<1>6. Len(Written(c)) = size[c]
  BY <1>1, <1>4, <1>5
<1> QED
  BY <1>1, <1>3, <1>6 DEF Written

\* The content of a slice that is within its array.
LEMMA ContentSeq ==
  ASSUME TypeOK, NEW s \in Slice, s.len <= Len(arrays[s.array])
  PROVE  Content(s) \in Seq(Datum) /\ Len(Content(s)) = s.len
<1>1. arrays[s.array] \in Seq(Datum) /\ s.len \in Nat
  BY DEF TypeOK, Slice
<1> QED
  BY <1>1, PrefixOf DEF Content

\* Appending the data of a call keeps the data of each call together.
LEMMA TogetherAppend ==
  ASSUME TypeOK, NEW c \in Sets, NEW s \in Seq(Datum), Together(s, size)
  PROVE  Together(s \o Written(c), size)
<1> DEFINE w == Written(c)
<1> SUFFICES ASSUME NEW r, r = s \o w
             PROVE  Together(r, size)
  OBVIOUS
<1>1. /\ w \in Seq(Datum) /\ Len(w) = size[c] /\ size[c] \in Nat
      /\ \A i \in 1 .. size[c] : w[i] = <<c, i>>
  BY WrittenSeq
<1> HIDE DEF w
<1>2. /\ Len(s) \in Nat /\ Len(r) = Len(s) + Len(w)
      /\ \A i \in 1 .. Len(s) : r[i] = s[i]
      /\ \A i \in 1 .. Len(w) : r[Len(s) + i] = w[i]
  BY <1>1, ConcatElements
<1>3. ASSUME NEW d \in Sets, NEW n \in Nat, Block(s, d, n) PROVE Block(r, d, n)
  <2>1. PICK k \in 0 .. Len(s) : k + n <= Len(s) /\ \A j \in 1 .. n : s[k + j] = <<d, j>>
    BY <1>3 DEF Block
  <2>2. \A j \in 1 .. n : r[k + j] = s[k + j]
    BY <1>2, <2>1
  <2>3. k \in 0 .. Len(r) /\ k + n <= Len(r)
    BY <1>1, <1>2, <2>1
  <2> QED
    BY <2>1, <2>2, <2>3 DEF Block
<1>4. Block(r, c, size[c])
  <2>1. \A j \in 1 .. size[c] : r[Len(s) + j] = <<c, j>>
    BY <1>1, <1>2
  <2>2. Len(s) \in 0 .. Len(r) /\ Len(s) + size[c] <= Len(r)
    BY <1>1, <1>2
  <2> QED
    BY <2>1, <2>2 DEF Block
<1>5. ASSUME NEW i \in 1 .. Len(r)
      PROVE  Block(r, r[i][1], size[r[i][1]])
  <2>1. CASE i <= Len(s)
    <3>1. r[i] = s[i] /\ i \in 1 .. Len(s)
      BY <1>1, <1>2, <2>1
    <3>2. s[i] \in Datum
      BY <3>1, ElementOfSeq
    <3>3. size[s[i][1]] \in Nat /\ s[i][1] \in Sets
      BY <3>2, MaxSizeAssumption DEF TypeOK, Datum
    <3>4. Block(s, s[i][1], size[s[i][1]])
      BY <3>1 DEF Together
    <3> QED
      BY <1>3, <3>1, <3>3, <3>4
  <2>2. CASE i > Len(s)
    <3>1. i - Len(s) \in 1 .. size[c] /\ Len(s) + (i - Len(s)) = i
      BY <1>1, <1>2, <2>2
    <3>2. r[i] = <<c, i - Len(s)>>
      <4> DEFINE j == i - Len(s)
      <4>1. j \in 1 .. size[c] /\ Len(s) + j = i
        BY <3>1
      <4> HIDE DEF j
      <4>2. j \in 1 .. Len(w)
        BY <1>1, <4>1
      <4>3. r[Len(s) + j] = w[j] /\ w[j] = <<c, j>>
        BY <1>1, <1>2, <4>1, <4>2
      <4>4. r[i] = <<c, j>>
        BY <4>1, <4>3
      <4> QED BY <4>4 DEF j
    <3>3. r[i][1] = c
      BY <3>2
    <3> QED
      BY <1>4, <3>3
  <2>3. i <= Len(s) \/ i > Len(s)
    BY <1>1, <1>2
  <2> QED
    BY <2>1, <2>2, <2>3
<1> QED
  BY <1>5 DEF Together

----------------------------------------------------------------------------
(* The queue. *)

\* There is always an array that no slice refers to.
LEMMA FreshArray ==
  Fresh \in Arrays /\ Fresh # data.array /\ Fresh # batch.array
<1>1. \E a \in Arrays : a \notin {data.array, batch.array}
  BY DEF Arrays
<1> QED
  BY <1>1 DEF Fresh

\* Set appends the data of its call, and writes in no array but that of data.
LEMMA SetAppends ==
  ASSUME QueueIInv, NEW c \in Sets, Set(c)
  PROVE  /\ TypeOK' /\ SlicesApart'
         /\ Content(data)' = Content(data) \o Written(c)
         /\ pc = "exec" => Content(batch)' = Content(batch)
<1> DEFINE a == arrays[data.array]
           old == Content(data)
           w == Written(c)
           len == data.len + Len(w)
           rest == SubSeq(a, len + 1, Len(a))
<1>0. TypeOK /\ data \in Slice /\ data.array \in Arrays /\ data.len \in Nat /\ a \in Seq(Datum)
  BY DEF QueueIInv, TypeOK, Slice
<1>1. w \in Seq(Datum) /\ Len(w) \in Nat
  BY <1>0, WrittenSeq
<1>2. old \in Seq(Datum) /\ Len(old) = data.len
  BY <1>0, ContentSeq DEF QueueIInv, SlicesApart
<1>3. old \o w \in Seq(Datum) /\ Len(old \o w) = len /\ len \in Nat
  BY <1>0, <1>1, <1>2, ConcatProperties
<1>4. log' \in Seq(Datum) /\ UNCHANGED <<size, pc, batch, tick, seen>> /\ todo' \subseteq Sets
  <2>1. log \in Seq(Datum) /\ log' = log \o w /\ todo \subseteq Sets
    BY <1>0 DEF Set, TypeOK
  <2>2. log \o w \in Seq(Datum)
    BY <1>1, <2>1, ConcatProperties
  <2> QED
    BY <2>1, <2>2 DEF Set
<1>5. CASE /\ len <= capacity[data.array]
           /\ data' = [data EXCEPT !.len = len]
           /\ arrays' = [arrays EXCEPT ![data.array] = (old \o w) \o rest]
           /\ UNCHANGED capacity
  <2>1. rest \in Seq(Datum) /\ Len(rest) = IF len + 1 <= Len(a) THEN Len(a) - len ELSE 0
    <3>1. \A i \in len + 1 .. Len(a) : a[i] \in Datum
      BY <1>0, <1>3, ElementOfSeq
    <3>2. Len(a) \in Nat
      BY <1>0, LenProperties
    <3> HIDE DEF len
    <3>3. /\ rest \in Seq(Datum)
          /\ Len(rest) = IF len + 1 <= Len(a) THEN Len(a) - (len + 1) + 1 ELSE 0
      BY <1>3, <3>1, <3>2, SubSeqProperties
    <3> QED
      BY <1>3, <3>2, <3>3
  <2> DEFINE new == (old \o w) \o rest
  <2>2. new \in Seq(Datum) /\ Len(new) = len + Len(rest)
    BY <1>3, <2>1, ConcatProperties
  <2>3. SubSeq(new, 1, len) = old \o w
    BY <1>3, <2>1, PrefixOfConcat
  <2> HIDE DEF new
  <2>4. /\ arrays'[data.array] = new /\ \A b \in Arrays : b # data.array => arrays'[b] = arrays[b]
        /\ data'.array = data.array /\ data'.len = len /\ data' \in Slice
    BY <1>0, <1>3, <1>5 DEF TypeOK, Slice, new
  <2>5. Len(new) <= capacity[data.array] /\ len <= Len(new)
    <3>1. Len(a) \in Nat /\ Len(a) <= capacity[data.array] /\ capacity[data.array] \in Nat
      BY <1>0, LenProperties DEF TypeOK
    <3> QED
      BY <1>3, <1>5, <2>1, <2>2, <3>1
  <2>6. TypeOK'
    <3>1. arrays' \in [Arrays -> Seq(Datum)]
      BY <1>0, <1>5, <2>2 DEF TypeOK, new
    <3>2. \A b \in DOMAIN arrays' : Len(arrays'[b]) <= capacity'[b]
      BY <1>0, <1>5, <2>4, <2>5, <3>1 DEF TypeOK
    <3> QED
      BY <1>0, <1>4, <1>5, <2>4, <3>1, <3>2 DEF TypeOK
  <2>7. SlicesApart'
    BY <1>0, <1>4, <2>4, <2>5 DEF QueueIInv, SlicesApart, TypeOK, Slice
  <2>8. Content(data)' = old \o w
    BY <2>3, <2>4 DEF Content
  <2>9. pc = "exec" => Content(batch)' = Content(batch)
    BY <1>0, <1>4, <2>4 DEF QueueIInv, SlicesApart, Content, TypeOK, Slice
  <2> QED
    BY <2>6, <2>7, <2>8, <2>9
<1>6. CASE /\ len > capacity[data.array]
           /\ data' = [array |-> Fresh, len |-> len]
           /\ arrays' = [arrays EXCEPT ![Fresh] = old \o w]
           /\ \E larger \in len .. len + 1 : capacity' = [capacity EXCEPT ![Fresh] = larger]
  <2> DEFINE f == Fresh
             new == old \o w
  <2>1. f \in Arrays /\ f # batch.array
    BY FreshArray
  <2> HIDE DEF f, new
  <2>2. /\ arrays' = [arrays EXCEPT ![f] = new] /\ data' = [array |-> f, len |-> len]
        /\ new \in Seq(Datum) /\ Len(new) = len
    BY <1>3, <1>6 DEF f, new
  <2>3. PICK larger \in len .. len + 1 : capacity' = [capacity EXCEPT ![f] = larger]
    BY <1>6 DEF f
  <2>4. larger \in Nat /\ len <= larger
    BY <1>3, <2>3
  <2>5. /\ arrays'[f] = new /\ capacity'[f] = larger
        /\ \A b \in Arrays : b # f => arrays'[b] = arrays[b] /\ capacity'[b] = capacity[b]
    BY <1>0, <2>1, <2>2, <2>3 DEF TypeOK
  <2>6. TypeOK'
    <3>1. arrays' \in [Arrays -> Seq(Datum)] /\ capacity' \in [Arrays -> Nat]
      BY <1>0, <2>2, <2>3, <2>4 DEF TypeOK
    <3>2. \A b \in DOMAIN arrays' : Len(arrays'[b]) <= capacity'[b]
      BY <1>0, <2>2, <2>4, <2>5, <3>1 DEF TypeOK
    <3>3. data' \in Slice
      BY <1>3, <2>1, <2>2 DEF Slice
    <3> QED
      BY <1>0, <1>4, <3>1, <3>2, <3>3 DEF TypeOK
  <2>7. SlicesApart'
    <3>1. data'.len <= Len(arrays'[data'.array])
      BY <1>3, <2>2, <2>5
    <3>2. batch.array \in Arrays /\ batch.array # f
      BY <1>0, <2>1 DEF TypeOK, Slice
    <3> QED
      BY <1>4, <2>2, <2>5, <3>1, <3>2 DEF QueueIInv, SlicesApart
  <2>8. Content(data)' = new
    BY <2>2, <2>5, SubSeqFull DEF Content
  <2>9. pc = "exec" => Content(batch)' = Content(batch)
    BY <1>0, <1>4, <2>1, <2>5 DEF Content, TypeOK, Slice
  <2> QED
    BY <2>6, <2>7, <2>8, <2>9 DEF new
<1> QED
  BY <1>5, <1>6 DEF Set, AppendTo, Content

\* Set keeps what exec has read, is about to read, and what waits in order.
LEMMA SetKeeps ==
  ASSUME QueueIInv, NEW c \in Sets, Set(c)
  PROVE  QueueIInv'
<1>0. TypeOK /\ InOrder
  BY DEF QueueIInv
<1>1. /\ TypeOK' /\ SlicesApart'
      /\ Content(data)' = Content(data) \o Written(c)
      /\ pc = "exec" => Content(batch)' = Content(batch)
  BY SetAppends
<1>2. Content(data) \in Seq(Datum) /\ Written(c) \in Seq(Datum)
  BY <1>0, ContentSeq, WrittenSeq DEF QueueIInv, SlicesApart, TypeOK
<1>3. InExec \in Seq(Datum) /\ seen \in Seq(Datum)
  BY <1>0, ContentSeq, EmptySeq DEF QueueIInv, SlicesApart, TypeOK, InExec
<1>4. UNCHANGED <<size, pc, batch, seen>> /\ log' = log \o Written(c)
  BY DEF Set
<1>5. InExec' = InExec
  BY <1>1, <1>4 DEF InExec
<1>6. InOrder'
  <2> DEFINE read == seen \o InExec
  <2>1. read \in Seq(Datum)
    BY <1>3, ConcatProperties
  <2>2. log = read \o Content(data)
    BY <1>0 DEF InOrder
  <2> HIDE DEF read
  <2>3. (read \o Content(data)) \o Written(c) = read \o (Content(data) \o Written(c))
    BY SMTT(60), <1>2, <2>1, ConcatAssociative
  <2>4. log' = read \o Content(data)'
    BY <1>1, <1>4, <2>2, <2>3
  <2> QED
    BY <1>4, <1>5, <2>4 DEF InOrder, read
<1>7. Together(Content(data)', size') /\ (pc = "exec" => Together(Content(batch)', size'))
  <2>1. Together(Content(data) \o Written(c), size)
    BY <1>0, <1>2, TogetherAppend DEF QueueIInv
  <2> QED
    BY <1>1, <1>4, <2>1 DEF QueueIInv
<1> QED
  BY <1>1, <1>4, <1>6, <1>7 DEF QueueIInv

\* Get hands over the slice and leaves an array that nobody reads.
LEMMA GetKeeps ==
  ASSUME QueueIInv, Get
  PROVE  QueueIInv'
<1> DEFINE f == Fresh
<1>0. TypeOK /\ InOrder /\ data \in Slice /\ data.array \in Arrays /\ data.len \in Nat
  BY DEF QueueIInv, TypeOK, Slice
<1>1. f \in Arrays /\ f # data.array
  BY FreshArray
<1> HIDE DEF f
<1>2. /\ pc = "get" /\ pc' = (IF data.len > 0 THEN "exec" ELSE "wait") /\ batch' = data
      /\ data' = [array |-> f, len |-> 0] /\ arrays' = [arrays EXCEPT ![f] = <<>>]
      /\ capacity' = [capacity EXCEPT ![f] = capacity[data.array]]
      /\ UNCHANGED <<todo, size, tick, log, seen>>
  BY DEF Get, Renew, f
<1>3. <<>> \in Seq(Datum) /\ Len(<<>>) = 0
  BY EmptySeq
<1>4. /\ arrays'[f] = <<>> /\ \A b \in Arrays : b # f => arrays'[b] = arrays[b]
      /\ arrays' \in [Arrays -> Seq(Datum)] /\ capacity' \in [Arrays -> Nat]
      /\ data' \in Slice
  BY <1>0, <1>1, <1>2, <1>3 DEF TypeOK, Slice
<1>5. TypeOK'
  <2>1. \A b \in DOMAIN arrays' : Len(arrays'[b]) <= capacity'[b]
    BY <1>0, <1>1, <1>2, <1>3, <1>4 DEF TypeOK
  <2> QED
    BY <1>0, <1>2, <1>4, <2>1 DEF TypeOK
<1>6. SlicesApart'
  BY <1>0, <1>1, <1>2, <1>3, <1>4 DEF QueueIInv, SlicesApart
<1>7. Content(data)' = <<>> /\ Content(batch)' = Content(data)
  <2>1. SubSeq(<<>>, 1, 0) = <<>>
    BY SubSeqEmpty
  <2> QED
    BY <1>0, <1>1, <1>2, <1>4, <2>1 DEF Content
<1>8. Content(data) \in Seq(Datum) /\ Len(Content(data)) = data.len /\ seen \in Seq(Datum)
  BY <1>0, ContentSeq DEF QueueIInv, SlicesApart, TypeOK
<1>9. InExec = <<>> /\ InExec' = Content(data)
  <2>1. data.len = 0 => Content(data) = <<>>
    BY <1>8, EmptySeq
  <2> QED
    BY <1>0, <1>2, <1>7, <2>1 DEF InExec
<1>10. InOrder'
  <2>1. log = seen \o Content(data)
    BY <1>0, <1>8, <1>9, ConcatEmptySeq DEF InOrder
  <2>2. (seen \o Content(data)) \o <<>> = seen \o Content(data)
    BY <1>8, ConcatProperties, ConcatEmptySeq
  <2> QED
    BY <1>2, <1>7, <1>9, <2>1, <2>2 DEF InOrder
<1>11. Together(Content(data)', size') /\ Together(Content(batch)', size')
  <2>1. Together(<<>>, size)
    BY <1>3 DEF Together
  <2> QED
    BY <1>2, <1>7, <2>1 DEF QueueIInv
<1> QED
  BY <1>5, <1>6, <1>10, <1>11 DEF QueueIInv

\* The other steps of the goroutine and of the ticker.
LEMMA QueueOtherKeeps ==
  ASSUME QueueIInv, ExecReturns \/ Tick \/ AwaitTick
  PROVE  QueueIInv'
<1>0. TypeOK /\ InOrder /\ SlicesApart
  BY DEF QueueIInv
<1>1. CASE ExecReturns
  <2>1. /\ pc = "exec" /\ seen' = seen \o Content(batch) /\ pc' = "wait"
        /\ UNCHANGED <<arrays, data, capacity, todo, size, batch, tick, log>>
    BY <1>1 DEF ExecReturns, Content
  <2>2. /\ Content(batch) \in Seq(Datum) /\ seen \in Seq(Datum) /\ Content(data) \in Seq(Datum)
    BY <1>0, <2>1, ContentSeq DEF SlicesApart, TypeOK
  <2>3. seen' \in Seq(Datum)
    BY <2>1, <2>2, ConcatProperties
  <2>4. InExec = Content(batch) /\ InExec' = <<>> /\ Content(data)' = Content(data)
    BY <2>1 DEF InExec, Content
  <2>5. InOrder'
    BY <1>0, <2>1, <2>3, <2>4, ConcatEmptySeq DEF InOrder
  <2>6. Together(Content(data)', size')
    BY <2>1, <2>4 DEF QueueIInv
  <2> QED
    BY <1>0, <2>1, <2>3, <2>5, <2>6 DEF QueueIInv, TypeOK, SlicesApart
<1>2. CASE Tick \/ AwaitTick
  <2>1. /\ UNCHANGED <<arrays, data, capacity, todo, size, batch, log, seen>>
        /\ pc' \in {"get", "exec", "wait"} /\ (pc' = "exec" <=> pc = "exec") /\ tick' \in BOOLEAN
    BY <1>0, <1>2 DEF Tick, AwaitTick, TypeOK
  <2>2. Content(data)' = Content(data) /\ Content(batch)' = Content(batch) /\ InExec' = InExec
    BY <2>1 DEF Content, InExec
  <2>3. TypeOK' /\ SlicesApart'
    BY <1>0, <2>1 DEF TypeOK, SlicesApart
  <2>4. InOrder'
    BY <1>0, <2>1, <2>2 DEF InOrder
  <2> QED
    BY <2>1, <2>2, <2>3, <2>4 DEF QueueIInv
<1> QED
  BY <1>1, <1>2

\* In the first state nothing has been set.
LEMMA QueueInit == MCInit => QueueIInv
<1> SUFFICES ASSUME MCInit PROVE QueueIInv
  OBVIOUS
<1>1. /\ arrays = [a \in Arrays |-> <<>>] /\ capacity = [a \in Arrays |-> Cap]
      /\ data = [array |-> 1, len |-> 0] /\ batch = [array |-> 1, len |-> 0]
      /\ todo = Sets /\ size \in [Sets -> 0 .. MaxSize]
      /\ pc = "get" /\ tick = FALSE /\ log = <<>> /\ seen = <<>>
  BY DEF MCInit, Init
<1>2. <<>> \in Seq(Datum) /\ Len(<<>>) = 0 /\ <<>> \o <<>> = <<>>
  BY EmptySeq, ConcatEmptySeq
<1>3. data \in Slice /\ batch \in Slice /\ 1 \in Arrays
  BY <1>1 DEF Slice, Arrays
<1>4. Content(data) = <<>> /\ InExec = <<>>
  BY <1>1, <1>3, SubSeqEmpty DEF Content, InExec
<1>5. TypeOK /\ SlicesApart
  <2>1. arrays \in [Arrays -> Seq(Datum)] /\ capacity \in [Arrays -> Nat]
    BY <1>1, <1>2, CapAssumption
  <2>2. \A a \in Arrays : arrays[a] = <<>> /\ capacity[a] = Cap
    BY <1>1
  <2>3. \A a \in DOMAIN arrays : Len(arrays[a]) <= capacity[a]
    BY <1>2, <2>1, <2>2, CapAssumption
  <2>4. log \in Seq(Datum) /\ seen \in Seq(Datum)
    BY <1>1, <1>2
  <2>5. TypeOK
    BY <1>1, <1>3, <2>1, <2>3, <2>4 DEF TypeOK
  <2>6. arrays[data.array] = <<>> /\ data.len = 0
    BY <1>1, <1>3, <2>2
  <2>7. SlicesApart
    BY <1>1, <1>2, <2>6 DEF SlicesApart
  <2> QED
    BY <2>5, <2>7
<1>6. InOrder
  BY <1>1, <1>2, <1>4 DEF InOrder
<1>7. Together(Content(data), size)
  BY <1>2, <1>4 DEF Together
<1> QED
  BY <1>1, <1>5, <1>6, <1>7 DEF QueueIInv

\* Steps of the futures leave the queue alone.
LEMMA QueueStutter ==
  ASSUME QueueIInv, UNCHANGED vars
  PROVE  QueueIInv'
<1>1. UNCHANGED <<arrays, data, capacity, todo, size, pc, batch, tick, log, seen>>
  BY DEF vars
<1>2. Content(data)' = Content(data) /\ Content(batch)' = Content(batch) /\ InExec' = InExec
  BY <1>1 DEF Content, InExec
<1>3. TypeOK' /\ SlicesApart'
  BY <1>1 DEF QueueIInv, TypeOK, SlicesApart
<1>4. InOrder'
  BY <1>1, <1>2 DEF QueueIInv, InOrder
<1> QED
  BY <1>1, <1>2, <1>3, <1>4 DEF QueueIInv

\* Every step keeps the queue's invariant.
LEMMA QueueNext == QueueIInv /\ [MCNext]_allVars => QueueIInv'
<1> SUFFICES ASSUME QueueIInv, [MCNext]_allVars PROVE QueueIInv'
  OBVIOUS
<1>1. Next \/ UNCHANGED vars
  BY DEF MCNext, InQueue, InFutures, allVars
<1> QED
  BY <1>1, SetKeeps, GetKeeps, QueueOtherKeeps, QueueStutter DEF Next, Loop

\* Where the data of each call are together, the batch holds them as a piece.
LEMMA NotSplitFollows == QueueIInv => NotSplit
<1> SUFFICES ASSUME QueueIInv, pc = "exec", NEW i \in 1 .. batch.len,
                    NEW c, c = Content(batch)[i][1]
             PROVE  Written(c) \in SubSeqs(Content(batch))
  BY DEF NotSplit
<1> DEFINE s == Content(batch)
<1>0. TypeOK
  BY DEF QueueIInv
<1>1. s \in Seq(Datum) /\ Len(s) = batch.len
  BY <1>0, ContentSeq DEF QueueIInv, SlicesApart, TypeOK
<1>2. Together(s, size) /\ c = s[i][1] /\ i \in 1 .. Len(s)
  BY <1>1 DEF QueueIInv
<1> HIDE DEF s
<1>3. c \in Sets
  BY <1>1, <1>2, ElementOfSeq DEF Datum
<1>4. /\ Written(c) \in Seq(Datum) /\ Len(Written(c)) = size[c] /\ size[c] \in Nat
      /\ \A j \in 1 .. size[c] : Written(c)[j] = <<c, j>>
  BY <1>0, <1>3, WrittenSeq
<1>5. PICK k \in 0 .. Len(s) :
        k + size[c] <= Len(s) /\ \A j \in 1 .. size[c] : s[k + j] = <<c, j>>
  BY <1>2 DEF Together, Block
<1>6. Len(s) \in Nat /\ k \in Nat /\ size[c] \in Nat /\ k + size[c] \in 0 .. Len(s)
  BY <1>1, <1>4, <1>5, LenProperties
<1> DEFINE piece == SubSeq(s, k + 1, k + size[c])
<1>7. piece \in Seq(Datum) /\ Len(piece) = size[c] /\ \A j \in 1 .. size[c] : piece[j] = s[k + j]
  <2> DEFINE m == k + 1
             n == k + size[c]
  <2>1. m \in Int /\ n \in Int /\ n - m + 1 = size[c] /\ (m <= n <=> 1 <= size[c])
    BY SMTT(60), <1>6
  <2>2. \A j \in m .. n : s[j] \in Datum
    <3>1. ASSUME NEW j \in m .. n PROVE j \in 1 .. Len(s)
      <4>1. j \in Int /\ k + 1 <= j /\ j <= k + size[c] /\ k + size[c] <= Len(s)
        BY <1>5, <2>1
      <4> QED
        BY <1>6, <4>1
    <3> QED
      BY <1>1, <3>1, ElementOfSeq
  <2>3. \A j \in 1 .. size[c] : m + j - 1 = k + j
    BY <1>6
  <2> HIDE DEF m, n
  <2>4. /\ SubSeq(s, m, n) \in Seq(Datum)
        /\ Len(SubSeq(s, m, n)) = IF m <= n THEN n - m + 1 ELSE 0
        /\ \A j \in 1 .. n - m + 1 : SubSeq(s, m, n)[j] = s[m + j - 1]
    BY <2>1, <2>2, SubSeqProperties
  <2>5. Len(SubSeq(s, m, n)) = size[c]
    BY <1>4, <2>1, <2>4
  <2> QED
    BY <2>1, <2>3, <2>4, <2>5 DEF m, n
<1> HIDE DEF piece
<1>8. \A j \in 1 .. size[c] : Written(c)[j] = piece[j]
  BY <1>4, <1>5, <1>7
<1>9. Written(c) = piece
  BY <1>4, <1>7, <1>8, SeqEqual
<1>10. piece \in SubSeqs(s)
  <2>1. k \in 0 .. Len(s) /\ k + size[c] \in 0 .. Len(s)
    BY <1>5, <1>6
  <2> QED
    BY <2>1, PieceOf DEF piece
<1> QED
  BY <1>9, <1>10 DEF s

\* What is set reaches exec in the order of the calls, unchanged, and the data of
\* each call together, whatever arrays the slices are moved to.
THEOREM QueueCorrect == MCSpec => []QueueInv
<1>1. QueueIInv => QueueInv
  BY NotSplitFollows DEF QueueIInv, QueueInv
<1> QED
  BY <1>1, QueueInit, QueueNext, PTL DEF MCSpec

----------------------------------------------------------------------------
(* The futures. *)

\* What the awaits of future f have received.
Unanswered(f) == \A a \in Awaits : future[a] = f => got[a] = {}
Delivered(f)  == \E a \in Awaits : future[a] = f /\ got[a] = {f}

\* The result of f is on its way, in the channel, or with one of those that await
\* it; its channel is closed only when the goroutine has exited.
Underway(f) ==
  /\ chan[f] \in {<<>>, <<f>>}
  /\ running[f] \in {"no", "fn", "send"} => chan[f] = <<>> /\ Unanswered(f)
  /\ f \in closed => running[f] = "exited"
  /\ chan[f] = <<f>> => Unanswered(f)
  /\ running[f] \in {"close", "exited"} => chan[f] = <<f>> \/ Delivered(f)

\* The result of a future is with one await at most.
DeliveredOnce ==
  \A a, b \in Awaits :
    future[a] = future[b] /\ got[a] = {future[a]} /\ got[b] = {future[b]} => a = b

FuturesIInv ==
  /\ F!TypeOK
  /\ \A f \in Futures : Underway(f)
  /\ DeliveredOnce

\* At first there are no results.
LEMMA FuturesInit == MCInit => FuturesIInv
<1> SUFFICES ASSUME F!Init PROVE FuturesIInv
  BY DEF MCInit
<1>1. <<>> \in Seq(Futures)
  BY EmptySeq
<1>2. F!TypeOK
  BY <1>1 DEF F!Init, F!TypeOK
<1>3. ASSUME NEW f \in Futures PROVE Underway(f)
  BY DEF F!Init, Underway, Unanswered
<1>4. DeliveredOnce
  <2>1. \A a \in Awaits : got[a] = {}
    BY DEF F!Init
  <2> QED
    BY <2>1 DEF DeliveredOnce
<1> QED
  BY <1>2, <1>3, <1>4 DEF FuturesIInv

\* The goroutine of a future runs.
LEMMA GoroutineKeeps ==
  ASSUME FuturesIInv, NEW f \in Futures, F!Go(f) \/ F!Finish(f)
  PROVE  FuturesIInv'
<1>0. F!TypeOK /\ Underway(f) /\ DeliveredOnce /\ UNCHANGED <<future, got>>
  BY DEF FuturesIInv, F!Go, F!Finish, F!FnReturns, F!Send, F!Close
<1>1. \A g \in Futures : (Unanswered(g)' <=> Unanswered(g)) /\ (Delivered(g)' <=> Delivered(g))
  BY <1>0 DEF Unanswered, Delivered
<1>2. DeliveredOnce'
  BY <1>0 DEF DeliveredOnce
<1>3. SUFFICES /\ F!TypeOK'
               /\ Underway(f)'
               /\ \A g \in Futures \ {f} : /\ running'[g] = running[g] /\ chan'[g] = chan[g]
                                           /\ g \in closed' <=> g \in closed
  <2>1. ASSUME NEW g \in Futures, g # f PROVE Underway(g)'
    BY <1>1, <1>3, <2>1 DEF FuturesIInv, Underway
  <2> QED
    BY <1>2, <1>3, <2>1 DEF FuturesIInv
<1>4. CASE F!Go(f) \/ F!FnReturns(f)
  <2>1. PICK label \in {"fn", "send"} : running' = [running EXCEPT ![f] = label]
    BY <1>4 DEF F!Go, F!FnReturns, F!Becomes
  <2>2. running[f] \in {"no", "fn"} /\ UNCHANGED <<chan, closed>>
    BY <1>4 DEF F!Go, F!FnReturns
  <2>3. F!TypeOK' /\ running'[f] = label
    BY <1>0, <2>1, <2>2 DEF F!TypeOK
  <2>4. Underway(f)'
    BY <1>0, <1>1, <2>2, <2>3 DEF Underway
  <2> QED
    BY <1>0, <2>1, <2>2, <2>3, <2>4 DEF F!TypeOK
<1>5. CASE F!Send(f)
  <2>1. /\ running[f] = "send" /\ running' = [running EXCEPT ![f] = "close"]
        /\ chan' = [chan EXCEPT ![f] = Append(@, f)] /\ UNCHANGED closed
    BY <1>5 DEF F!Send, F!Becomes
  <2>2. chan[f] = <<>> /\ Append(chan[f], f) = <<f>> /\ <<f>> \in Seq(Futures)
    <3>1. chan[f] = <<>>
      BY <1>0, <2>1 DEF Underway
    <3>2. Append(<<>>, f) = <<f>> /\ <<f>> \in Seq(Futures)
      OBVIOUS
    <3> QED
      BY <3>1, <3>2
  <2>3. chan'[f] = <<f>> /\ running'[f] = "close"
    BY <1>0, <2>1, <2>2 DEF F!TypeOK
  <2>4. F!TypeOK'
    BY <1>0, <2>1, <2>2 DEF F!TypeOK
  <2>5. Underway(f)'
    BY <1>0, <1>1, <2>1, <2>3 DEF Underway
  <2> QED
    BY <1>0, <2>1, <2>4, <2>5 DEF F!TypeOK
<1>6. CASE F!Close(f)
  <2>1. /\ running[f] = "close" /\ running' = [running EXCEPT ![f] = "exited"]
        /\ closed' = closed \cup {f} /\ UNCHANGED chan
    BY <1>6 DEF F!Close, F!Becomes
  <2>2. F!TypeOK' /\ running'[f] = "exited"
    BY <1>0, <2>1 DEF F!TypeOK
  <2>3. Underway(f)'
    BY <1>0, <1>1, <2>1, <2>2 DEF Underway
  <2> QED
    BY <1>0, <2>1, <2>2, <2>3 DEF F!TypeOK
<1> QED
  BY <1>4, <1>5, <1>6 DEF F!Finish

\* An await receives the result, or finds the channel closed and drained.
LEMMA AwaitKeeps ==
  ASSUME FuturesIInv, NEW a \in Awaits, NEW f, f = future[a], F!Await(a)
  PROVE  FuturesIInv'
<1>0. F!TypeOK /\ f \in Futures /\ Underway(f) /\ DeliveredOnce
  BY DEF FuturesIInv, F!TypeOK
<1>1. UNCHANGED <<closed, running, future>> /\ got[a] = {}
  BY DEF F!Await
<1>2. PICK r \in Futures \cup {Zero} :
        /\ got' = [got EXCEPT ![a] = {r}]
        /\ \/ r = f /\ chan[f] = <<f>> /\ chan' = [chan EXCEPT ![f] = <<>>]
           \/ r = Zero /\ chan[f] = <<>> /\ f \in closed /\ UNCHANGED chan
  <2>1. CASE /\ chan[f] # <<>>
             /\ got' = [got EXCEPT ![a] = {Head(chan[f])}]
             /\ chan' = [chan EXCEPT ![f] = Tail(@)]
    <3>1. chan[f] = <<f>>
      BY <1>0, <2>1 DEF Underway
    <3>2. Head(<<f>>) = f /\ Tail(<<f>>) = <<>>
      OBVIOUS
    <3> QED
      BY <1>0, <2>1, <3>1, <3>2
  <2>2. CASE chan[f] = <<>> /\ f \in closed /\ got' = [got EXCEPT ![a] = {Zero}] /\ UNCHANGED chan
    BY <2>2
  <2> QED
    BY <2>1, <2>2 DEF F!Await
<1>3. got'[a] = {r} /\ \A b \in Awaits : b # a => got'[b] = got[b]
  BY <1>0, <1>2 DEF F!TypeOK
<1>4. F!TypeOK'
  <2>1. <<>> \in Seq(Futures)
    BY EmptySeq
  <2>2. chan' \in [Futures -> Seq(Futures)]
    BY <1>0, <1>2, <2>1 DEF F!TypeOK
  <2>3. got' \in [Awaits -> SUBSET (Futures \cup {Zero})]
    BY <1>0, <1>2 DEF F!TypeOK
  <2> QED
    BY <1>0, <1>1, <2>2, <2>3 DEF F!TypeOK
<1>5. ASSUME NEW g \in Futures, g # f PROVE Underway(g)'
  <2>1. chan'[g] = chan[g]
    BY <1>0, <1>2, <1>5 DEF F!TypeOK
  <2>2. (Unanswered(g)' <=> Unanswered(g)) /\ (Delivered(g)' <=> Delivered(g))
    BY <1>1, <1>3, <1>5 DEF Unanswered, Delivered
  <2>3. Underway(g)
    BY <1>5 DEF FuturesIInv
  <2> QED
    BY <1>1, <2>1, <2>2, <2>3 DEF Underway
<1>6. CASE r = f /\ chan[f] = <<f>> /\ chan' = [chan EXCEPT ![f] = <<>>]
  <2>1. Unanswered(f) /\ chan'[f] = <<>> /\ running[f] \in {"close", "exited"}
    <3>1. <<f>> # <<>>
      OBVIOUS
    <3> QED
      BY <1>0, <1>6, <3>1 DEF Underway, F!TypeOK
  <2>2. \E b \in Awaits : future'[b] = f /\ got'[b] = {f}
    BY <1>1, <1>3, <1>6
  <2>3. Underway(f)'
    BY <1>0, <1>1, <2>1, <2>2 DEF Underway, Delivered
  <2>4. DeliveredOnce'
    <3>1. \A b \in Awaits : future'[b] = f /\ got'[b] = {f} => b = a
      BY <1>1, <1>3, <2>1 DEF Unanswered
    <3>2. \A b \in Awaits : future[b] # f => got'[b] = got[b]
      BY <1>3
    <3> QED
      BY <1>0, <1>1, <3>1, <3>2 DEF DeliveredOnce
  <2> QED
    BY <1>4, <1>5, <2>3, <2>4 DEF FuturesIInv
<1>7. CASE r = Zero /\ chan[f] = <<>> /\ f \in closed /\ UNCHANGED chan
  <2>1. running[f] = "exited"
    BY <1>0, <1>7 DEF Underway
  <2>2. PICK b \in Awaits : future[b] = f /\ got[b] = {f}
    <3>1. <<f>> # <<>>
      OBVIOUS
    <3> QED
      BY <1>0, <1>7, <2>1, <3>1 DEF Underway, Delivered
  <2>3. \E c \in Awaits : future'[c] = f /\ got'[c] = {f}
    <3>1. b # a
      BY <1>1, <2>2
    <3> QED
      BY <1>1, <1>3, <2>2, <3>1
  <2>4. Underway(f)'
    <3>1. <<f>> # <<>>
      OBVIOUS
    <3> QED
      BY <1>0, <1>1, <1>7, <2>1, <2>3, <3>1 DEF Underway, Delivered
  <2>5. DeliveredOnce'
    <3>1. got'[a] # {future[a]}
      BY <1>0, <1>3, <1>7, ZeroAssumption
    <3> QED
      BY <1>0, <1>1, <1>3, <3>1 DEF DeliveredOnce
  <2> QED
    BY <1>4, <1>5, <2>4, <2>5 DEF FuturesIInv
<1> QED
  BY <1>2, <1>6, <1>7

\* Every step keeps where the results are.
LEMMA FuturesNext == FuturesIInv /\ [MCNext]_allVars => FuturesIInv'
<1> SUFFICES ASSUME FuturesIInv, [MCNext]_allVars PROVE FuturesIInv'
  OBVIOUS
<1>1. CASE UNCHANGED futureVars
  BY <1>1 DEF futureVars, FuturesIInv, F!TypeOK, Underway, Unanswered, Delivered, DeliveredOnce
<1>2. CASE F!Next
  BY <1>2, GoroutineKeeps, AwaitKeeps DEF F!Next
<1> QED
  BY <1>1, <1>2 DEF MCNext, InQueue, InFutures, allVars

\* Where the zero result was returned the channel was closed and drained, so
\* the result is with another await, and with that one only.
LEMMA DeliveredFirstFollows == FuturesIInv => F!DeliveredFirst
<1> SUFFICES ASSUME FuturesIInv, NEW f \in Futures, NEW of, of = {a \in Awaits : future[a] = f}
             PROVE  /\ \A a, b \in of : got[a] = {f} /\ got[b] = {f} => a = b
                    /\ (\E a \in of : got[a] = {Zero}) => \E a \in of : got[a] = {f}
  BY DEF F!DeliveredFirst
<1>1. \A a, b \in of : got[a] = {f} /\ got[b] = {f} => a = b
  BY DEF FuturesIInv, DeliveredOnce
<1>2. ASSUME NEW a \in Awaits, future[a] = f, got[a] = {Zero}
      PROVE  \E b \in Awaits : future[b] = f /\ got[b] = {f}
  <2>1. ~Unanswered(f) /\ Underway(f) /\ running[f] \in {"no", "fn", "send", "close", "exited"}
    BY <1>2 DEF Unanswered, FuturesIInv, F!TypeOK
  <2> QED
    BY <2>1 DEF Underway, Delivered
<1> QED
  BY <1>1, <1>2

\* The result of a future is returned by one Await at most, and no Await returns
\* the zero result before it.
THEOREM FuturesCorrect == MCSpec => []FutureInv
<1>1. FuturesIInv => FutureInv
  BY DeliveredFirstFollows DEF FuturesIInv, FutureInv, F!FutureInv
<1> QED
  BY <1>1, FuturesInit, FuturesNext, PTL DEF MCSpec
=============================================================================
