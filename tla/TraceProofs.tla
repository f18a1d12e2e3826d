---------------------------- MODULE TraceProofs ----------------------------
(***************************************************************************)
(* Proofs about Trace, for any queries, and any number of measures,        *)
(* samples and traces; and about TraceStats, for any reports, of any       *)
(* number of measures.                                                     *)
(***************************************************************************)
EXTENDS Trace, TraceStats, WellFoundedInduction, SequenceTheorems, FiniteSetTheorems, TLAPS

----------------------------------------------------------------------------
(* Types                                                                   *)

Goroutine ==
  [list : Lists, query : Queries \cup {""}, len : Nat,
   pc : {"look", "sample", "append", "store", "done"}, trace : Nat]
Stages == {"none", "rms", "sms", "hms", "read", "again", "explain", "done"}
Timer ==
  [stage : Stages, old : SUBSET Nat, due : SUBSET Nat, len : [Lists -> Nat],
   read : [Lists -> Seq(Nat)], again : Seq(Nat)]

\* The resets that StartTrace may have yet to make, and the lists among them.
Resets == {<<>>, <<"sampled">>, <<"queries", "sampled">>, <<"hms", "queries", "sampled">>,
           <<"sms", "hms", "queries", "sampled">>, <<"rms", "sms", "hms", "queries", "sampled">>}
Yet(l) == \E i \in DOMAIN starting : starting[i] = l

TypeOK ==
  /\ go \in Seq(Goroutine)
  /\ len \in [Lists -> Nat] /\ cells \in [Lists -> Seq(Nat)] /\ holder \in [Lists -> Nat]
  /\ starting \in Resets /\ traces \in Nat
  /\ timers \in Seq(Timer) /\ Len(timers) = traces
  /\ calm \in BOOLEAN

----------------------------------------------------------------------------
(* The lists                                                               *)

Mine(g)    == cells[go[g].list]
InCell(g)  == go[g].len + 1 \in 1 .. Len(Mine(g)) /\ Mine(g)[go[g].len + 1] = g
Storing(g) == go[g].pc = "store"
Done(g)    == go[g].pc = "done"
Within(g)  == InCell(g) /\ go[g].len + 1 <= len[go[g].list]

\* A cell is filled by a goroutine of its list that had loaded the length before it, and
\* every length that is stored or loaded is one of filled cells.
CellsInv ==
  /\ \A l \in Lists : \A i \in DOMAIN cells[l] :
       /\ cells[l][i] \in DOMAIN go
       /\ go[cells[l][i]].list = l /\ go[cells[l][i]].len + 1 = i
       /\ go[cells[l][i]].pc \in {"store", "done"}
  /\ \A l \in Lists : len[l] <= Len(cells[l])
  /\ \A g \in DOMAIN go : Storing(g) => go[g].len + 1 <= Len(Mine(g))
  /\ \A t \in DOMAIN timers : \A l \in Lists : timers[t].len[l] <= Len(cells[l])

OwnTrace(g) == go[g].trace = traces

\* A goroutine that stores to a list of measures holds its mutex and has its cell; done,
\* it has its measure among the first len cells, if it belongs to the trace.  A length from
\* before a reset is stored only while none of those that belong to the trace is done.
Stored(g) ==
  go[g].list \in Measures =>
    /\ go[g].pc \in {"append", "store", "done"}
    /\ Done(g) /\ OwnTrace(g) => Within(g)
    /\ Storing(g) =>
         /\ holder[go[g].list] = g /\ InCell(g)
         /\ len[go[g].list] <= go[g].len
         /\ \/ len[go[g].list] = go[g].len
            \/ \A h \in DOMAIN go : go[h].list = go[g].list /\ Done(h) => ~OwnTrace(h)

\* While StartTrace runs no goroutine belongs to the trace.
MeasuresInv ==
  /\ starting # <<>> => traces >= 1 /\ \A g \in DOMAIN go : ~OwnTrace(g)
  /\ \A g \in DOMAIN go : go[g].trace <= traces
  /\ \A g \in DOMAIN go : Stored(g)

----------------------------------------------------------------------------
(* The report of the last trace                                            *)

Now       == timers[traces]
Traced    == traces >= 1 /\ starting = <<>>
Loaded(l) == \/ Now.stage \in {"read", "again", "explain", "done"}
             \/ Now.stage = "sms" /\ l = "rms"
             \/ Now.stage = "hms" /\ l \in {"rms", "sms"}

\* A measure that was done when the report began is counted by the length it loads, and
\* then read.
Counted(g) ==
  OwnTrace(g) => \A l \in Measures : go[g].list = l =>
    /\ Loaded(l) => go[g].len + 1 <= Now.len[l]
    /\ Now.stage \in {"again", "explain", "done"} => g \in Reported(traces, l)
    /\ Now.stage \in {"explain", "done"} /\ l = "sms" => \E i \in DOMAIN Now.again : Now.again[i] = g

ReportInv ==
  /\ \A t \in DOMAIN timers : \A g \in timers[t].due : g \in DOMAIN go /\ Done(g)
  /\ starting # <<>> => Now.stage = "none"
  /\ Traced => /\ Now.stage # "none"
               /\ \A l \in Measures : Loaded(l) => Now.len[l] <= len[l]
               /\ \A g \in Now.due : Counted(g)

----------------------------------------------------------------------------
(* What is old                                                             *)

Clean(l)  == l \notin torn \/ (l = "queries" /\ calm)
Old(l, i) == cells[l][i] \in Now.old

\* The cells filled before StartTrace lie beyond the lengths.
FreshList(l) ==
  /\ ~Yet(l) => \A i \in DOMAIN cells[l] : Old(l, i) =>
       len[l] < i /\ \A g \in DOMAIN go : Storing(g) /\ go[g].list = l => go[g].len + 1 < i
  /\ starting = <<>> /\ l \in Measures /\ Loaded(l) => \A i \in DOMAIN cells[l] : Old(l, i) => Now.len[l] < i
  /\ \A i \in DOMAIN Now.read[l] : Now.read[l][i] \notin Now.old

\* So it is in every list that nobody was appending to when it was reset; in queries,
\* if nobody was sampling, even when two have appended at once since.
OldInv ==
  traces >= 1 =>
    /\ \A g \in Now.old : g \in DOMAIN go /\ Done(g) /\ ~OwnTrace(g)
    /\ calm /\ starting # <<>> => \A g \in DOMAIN go : go[g].list = "queries" => g \in Now.old
    /\ \A l \in Lists : Clean(l) => FreshList(l)

----------------------------------------------------------------------------
(* The queries explained                                                   *)

\* The goroutines that sample a query for this trace, and those that are to have theirs
\* explained: they append it, or have their cell.
Sampler(g) == go[g].list = "queries" /\ g \notin Now.old
Won(g)     == Sampler(g) /\ (go[g].pc \in {"append", "store"} \/ InCell(g))

\* Nobody is past the second look without the query among those seen, and of those with
\* the same query one has won.
Looked    == \A g \in DOMAIN go : Sampler(g) /\ go[g].pc \in {"append", "store", "done"} => go[g].query \in sampled
OneWinner == \A g, h \in DOMAIN go : Won(g) /\ Won(h) /\ go[g].query = go[h].query => g = h

\* Where appends do not meet, the one who stores has its cell next, and every query seen
\* has a winner, who appends it or has it among the first len cells.
LoneStore ==
  \A g \in DOMAIN go : go[g].list = "queries" /\ Storing(g) =>
    /\ InCell(g) /\ go[g].len = len["queries"]
    /\ \A h \in DOMAIN go : go[h].list = "queries" /\ Storing(h) => g = h
Winning(g, query) ==
  Sampler(g) /\ go[g].query = query /\ (go[g].pc \in {"append", "store"} \/ (Done(g) /\ Within(g)))
Winners == \A query \in sampled : query # "" => \E g \in DOMAIN go : Winning(g, query)

SampledInv ==
  Traced /\ calm => Looked /\ OneWinner /\ ("queries" \notin torn => LoneStore /\ Winners)

Logged(query) == {g \in DOMAIN go : go[g].list = "queries" /\ go[g].query = query}
Explains(query) ==
  Logged(query) \subseteq Now.due /\ (\E g \in Logged(query) : OwnTrace(g)) =>
    \E i \in DOMAIN Now.read["queries"] : go[Now.read["queries"][i]].query = query

ExplainedInv ==
  Traced /\ calm /\ Now.stage = "done" =>
    /\ \A i \in DOMAIN Now.read["queries"] : Now.read["queries"][i] \in DOMAIN go
    /\ \A i, j \in DOMAIN Now.read["queries"] :
         i # j => go[Now.read["queries"][i]].query # go[Now.read["queries"][j]].query
    /\ "queries" \notin torn => \A query \in Queries \ {""} : Explains(query)

----------------------------------------------------------------------------
(* What the steps do, goroutine by goroutine                               *)

\* Goroutines that begin: those before them go on as they are.
Begin(gs) ==
  /\ gs \in Seq(Goroutine)
  /\ \A i \in DOMAIN gs : /\ gs[i].pc = IF gs[i].list = "queries" THEN "look" ELSE "append"
                          /\ gs[i].trace = Began

\* A goroutine that appends a measure begins.
LEMMA BeginMeasure ==
  ASSUME TypeOK, NEW l \in Measures
  PROVE  Measure(l) \in Goroutine /\ Begin(<<Measure(l)>>)
<1>1. Measure(l) \in Goroutine
  BY DEF Measure, Goroutine, Lists, Began, TypeOK
<1>2. Measure(l).pc = "append" /\ Measure(l).list = l /\ l # "queries" /\ Measure(l).trace = Began
  BY DEF Measure, Measures
<1>3. <<Measure(l)>> \in Seq(Goroutine)
  BY <1>1
<1> QED
  BY <1>1, <1>2, <1>3 DEF Begin

\* A goroutine that samples a query begins.
LEMMA BeginSampling ==
  ASSUME TypeOK, NEW query \in Queries
  PROVE  Begin(<<Measure("sms"), Sampling(query)>>)
<1>1. Sampling(query) \in Goroutine
  BY DEF Sampling, Goroutine, Lists, Began, TypeOK
<1>2. Measure("sms") \in Goroutine
  BY BeginMeasure DEF Measures
<1>3. <<Measure("sms"), Sampling(query)>> \in Seq(Goroutine)
  BY <1>1, <1>2
<1>4. /\ Measure("sms").pc = "append" /\ Measure("sms").list = "sms" /\ Measure("sms").trace = Began
      /\ Sampling(query).pc = "look" /\ Sampling(query).list = "queries" /\ Sampling(query).trace = Began
  BY DEF Measure, Sampling
<1> QED
  BY <1>3, <1>4 DEF Begin

\* Starting goroutines leaves all else as it is.
LEMMA SpawnStep ==
  ASSUME TypeOK, NEW gs, Begin(gs), Spawn(gs)
  PROVE  /\ go' \in Seq(Goroutine)
         /\ DOMAIN go \subseteq DOMAIN go' /\ \A g \in DOMAIN go : go'[g] = go[g]
         /\ \A g \in DOMAIN go' : g \notin DOMAIN go =>
              /\ go'[g].pc = IF go'[g].list = "queries" THEN "look" ELSE "append"
              /\ go'[g].trace = Began
              /\ calm' /\ go'[g].list = "queries" => starting = <<>>
         /\ calm' \in BOOLEAN /\ (calm' => calm)
         /\ UNCHANGED <<len, cells, holder, sampled, starting, traces, timers, torn>>
<1>1. go' = go \o gs /\ go \in Seq(Goroutine) /\ gs \in Seq(Goroutine)
  BY DEF Spawn, TypeOK, Begin
<1>2. /\ go' \in Seq(Goroutine) /\ Len(go') = Len(go) + Len(gs)
      /\ \A i \in 1 .. Len(go) + Len(gs) : go'[i] = IF i <= Len(go) THEN go[i] ELSE gs[i - Len(go)]
  BY <1>1, ConcatProperties
<1>3. /\ Len(go) \in Nat /\ Len(gs) \in Nat
      /\ DOMAIN go = 1 .. Len(go) /\ DOMAIN gs = 1 .. Len(gs) /\ DOMAIN go' = 1 .. Len(go) + Len(gs)
  BY <1>1, <1>2, LenProperties
<1>4. DOMAIN go \subseteq DOMAIN go' /\ \A g \in DOMAIN go : go'[g] = go[g]
  BY <1>2, <1>3
<1>5. ASSUME NEW g \in DOMAIN go', g \notin DOMAIN go
      PROVE  \E i \in DOMAIN gs : go'[g] = gs[i]
  <2>1. g - Len(go) \in DOMAIN gs /\ go'[g] = gs[g - Len(go)]
    BY <1>2, <1>3, <1>5
  <2> QED
    BY <2>1
<1>6. /\ calm' = (calm /\ ~(starting # <<>> /\ \E i \in DOMAIN gs : gs[i].list = "queries"))
      /\ UNCHANGED <<len, cells, holder, sampled, starting, traces, timers, torn>>
  BY DEF Spawn, listVars
<1>7. \A i \in DOMAIN gs : /\ gs[i].pc = IF gs[i].list = "queries" THEN "look" ELSE "append"
                           /\ gs[i].trace = Began
  BY DEF Begin
<1> QED
  BY ZenonT(120), <1>2, <1>4, <1>5, <1>6, <1>7

\* One goroutine moves on.
Others(g) == DOMAIN go' = DOMAIN go /\ \A h \in DOMAIN go : h # g => go'[h] = go[h]

\* A step of one goroutine moves no other.
LEMMA Moves ==
  ASSUME TypeOK, NEW g \in DOMAIN go, NEW pc \in {"look", "sample", "append", "store", "done"},
         go' = [go EXCEPT ![g].pc = pc]
  PROVE  /\ go' \in Seq(Goroutine) /\ Others(g)
         /\ go'[g].list = go[g].list /\ go'[g].query = go[g].query
         /\ go'[g].len = go[g].len /\ go'[g].trace = go[g].trace /\ go'[g].pc = pc
<1>1. go \in Seq(Goroutine) /\ go[g] \in Goroutine
  BY DEF TypeOK
<1>2. go'[g] = [go[g] EXCEPT !.pc = pc]
  BY <1>1
<1>3. go'[g] \in Goroutine
  BY <1>1, <1>2 DEF Goroutine
<1>4. /\ go'[g].list = go[g].list /\ go'[g].query = go[g].query
      /\ go'[g].len = go[g].len /\ go'[g].trace = go[g].trace /\ go'[g].pc = pc
  BY <1>1, <1>2 DEF Goroutine
<1>5. Others(g)
  BY <1>1 DEF Others
<1>6. go' \in Seq(Goroutine)
  <2>1. go' = [go EXCEPT ![g] = go'[g]]
    BY <1>1, <1>2
  <2> QED
    BY <1>1, <1>3, <2>1, ExceptSeq
<1> QED
  BY <1>4, <1>5, <1>6

\* The first look goes on to the lock, or is the end.
LEMMA LookStep ==
  ASSUME TypeOK, NEW g \in DOMAIN go, Look(g)
  PROVE  /\ go' \in Seq(Goroutine) /\ Others(g)
         /\ go'[g].list = go[g].list /\ go'[g].query = go[g].query
         /\ go'[g].len = go[g].len /\ go'[g].trace = go[g].trace
         /\ go[g].pc = "look"
         /\ \/ go'[g].pc = "sample"
            \/ go'[g].pc = "done" /\ go[g].query \in sampled
         /\ UNCHANGED <<len, cells, holder, sampled, starting, traces, timers, calm, torn>>
<1> DEFINE pc == IF go[g].query \in sampled THEN "done" ELSE "sample"
<1>1. /\ go' = [go EXCEPT ![g].pc = pc] /\ go[g].pc = "look"
      /\ UNCHANGED <<len, cells, holder, sampled, starting, traces, timers, calm, torn>>
  BY DEF Look, At, listVars, traceVars
<1>2. /\ pc \in {"look", "sample", "append", "store", "done"}
      /\ pc = "sample" \/ (pc = "done" /\ go[g].query \in sampled)
  OBVIOUS
<1> HIDE DEF pc
<1> QED
  BY <1>1, <1>2, Moves

\* The second look, under the lock, goes on to append, or is the end.
LEMMA SampleStep ==
  ASSUME TypeOK, NEW g \in DOMAIN go, Sample(g)
  PROVE  /\ go' \in Seq(Goroutine) /\ Others(g)
         /\ go'[g].list = go[g].list /\ go'[g].query = go[g].query
         /\ go'[g].len = go[g].len /\ go'[g].trace = go[g].trace
         /\ go[g].pc = "sample"
         /\ \/ go'[g].pc = "append" /\ go[g].query \notin sampled
            \/ go'[g].pc = "done" /\ (go[g].query \in sampled \/ go[g].query = "")
         /\ sampled' = sampled \cup {go[g].query}
         /\ UNCHANGED <<len, cells, holder, starting, traces, timers, calm, torn>>
<1> DEFINE pc == IF Again(g) \/ go[g].query = "" THEN "done" ELSE "append"
<1>1. /\ go' = [go EXCEPT ![g].pc = pc] /\ go[g].pc = "sample"
      /\ sampled' = sampled \cup {go[g].query}
      /\ UNCHANGED <<len, cells, holder, starting, traces, timers, calm, torn>>
  BY DEF Sample, At, traceVars
<1>2. /\ pc \in {"look", "sample", "append", "store", "done"}
      /\ \/ pc = "append" /\ go[g].query \notin sampled
         \/ pc = "done" /\ (go[g].query \in sampled \/ go[g].query = "")
  BY DEF Again
<1> HIDE DEF pc
<1> QED
  BY <1>1, <1>2, Moves

\* An array with one more cell, or with another one in its place.
LEMMA WithCellProperties ==
  ASSUME NEW a, NEW n, NEW g, a \in Seq(Nat), n \in 1 .. Len(a) + 1, g \in Nat
  PROVE  /\ WithCell(a, n, g) \in Seq(Nat)
         /\ Len(WithCell(a, n, g)) >= Len(a) /\ n \in 1 .. Len(WithCell(a, n, g))
         /\ WithCell(a, n, g)[n] = g
         /\ \A i \in 1 .. Len(WithCell(a, n, g)) : i # n => i \in 1 .. Len(a) /\ WithCell(a, n, g)[i] = a[i]
<1>1. Len(a) \in Nat /\ n \in Nat
  BY LenProperties
<1> DEFINE m == IF n > Len(a) THEN n ELSE Len(a)
           b == WithCell(a, n, g)
<1>2. m \in Nat /\ m >= Len(a) /\ n \in 1 .. m /\ \A i \in 1 .. m : i # n => i \in 1 .. Len(a)
  BY <1>1
<1> HIDE DEF m
<1>3. b = [i \in 1 .. m |-> IF i = n THEN g ELSE a[i]]
  BY DEF WithCell, m
<1> HIDE DEF b
<1>4. \A i \in 1 .. m : b[i] \in Nat
  BY <1>2, <1>3, ElementOfSeq
<1>5. b \in Seq(Nat) /\ Len(b) = m
  BY <1>2, <1>3, <1>4
<1>6. /\ b \in Seq(Nat) /\ Len(b) >= Len(a) /\ n \in 1 .. Len(b) /\ b[n] = g
      /\ \A i \in 1 .. Len(b) : i # n => i \in 1 .. Len(a) /\ b[i] = a[i]
  BY <1>1, <1>2, <1>3, <1>5
<1> QED
  BY <1>6 DEF b

\* A goroutine fills the cell after the length it has loaded, in list l.
Appended(g, l) ==
  /\ go' \in Seq(Goroutine) /\ Others(g) /\ l \in Lists
  /\ go'[g].list = l /\ go'[g].query = go[g].query
  /\ go'[g].len = len[l] /\ go'[g].trace = go[g].trace
  /\ go[g].pc = "append" /\ go'[g].pc = "store"
  /\ l \in Measures => holder[l] = 0 /\ holder'[l] = g
  /\ \A m \in Lists : m # l => holder'[m] = holder[m] /\ cells'[m] = cells[m]
  /\ holder' \in [Lists -> Nat] /\ cells' \in [Lists -> Seq(Nat)]
  /\ len[l] + 1 \in 1 .. Len(cells'[l]) /\ cells'[l][len[l] + 1] = g
  /\ Len(cells[l]) <= Len(cells'[l])
  /\ \A i \in 1 .. Len(cells'[l]) : i # len[l] + 1 =>
       i \in 1 .. Len(cells[l]) /\ cells'[l][i] = cells[l][i]
  /\ torn' = IF l = "queries" /\ Appending(l) THEN torn \cup {l} ELSE torn
  /\ UNCHANGED <<len, sampled, starting, traces, timers, calm>>

\* An append fills the cell after the length it loads.
LEMMA AppendStep ==
  ASSUME TypeOK, CellsInv, NEW g \in DOMAIN go, Append1(g), NEW l, l = go[g].list
  PROVE  Appended(g, l)
<1>1. go \in Seq(Goroutine) /\ go[g] \in Goroutine /\ g \in Nat
  BY DEF TypeOK
<1>2. l \in Lists /\ len[l] \in Nat /\ cells[l] \in Seq(Nat) /\ len[l] <= Len(cells[l]) /\ Len(cells[l]) \in Nat
  BY <1>1, LenProperties DEF TypeOK, Goroutine, CellsInv
<1>3. /\ go' = [go EXCEPT ![g].pc = "store", ![g].len = len[l]] /\ go[g].pc = "append"
      /\ Locked(l) => holder[l] = 0
      /\ holder' = [holder EXCEPT ![l] = IF Locked(l) THEN g ELSE 0]
      /\ cells' = [cells EXCEPT ![l] = WithCell(cells[l], len[l] + 1, g)]
      /\ torn' = IF l = "queries" /\ Appending(l) THEN torn \cup {l} ELSE torn
      /\ UNCHANGED <<len, sampled, starting, traces, timers, calm>>
  BY DEF Append1, At
<1>4. /\ cells'[l] = WithCell(cells[l], len[l] + 1, g)
      /\ \A m \in Lists : m # l => cells'[m] = cells[m]
  BY <1>2, <1>3 DEF TypeOK
<1>5. len[l] + 1 \in 1 .. Len(cells[l]) + 1
  BY <1>2
<1>6. /\ cells'[l] \in Seq(Nat) /\ Len(cells'[l]) >= Len(cells[l]) /\ len[l] + 1 \in 1 .. Len(cells'[l])
      /\ cells'[l][len[l] + 1] = g
      /\ \A i \in 1 .. Len(cells'[l]) : i # len[l] + 1 => i \in 1 .. Len(cells[l]) /\ cells'[l][i] = cells[l][i]
  <2>1. PICK a \in Seq(Nat), n \in Nat : a = cells[l] /\ n = len[l] + 1 /\ n \in 1 .. Len(a) + 1
    BY <1>2, <1>5
  <2>2. /\ WithCell(a, n, g) \in Seq(Nat)
        /\ Len(WithCell(a, n, g)) >= Len(a) /\ n \in 1 .. Len(WithCell(a, n, g))
        /\ WithCell(a, n, g)[n] = g
        /\ \A i \in 1 .. Len(WithCell(a, n, g)) : i # n => i \in 1 .. Len(a) /\ WithCell(a, n, g)[i] = a[i]
    <3>1. a \in Seq(Nat) /\ n \in 1 .. Len(a) + 1 /\ g \in Nat
      BY <1>1, <2>1
    <3> QED
      BY SMTT(60), <3>1, WithCellProperties
  <2>3. cells'[l] = WithCell(a, n, g)
    BY <1>4, <2>1
  <2> QED
    BY <2>1, <2>2, <2>3
<1>7. cells' \in [Lists -> Seq(Nat)]
  BY <1>3, <1>4, <1>6 DEF TypeOK
<1>8. /\ holder' \in [Lists -> Nat]
      /\ \A m \in Lists : m # l => holder'[m] = holder[m]
      /\ l \in Measures => holder[l] = 0 /\ holder'[l] = g
  BY <1>1, <1>2, <1>3 DEF TypeOK, Locked
<1>9. go'[g] = [go[g] EXCEPT !.pc = "store", !.len = len[l]]
  BY <1>1, <1>3
<1>10. /\ go'[g] \in Goroutine
       /\ go'[g].list = l /\ go'[g].query = go[g].query
       /\ go'[g].len = len[l] /\ go'[g].trace = go[g].trace /\ go'[g].pc = "store"
  BY <1>1, <1>2, <1>9 DEF Goroutine
<1>11. Others(g)
  BY <1>1, <1>3 DEF Others
<1>12. go' \in Seq(Goroutine)
  <2>1. go' = [go EXCEPT ![g] = go'[g]]
    BY <1>1, <1>3
  <2> QED
    BY <1>1, <1>10, <2>1, ExceptSeq
<1>13. Len(cells[l]) <= Len(cells'[l])
  <2>1. Len(cells'[l]) \in Nat
    BY <1>6, LenProperties
  <2> QED
    BY <1>2, <1>6, <2>1
<1> QED
  BY <1>2, <1>3, <1>4, <1>6, <1>7, <1>8, <1>10, <1>11, <1>12, <1>13 DEF Appended

\* Then it stores the length.
LEMMA StoreStep ==
  ASSUME TypeOK, NEW g \in DOMAIN go, Store(g), NEW l, l = go[g].list
  PROVE  /\ go' \in Seq(Goroutine) /\ Others(g) /\ l \in Lists
         /\ go'[g].list = l /\ go'[g].query = go[g].query
         /\ go'[g].len = go[g].len /\ go'[g].trace = go[g].trace
         /\ go[g].pc = "store" /\ go'[g].pc = "done"
         /\ len'[l] = go[g].len + 1 /\ len' \in [Lists -> Nat] /\ holder' \in [Lists -> Nat]
         /\ \A m \in Lists : m # l => holder'[m] = holder[m] /\ len'[m] = len[m]
         /\ UNCHANGED <<cells, sampled, starting, traces, timers, calm, torn>>
<1>1. go \in Seq(Goroutine) /\ go[g] \in Goroutine
  BY DEF TypeOK
<1>2. l \in Lists /\ go[g].len \in Nat
  BY <1>1 DEF Goroutine
<1>3. /\ go' = [go EXCEPT ![g].pc = "done"] /\ go[g].pc = "store"
      /\ holder' = [holder EXCEPT ![l] = 0] /\ len' = [len EXCEPT ![l] = go[g].len + 1]
      /\ UNCHANGED <<cells, sampled, starting, traces, timers, calm, torn>>
  BY DEF Store, At, traceVars
<1>4. /\ go' \in Seq(Goroutine) /\ Others(g)
      /\ go'[g].list = go[g].list /\ go'[g].query = go[g].query
      /\ go'[g].len = go[g].len /\ go'[g].trace = go[g].trace /\ go'[g].pc = "done"
  BY <1>3, Moves
<1>5. /\ len'[l] = go[g].len + 1 /\ len' \in [Lists -> Nat] /\ holder' \in [Lists -> Nat]
      /\ \A m \in Lists : m # l => holder'[m] = holder[m] /\ len'[m] = len[m]
  BY <1>2, <1>3 DEF TypeOK
<1> QED
  BY <1>2, <1>3, <1>4, <1>5

\* A trace begins, and what is done by then is old.
LEMMA StartStep ==
  ASSUME TypeOK, StartTrace
  PROVE  /\ starting = <<>> /\ starting' = <<"rms", "sms", "hms", "queries", "sampled">>
         /\ traces' = traces + 1 /\ timers' \in Seq(Timer) /\ Len(timers') = traces'
         /\ \A t \in DOMAIN timers : t # traces' /\ timers'[t] = timers[t]
         /\ \A t \in DOMAIN timers' : t \in DOMAIN timers \/ t = traces'
         /\ timers'[traces'].stage = "none" /\ timers'[traces'].due = {}
         /\ timers'[traces'].old = {g \in DOMAIN go : Done(g)}
         /\ timers'[traces'].len = len /\ timers'[traces'].read = [l \in Lists |-> <<>>]
         /\ calm' = ~StillSampling /\ torn' = {}
         /\ UNCHANGED <<len, cells, holder, sampled, go>>
<1> DEFINE new == [stage |-> "none", old |-> {g \in DOMAIN go : go[g].pc = "done"},
                   due |-> {}, len |-> len, read |-> [l \in Lists |-> <<>>], again |-> <<>>]
<1>1. /\ starting = <<>> /\ starting' = <<"rms", "sms", "hms", "queries", "sampled">>
      /\ traces' = traces + 1 /\ timers' = Append(timers, new)
      /\ calm' = ~StillSampling /\ torn' = {}
      /\ UNCHANGED <<len, cells, holder, sampled, go>>
  BY DEF StartTrace, listVars
<1>2. new \in Timer
  <2>1. DOMAIN go \subseteq Nat
    BY LenProperties DEF TypeOK
  <2>2. {g \in DOMAIN go : go[g].pc = "done"} \in SUBSET Nat /\ <<>> \in Seq(Nat) /\ len \in [Lists -> Nat]
    BY <2>1 DEF TypeOK
  <2> QED
    BY <2>2 DEF Timer, Stages
<1>3. /\ new.stage = "none" /\ new.due = {} /\ new.old = {g \in DOMAIN go : Done(g)}
      /\ new.len = len /\ new.read = [l \in Lists |-> <<>>]
  BY DEF Done
<1> HIDE DEF new
<1>4. timers \in Seq(Timer) /\ Len(timers) = traces /\ traces \in Nat
  BY DEF TypeOK
<1>5. /\ timers' \in Seq(Timer) /\ Len(timers') = traces + 1
      /\ \A t \in 1 .. traces : timers'[t] = timers[t]
      /\ timers'[traces + 1] = new
  BY <1>1, <1>2, <1>4, AppendProperties
<1>6. DOMAIN timers = 1 .. traces /\ DOMAIN timers' = 1 .. traces + 1
  BY <1>4, <1>5, LenProperties
<1> QED
  BY <1>1, <1>3, <1>4, <1>5, <1>6

\* The resets one after the other, that of sampled the last.
LEMMA ResetStep ==
  ASSUME TypeOK, Reset, traces >= 1
  PROVE  /\ starting # <<>> /\ starting' \in Resets
         /\ Len(timers') = Len(timers) /\ timers' \in Seq(Timer)
         /\ \A t \in DOMAIN timers : timers'[t] = [timers[t] EXCEPT !.stage = timers'[t].stage]
         /\ \A t \in DOMAIN timers : t # traces => timers'[t] = timers[t]
         /\ \E s \in Lists \cup {"sampled"} :
              /\ \A l \in Lists : Yet(l) <=> l = s \/ (\E i \in DOMAIN starting' : starting'[i] = l)
              /\ \A i \in DOMAIN starting' : starting'[i] # s
              /\ s = "sampled" =>
                   starting' = <<>> /\ sampled' = {} /\ timers'[traces].stage = "rms" /\ UNCHANGED <<len, torn>>
              /\ s # "sampled" =>
                   /\ starting' # <<>> /\ len' = [len EXCEPT ![s] = 0] /\ UNCHANGED <<sampled, timers>>
                   /\ torn' = IF Appending(s) THEN torn \cup {s} ELSE torn
         /\ UNCHANGED <<cells, holder, go, traces, calm>>
<1> DEFINE s == Head(starting)
<1>1. /\ starting # <<>> /\ starting' = Tail(starting)
      /\ s = "sampled" => sampled' = {} /\ UNCHANGED <<len, torn>>
      /\ s # "sampled" => /\ len' = [len EXCEPT ![s] = 0] /\ UNCHANGED sampled
                          /\ torn' = IF Appending(s) THEN torn \cup {s} ELSE torn
      /\ timers' = IF Len(starting) > 1 THEN timers ELSE [timers EXCEPT ![traces].stage = "rms"]
      /\ UNCHANGED <<cells, holder, go, traces, calm>>
  BY DEF Reset, Emptied
<1>2. /\ s \in Lists \cup {"sampled"}
      /\ starting' \in Resets
      /\ \A l \in Lists : Yet(l) <=> l = s \/ (\E i \in DOMAIN starting' : starting'[i] = l)
      /\ \A i \in DOMAIN starting' : starting'[i] # s
      /\ s = "sampled" => starting' = <<>> /\ Len(starting) = 1
      /\ s # "sampled" => starting' # <<>> /\ Len(starting) > 1
  <2>1. CASE starting = <<"sampled">>
    <3>1. s = "sampled" /\ starting' = <<>>
      BY <1>1, <2>1
    <3> QED
      BY <2>1, <3>1 DEF Yet, Resets, Lists, Measures
  <2>2. CASE starting = <<"queries", "sampled">>
    <3>1. s = "queries" /\ starting' = <<"sampled">>
      BY <1>1, <2>2
    <3> QED
      BY <2>2, <3>1 DEF Yet, Resets, Lists, Measures
  <2>3. CASE starting = <<"hms", "queries", "sampled">>
    <3>1. s = "hms" /\ starting' = <<"queries", "sampled">>
      BY <1>1, <2>3
    <3> QED
      BY <2>3, <3>1 DEF Yet, Resets, Lists, Measures
  <2>4. CASE starting = <<"sms", "hms", "queries", "sampled">>
    <3>1. s = "sms" /\ starting' = <<"hms", "queries", "sampled">>
      BY <1>1, <2>4
    <3> QED
      BY <2>4, <3>1 DEF Yet, Resets, Lists, Measures
  <2>5. CASE starting = <<"rms", "sms", "hms", "queries", "sampled">>
    <3>1. s = "rms" /\ starting' = <<"sms", "hms", "queries", "sampled">>
      BY <1>1, <2>5
    <3> QED
      BY <2>5, <3>1 DEF Yet, Resets, Lists, Measures
  <2> QED
    BY <1>1, <2>1, <2>2, <2>3, <2>4, <2>5 DEF TypeOK, Resets
<1> HIDE DEF s
<1>3. timers \in Seq(Timer) /\ traces \in DOMAIN timers
  BY LenProperties DEF TypeOK
<1>4. /\ \A t \in DOMAIN timers : timers'[t] = [timers[t] EXCEPT !.stage = timers'[t].stage]
      /\ \A t \in DOMAIN timers : t # traces => timers'[t] = timers[t]
      /\ s = "sampled" => timers'[traces].stage = "rms"
      /\ timers' \in Seq(Timer) /\ Len(timers') = Len(timers)
  <2>1. CASE s # "sampled"
    <3>1. timers' = timers
      BY <1>1, <1>2, <2>1
    <3>2. \A t \in DOMAIN timers : timers[t] \in Timer
      BY <1>3
    <3>3. \A t \in DOMAIN timers : timers[t] = [timers[t] EXCEPT !.stage = timers[t].stage]
      BY <3>2 DEF Timer
    <3> QED
      BY <1>3, <2>1, <3>1, <3>3
  <2>2. CASE s = "sampled"
    <3>1. Len(starting) = 1
      BY <1>2, <2>2, Zenon
    <3>2. ~(Len(starting) > 1)
      BY <3>1
    <3>3. timers' = [timers EXCEPT ![traces].stage = "rms"]
      BY <1>1, <3>2
    <3>4. \A t \in DOMAIN timers : timers[t] \in Timer
      BY <1>3
    <3>5. /\ \A t \in DOMAIN timers : t # traces => timers'[t] = timers[t]
          /\ timers'[traces] = [timers[traces] EXCEPT !.stage = "rms"]
      BY <1>3, <3>3
    <3>6. timers'[traces] \in Timer /\ timers'[traces].stage = "rms"
      BY <1>3, <3>4, <3>5 DEF Timer, Stages
    <3>7. \A t \in DOMAIN timers : timers'[t] = [timers[t] EXCEPT !.stage = timers'[t].stage]
      BY <3>4, <3>5, <3>6 DEF Timer
    <3>8. timers' = [timers EXCEPT ![traces] = timers'[traces]]
      BY <1>3, <3>3
    <3>9. timers' \in Seq(Timer) /\ Len(timers') = Len(timers)
      BY <1>3, <3>6, <3>8, ExceptSeq
    <3> QED
      BY <3>5, <3>6, <3>7, <3>9
  <2> QED
    BY <2>1, <2>2
<1>5. /\ s = "sampled" => /\ starting' = <<>> /\ sampled' = {} /\ timers'[traces].stage = "rms"
                          /\ UNCHANGED <<len, torn>>
      /\ s # "sampled" =>
           /\ starting' # <<>> /\ len' = [len EXCEPT ![s] = 0] /\ UNCHANGED <<sampled, timers>>
           /\ torn' = IF Appending(s) THEN torn \cup {s} ELSE torn
  BY <1>1, <1>2, <1>4
<1> QED
  BY <1>1, <1>2, <1>4, <1>5

\* The steps of a report: only its own timer moves.
OneTimer(t) ==
  /\ timers' \in Seq(Timer) /\ Len(timers') = Len(timers)
  /\ \A u \in DOMAIN timers : u # t => timers'[u] = timers[u]
  /\ timers'[t].old = timers[t].old
  /\ UNCHANGED <<len, cells, holder, sampled, go, starting, traces, calm, torn>>

\* A step of a timer changes nobody else's.
LEMMA TimerMoves ==
  ASSUME TypeOK, NEW t \in DOMAIN timers, NEW new \in Timer, timers' = [timers EXCEPT ![t] = new]
  PROVE  /\ timers' \in Seq(Timer) /\ Len(timers') = Len(timers) /\ timers'[t] = new
         /\ \A u \in DOMAIN timers : u # t => timers'[u] = timers[u]
<1>1. timers \in Seq(Timer)
  BY DEF TypeOK
<1>2. timers' \in Seq(Timer) /\ Len(timers') = Len(timers)
  BY SMTT(60), <1>1, ExceptSeq
<1> QED
  BY <1>1, <1>2

\* The report loads lengths.
LEMMA LoadStep ==
  ASSUME TypeOK, NEW t \in DOMAIN timers, Load(t), NEW l, l = timers[t].stage
  PROVE  /\ OneTimer(t) /\ l \in Measures
         /\ timers'[t].stage = After(l) /\ timers'[t].read = timers[t].read /\ timers'[t].again = timers[t].again
         /\ timers'[t].len[l] = len[l]
         /\ \A m \in Lists : m # l => timers'[t].len[m] = timers[t].len[m]
         /\ timers'[t].due = IF l = "rms" THEN {g \in DOMAIN go : Done(g)} ELSE timers[t].due
<1> DEFINE new == [timers[t] EXCEPT
                     !.len = [timers[t].len EXCEPT ![l] = len[l]],
                     !.due = IF l = "rms" THEN {g \in DOMAIN go : Done(g)} ELSE timers[t].due,
                     !.stage = After(l)]
<1>1. timers \in Seq(Timer) /\ timers[t] \in Timer /\ len \in [Lists -> Nat]
  BY DEF TypeOK
<1>2. /\ l \in Measures
      /\ timers' = [timers EXCEPT ![t].len[l] = len[l],
                      ![t].due = IF l = "rms" THEN {g \in DOMAIN go : go[g].pc = "done"} ELSE @,
                      ![t].stage = After(l)]
      /\ UNCHANGED <<len, cells, holder, sampled, go, starting, traces, calm, torn>>
  BY DEF Load, listVars
<1>3. After(l) \in Stages
  <2>1. l = "rms" \/ l = "sms" \/ l = "hms"
    BY <1>2 DEF Measures
  <2> QED
    BY <2>1 DEF After, Stages
<1>4. {g \in DOMAIN go : Done(g)} \in SUBSET Nat
  BY LenProperties DEF TypeOK
<1>5. l \in Lists
  BY <1>2 DEF Lists
<1>6. new \in Timer
  BY <1>1, <1>3, <1>4, <1>5 DEF Timer
<1>7. timers' = [timers EXCEPT ![t] = new]
  BY <1>1, <1>2 DEF Done, Timer
<1>8. /\ new.stage = After(l) /\ new.read = timers[t].read /\ new.again = timers[t].again
      /\ new.old = timers[t].old /\ new.len[l] = len[l]
      /\ \A m \in Lists : m # l => new.len[m] = timers[t].len[m]
      /\ new.due = IF l = "rms" THEN {g \in DOMAIN go : Done(g)} ELSE timers[t].due
  BY <1>1, <1>5 DEF Timer
<1> HIDE DEF new
<1>9. /\ timers' \in Seq(Timer) /\ Len(timers') = Len(timers) /\ timers'[t] = new
      /\ \A u \in DOMAIN timers : u # t => timers'[u] = timers[u]
  BY <1>6, <1>7, TimerMoves
<1>10. OneTimer(t)
  BY <1>2, <1>8, <1>9 DEF OneTimer
<1> QED
  BY <1>2, <1>8, <1>9, <1>10

\* The first n cells of a list.
LEMMA FirstProperties ==
  ASSUME TypeOK, NEW l \in Lists, NEW n \in Nat, n <= Len(cells[l])
  PROVE  /\ First(l, n) \in Seq(Nat) /\ Len(First(l, n)) = n
         /\ \A i \in 1 .. n : First(l, n)[i] = cells[l][i]
<1>1. cells[l] \in Seq(Nat)
  BY DEF TypeOK
<1>2. 1 \in 1 .. Len(cells[l]) + 1 /\ n \in 1 - 1 .. Len(cells[l])
  BY <1>1, LenProperties
<1>3. \A i \in 1 .. n : i \in 1 .. Len(cells[l])
  BY <1>1, LenProperties
<1>4. /\ SubSeq(cells[l], 1, n) \in Seq(Nat) /\ Len(SubSeq(cells[l], 1, n)) = n
      /\ \A i \in 1 .. n : SubSeq(cells[l], 1, n)[i] = cells[l][i]
  BY SMTT(60), <1>1, <1>2, <1>3, SubSeqProperties
<1> QED
  BY <1>4 DEF First

\* The report reads as many cells as it has loaded.
LEMMA ReadStep ==
  ASSUME TypeOK, NEW t \in DOMAIN timers, Read(t), \A l \in Measures : timers[t].len[l] <= Len(cells[l])
  PROVE  /\ OneTimer(t) /\ timers[t].stage = "read" /\ timers'[t].stage = "again"
         /\ timers'[t].len = timers[t].len /\ timers'[t].again = timers[t].again /\ timers'[t].due = timers[t].due
         /\ \A l \in Measures : timers'[t].read[l] = First(l, timers[t].len[l])
         /\ timers'[t].read["queries"] = <<>>
<1> DEFINE r == [l \in Lists |-> IF l \in Measures THEN First(l, timers[t].len[l]) ELSE <<>>]
           new == [timers[t] EXCEPT !.read = r, !.stage = "again"]
<1>1. timers \in Seq(Timer) /\ timers[t] \in Timer
  BY DEF TypeOK
<1>2. /\ timers[t].stage = "read"
      /\ timers' = [timers EXCEPT ![t].read = r, ![t].stage = "again"]
      /\ UNCHANGED <<len, cells, holder, sampled, go, starting, traces, calm, torn>>
  BY DEF Read, listVars
<1>3. ASSUME NEW l \in Measures PROVE First(l, timers[t].len[l]) \in Seq(Nat)
  <2>1. l \in Lists /\ timers[t].len[l] \in Nat
    BY <1>1 DEF Lists, Timer
  <2> QED
    BY <2>1, FirstProperties
<1>4. r \in [Lists -> Seq(Nat)]
  BY <1>3
<1>5. (\A l \in Measures : r[l] = First(l, timers[t].len[l])) /\ r["queries"] = <<>>
  BY DEF Lists, Measures
<1> HIDE DEF r
<1>6. new \in Timer
  BY <1>1, <1>4 DEF Timer, Stages
<1>7. timers' = [timers EXCEPT ![t] = new]
  BY <1>1, <1>2 DEF Timer
<1>8. /\ new.stage = "again" /\ new.len = timers[t].len /\ new.again = timers[t].again
      /\ new.due = timers[t].due /\ new.old = timers[t].old /\ new.read = r
  BY <1>1 DEF Timer
<1> HIDE DEF new
<1> QED
  BY ZenonT(120), <1>2, <1>5, <1>6, <1>7, <1>8, TimerMoves DEF OneTimer

\* It reads the SQL measures again.
LEMMA ReadAgainStep ==
  ASSUME TypeOK, CellsInv, NEW t \in DOMAIN timers, ReadAgain(t)
  PROVE  /\ OneTimer(t) /\ timers[t].stage = "again" /\ timers'[t].stage = "explain"
         /\ timers'[t].len = timers[t].len /\ timers'[t].read = timers[t].read /\ timers'[t].due = timers[t].due
         /\ timers'[t].again = First("sms", len["sms"])
<1> DEFINE new == [timers[t] EXCEPT !.again = First("sms", len["sms"]), !.stage = "explain"]
<1>1. timers \in Seq(Timer) /\ timers[t] \in Timer
  BY DEF TypeOK
<1>2. /\ timers[t].stage = "again"
      /\ timers' = [timers EXCEPT ![t].again = First("sms", len["sms"]), ![t].stage = "explain"]
      /\ UNCHANGED <<len, cells, holder, sampled, go, starting, traces, calm, torn>>
  BY DEF ReadAgain, listVars
<1>3. "sms" \in Lists
  BY DEF Lists, Measures
<1>4. len["sms"] \in Nat /\ len["sms"] <= Len(cells["sms"])
  BY <1>3 DEF TypeOK, CellsInv
<1>5. First("sms", len["sms"]) \in Seq(Nat)
  BY <1>3, <1>4, FirstProperties
<1>6. new \in Timer
  BY <1>1, <1>5 DEF Timer, Stages
<1>7. timers' = [timers EXCEPT ![t] = new]
  BY <1>1, <1>2 DEF Timer
<1>8. /\ new.stage = "explain" /\ new.len = timers[t].len /\ new.read = timers[t].read
      /\ new.due = timers[t].due /\ new.old = timers[t].old /\ new.again = First("sms", len["sms"])
  BY <1>1 DEF Timer
<1> HIDE DEF new
<1> QED
  BY <1>2, <1>6, <1>7, <1>8, TimerMoves DEF OneTimer

\* It reads the queries.
LEMMA ExplainStep ==
  ASSUME TypeOK, CellsInv, NEW t \in DOMAIN timers, Explain(t)
  PROVE  /\ OneTimer(t) /\ timers[t].stage = "explain" /\ timers'[t].stage = "done"
         /\ timers'[t].len = timers[t].len /\ timers'[t].again = timers[t].again /\ timers'[t].due = timers[t].due
         /\ \A l \in Measures : timers'[t].read[l] = timers[t].read[l]
         /\ timers'[t].read["queries"] = First("queries", len["queries"])
<1> DEFINE r == [timers[t].read EXCEPT !["queries"] = First("queries", len["queries"])]
           new == [timers[t] EXCEPT !.read = r, !.stage = "done"]
<1>1. timers \in Seq(Timer) /\ timers[t] \in Timer
  BY DEF TypeOK
<1>2. /\ timers[t].stage = "explain"
      /\ timers' = [timers EXCEPT ![t].read["queries"] = First("queries", len["queries"]), ![t].stage = "done"]
      /\ UNCHANGED <<len, cells, holder, sampled, go, starting, traces, calm, torn>>
  BY DEF Explain, listVars
<1>3. "queries" \in Lists /\ \A l \in Measures : l \in Lists /\ l # "queries"
  BY DEF Lists, Measures
<1>4. len["queries"] \in Nat /\ len["queries"] <= Len(cells["queries"])
  BY <1>3 DEF TypeOK, CellsInv
<1>5. First("queries", len["queries"]) \in Seq(Nat)
  BY <1>3, <1>4, FirstProperties
<1>6. timers[t].read \in [Lists -> Seq(Nat)]
  BY <1>1 DEF Timer
<1>7. /\ r \in [Lists -> Seq(Nat)] /\ r["queries"] = First("queries", len["queries"])
      /\ \A l \in Measures : r[l] = timers[t].read[l]
  BY <1>3, <1>5, <1>6
<1>8. timers' = [timers EXCEPT ![t] = new]
  BY <1>1, <1>2 DEF Timer
<1> HIDE DEF r
<1>9. new \in Timer
  BY <1>1, <1>7 DEF Timer, Stages
<1>10. /\ new.stage = "done" /\ new.len = timers[t].len /\ new.again = timers[t].again
       /\ new.due = timers[t].due /\ new.old = timers[t].old /\ new.read = r
  BY <1>1 DEF Timer
<1> HIDE DEF new
<1> QED
  BY ZenonT(120), <1>2, <1>7, <1>8, <1>9, <1>10, TimerMoves DEF OneTimer

\* Every step is one of these.
Moved ==
  \/ \E gs : Begin(gs) /\ Spawn(gs)
  \/ \E g \in DOMAIN go : Look(g) \/ Sample(g) \/ Append1(g) \/ Store(g)
  \/ StartTrace \/ Reset
  \/ \E t \in DOMAIN timers : Load(t) \/ Read(t) \/ ReadAgain(t) \/ Explain(t)

\* Every step is one of these.
LEMMA NextMoves ==
  ASSUME TypeOK, Next
  PROVE  Moved
<1>1. "sms" \in Measures /\ "hms" \in Measures /\ "rms" \in Measures
  BY DEF Measures
<1>2. ASSUME NEW query \in Queries, NEW sample \in BOOLEAN, Log(query, sample)
      PROVE  \E gs : Begin(gs) /\ Spawn(gs)
  BY <1>1, <1>2, BeginMeasure, BeginSampling DEF Log
<1>3. ASSUME Stop \/ RoundTrip \/ Return PROVE \E gs : Begin(gs) /\ Spawn(gs)
  <2>1. PICK l \in Measures : Spawn(<<Measure(l)>>)
    BY <1>1, <1>3 DEF Stop, RoundTrip, Return
  <2>2. Begin(<<Measure(l)>>)
    BY BeginMeasure
  <2> QED
    BY <2>1, <2>2
<1> QED
  BY <1>2, <1>3 DEF Next, Step, Moved

----------------------------------------------------------------------------
(* The types and the cells                                                 *)

\* Every step keeps the types, and cells with those who filled them.
LEMMA TypesAndCells ==
  ASSUME TypeOK, CellsInv, starting # <<>> => traces >= 1, Moved
  PROVE  TypeOK' /\ CellsInv'
<1>0. /\ go \in Seq(Goroutine) /\ timers \in Seq(Timer) /\ Len(timers) = traces /\ traces \in Nat
      /\ len \in [Lists -> Nat] /\ cells \in [Lists -> Seq(Nat)] /\ holder \in [Lists -> Nat]
      /\ starting \in Resets /\ calm \in BOOLEAN
  BY DEF TypeOK
<1>1. \A g \in DOMAIN go : go[g] \in Goroutine
  BY <1>0
<1>2. \A l \in Lists : Len(cells[l]) \in Nat /\ DOMAIN cells[l] = 1 .. Len(cells[l])
  BY <1>0, LenProperties
<1>3. ASSUME NEW gs, Begin(gs), Spawn(gs) PROVE TypeOK' /\ CellsInv'
  <2>1. /\ go' \in Seq(Goroutine) /\ DOMAIN go \subseteq DOMAIN go' /\ calm' \in BOOLEAN
        /\ \A g \in DOMAIN go : go'[g] = go[g]
        /\ \A g \in DOMAIN go' : g \notin DOMAIN go => go'[g].pc # "store"
        /\ UNCHANGED <<len, cells, holder, starting, traces, timers>>
    BY <1>3, SpawnStep
  <2>2. TypeOK'
    BY <1>0, <2>1 DEF TypeOK
  <2>3. CellsInv'
    BY <2>1 DEF CellsInv, Storing, Mine
  <2> QED
    BY <2>2, <2>3
<1>4. ASSUME NEW g \in DOMAIN go, Look(g) \/ Sample(g) PROVE TypeOK' /\ CellsInv'
  <2>1. /\ go' \in Seq(Goroutine) /\ Others(g) /\ go[g].pc \notin {"store", "done"} /\ go'[g].pc # "store"
        /\ UNCHANGED <<len, cells, holder, starting, traces, timers, calm>>
    BY <1>4, LookStep, SampleStep
  <2>2. TypeOK'
    BY <1>0, <2>1 DEF TypeOK
  <2>3. CellsInv'
    BY <2>1 DEF CellsInv, Storing, Mine, Others
  <2> QED
    BY <2>2, <2>3
<1>5. ASSUME NEW g \in DOMAIN go, Append1(g) PROVE TypeOK' /\ CellsInv'
  <2> PICK l : l = go[g].list
    OBVIOUS
  <2>1. Appended(g, l)
    BY <1>5, AppendStep
  <2>2. /\ go' \in Seq(Goroutine) /\ Others(g) /\ l \in Lists
        /\ go'[g].list = l /\ go'[g].len = len[l] /\ go[g].pc = "append" /\ go'[g].pc = "store"
        /\ \A m \in Lists : m # l => cells'[m] = cells[m]
        /\ holder' \in [Lists -> Nat] /\ cells' \in [Lists -> Seq(Nat)]
        /\ len[l] + 1 \in 1 .. Len(cells'[l]) /\ cells'[l][len[l] + 1] = g
        /\ Len(cells[l]) <= Len(cells'[l])
        /\ \A i \in 1 .. Len(cells'[l]) : i # len[l] + 1 =>
             i \in 1 .. Len(cells[l]) /\ cells'[l][i] = cells[l][i]
        /\ UNCHANGED <<len, starting, traces, timers, calm>>
    BY <2>1 DEF Appended
  <2>3. TypeOK'
    BY <1>0, <2>2 DEF TypeOK
  <2>4. \A m \in Lists : /\ Len(cells'[m]) \in Nat /\ DOMAIN cells'[m] = 1 .. Len(cells'[m])
                         /\ Len(cells[m]) <= Len(cells'[m])
    <3>1. \A m \in Lists : Len(cells'[m]) \in Nat /\ DOMAIN cells'[m] = 1 .. Len(cells'[m])
      BY <2>2, LenProperties
    <3>2. ASSUME NEW m \in Lists PROVE Len(cells[m]) <= Len(cells'[m])
      <4>1. CASE m = l
        BY <2>2, <4>1
      <4>2. CASE m # l
        <5>1. cells'[m] = cells[m] /\ Len(cells[m]) \in Nat
          BY <1>2, <2>2, <4>2
        <5> QED
          BY <5>1
      <4> QED
        BY <4>1, <4>2
    <3> QED
      BY <3>1, <3>2
  <2>5. ASSUME NEW m \in Lists, NEW i \in DOMAIN cells'[m]
        PROVE  /\ cells'[m][i] \in DOMAIN go'
               /\ go'[cells'[m][i]].list = m /\ go'[cells'[m][i]].len + 1 = i
               /\ go'[cells'[m][i]].pc \in {"store", "done"}
    <3>1. CASE m = l /\ i = len[l] + 1
      BY <2>2, <3>1 DEF Others
    <3>2. CASE ~(m = l /\ i = len[l] + 1)
      <4>1. i \in DOMAIN cells[m] /\ cells'[m][i] = cells[m][i]
        BY <1>2, <2>2, <2>4, <3>2
      <4>2. /\ cells[m][i] \in DOMAIN go
            /\ go[cells[m][i]].list = m /\ go[cells[m][i]].len + 1 = i
            /\ go[cells[m][i]].pc \in {"store", "done"}
        BY <4>1 DEF CellsInv
      <4> QED
        BY <2>2, <4>1, <4>2 DEF Others
    <3> QED
      BY <3>1, <3>2
  <2>6. \A m \in Lists : len'[m] <= Len(cells'[m])
    BY <1>0, <1>2, <2>2, <2>4 DEF CellsInv
  <2>7. ASSUME NEW h \in DOMAIN go', Storing(h)' PROVE go'[h].len + 1 <= Len(cells'[go'[h].list])
    <3>1. CASE h = g
      BY <2>2, <2>4, <3>1
    <3>2. CASE h # g
      <4>1. h \in DOMAIN go /\ go'[h] = go[h] /\ Storing(h)
        BY <2>2, <2>7, <3>2 DEF Others, Storing
      <4>2. go[h].len + 1 <= Len(cells[go[h].list]) /\ go[h].list \in Lists /\ go[h].len \in Nat
        BY <1>1, <4>1 DEF CellsInv, Mine, Goroutine
      <4> QED
        BY <1>2, <2>4, <4>1, <4>2
    <3> QED
      BY <3>1, <3>2
  <2>8. ASSUME NEW t \in DOMAIN timers, NEW m \in Lists PROVE timers[t].len[m] <= Len(cells'[m])
    <3>1. timers[t].len[m] \in Nat /\ timers[t].len[m] <= Len(cells[m])
      <4>1. timers[t] \in Timer
        BY <1>0
      <4> QED
        BY <4>1 DEF CellsInv, Timer
    <3> QED
      BY <1>2, <2>4, <3>1
  <2>9. CellsInv'
    BY <2>2, <2>5, <2>6, <2>7, <2>8 DEF CellsInv, Mine
  <2> QED
    BY <2>3, <2>9
<1>6. ASSUME NEW g \in DOMAIN go, Store(g) PROVE TypeOK' /\ CellsInv'
  <2> PICK l : l = go[g].list
    OBVIOUS
  <2>1. /\ go' \in Seq(Goroutine) /\ Others(g) /\ l \in Lists
        /\ go'[g].list = l /\ go'[g].len = go[g].len /\ go[g].pc = "store" /\ go'[g].pc = "done"
        /\ len'[l] = go[g].len + 1 /\ len' \in [Lists -> Nat] /\ holder' \in [Lists -> Nat]
        /\ \A m \in Lists : m # l => len'[m] = len[m]
        /\ UNCHANGED <<cells, starting, traces, timers, calm>>
    BY <1>6, StoreStep
  <2>2. TypeOK'
    BY <1>0, <2>1 DEF TypeOK
  <2>3. go[g].len + 1 <= Len(cells[l])
    BY <2>1 DEF CellsInv, Storing, Mine
  <2>4. \A m \in Lists : len'[m] <= Len(cells[m])
    BY <2>1, <2>3 DEF CellsInv
  <2>5. ASSUME NEW m \in Lists, NEW i \in DOMAIN cells[m]
        PROVE  /\ cells[m][i] \in DOMAIN go'
               /\ go'[cells[m][i]].list = m /\ go'[cells[m][i]].len + 1 = i
               /\ go'[cells[m][i]].pc \in {"store", "done"}
    <3>1. PICK h : h = cells[m][i]
      OBVIOUS
    <3>2. h \in DOMAIN go /\ go[h].list = m /\ go[h].len + 1 = i /\ go[h].pc \in {"store", "done"}
      BY <3>1 DEF CellsInv
    <3>3. h \in DOMAIN go' /\ go'[h].list = m /\ go'[h].len + 1 = i /\ go'[h].pc \in {"store", "done"}
      <4>1. CASE h = g
        BY <2>1, <3>2, <4>1 DEF Others
      <4>2. CASE h # g
        BY <2>1, <3>2, <4>2 DEF Others
      <4> QED
        BY <4>1, <4>2
    <3> QED
      BY <3>1, <3>3
  <2>6. \A h \in DOMAIN go' : Storing(h)' => go'[h].len + 1 <= Len(cells[go'[h].list])
    BY <2>1 DEF CellsInv, Mine, Storing, Others
  <2>7. CellsInv'
    BY <2>1, <2>4, <2>5, <2>6 DEF CellsInv, Mine
  <2> QED
    BY <2>2, <2>7
<1>7. ASSUME StartTrace PROVE TypeOK' /\ CellsInv'
  <2>1. /\ starting' = <<"rms", "sms", "hms", "queries", "sampled">>
        /\ traces' = traces + 1 /\ timers' \in Seq(Timer) /\ Len(timers') = traces'
        /\ \A t \in DOMAIN timers : timers'[t] = timers[t]
        /\ \A t \in DOMAIN timers' : t \in DOMAIN timers \/ t = traces'
        /\ timers'[traces'].len = len
        /\ calm' \in BOOLEAN
        /\ UNCHANGED <<len, cells, holder, go>>
    BY <1>7, StartStep
  <2>2. TypeOK'
    BY <1>0, <2>1 DEF TypeOK, Resets
  <2>3. CellsInv'
    BY <2>1 DEF CellsInv, Mine, Storing
  <2> QED
    BY <2>2, <2>3
<1>8. ASSUME Reset PROVE TypeOK' /\ CellsInv'
  <2>0. traces >= 1
    BY <1>8 DEF Reset
  <2>1. /\ starting' \in Resets /\ Len(timers') = Len(timers) /\ timers' \in Seq(Timer)
        /\ \A t \in DOMAIN timers : timers'[t] = [timers[t] EXCEPT !.stage = timers'[t].stage]
        /\ UNCHANGED <<cells, holder, go, traces, calm>>
    BY <1>8, <2>0, ResetStep
  <2>2. len' \in [Lists -> Nat] /\ \A m \in Lists : len'[m] = len[m] \/ len'[m] = 0
    <3>1. \/ len' = len
          \/ \E s \in Lists : len' = [len EXCEPT ![s] = 0]
      BY <1>8, <2>0, ResetStep
    <3>2. ASSUME NEW s \in Lists, len' = [len EXCEPT ![s] = 0]
          PROVE  len' \in [Lists -> Nat] /\ \A m \in Lists : len'[m] = len[m] \/ len'[m] = 0
      BY <1>0, <3>2
    <3> QED
      BY <1>0, <3>1, <3>2
  <2>3. DOMAIN timers' = DOMAIN timers /\ \A t \in DOMAIN timers : timers'[t].len = timers[t].len
    <3>1. DOMAIN timers' = DOMAIN timers
      BY <1>0, <2>1, LenProperties
    <3>2. \A t \in DOMAIN timers : timers[t] \in Timer
      BY <1>0
    <3> QED
      BY <2>1, <3>1, <3>2 DEF Timer
  <2>4. TypeOK'
    BY <1>0, <2>1, <2>2 DEF TypeOK
  <2>5. \A m \in Lists : len'[m] <= Len(cells[m])
    BY <1>2, <2>2 DEF CellsInv
  <2>6. CellsInv'
    BY <2>1, <2>3, <2>5 DEF CellsInv, Mine, Storing
  <2> QED
    BY <2>4, <2>6
<1>9. ASSUME NEW t \in DOMAIN timers, Load(t) \/ Read(t) \/ ReadAgain(t) \/ Explain(t)
      PROVE  TypeOK' /\ CellsInv'
  <2>1. OneTimer(t) /\ \A m \in Lists : timers'[t].len[m] \in {timers[t].len[m], len[m]}
    <3>1. CASE Load(t)
      BY <3>1, LoadStep
    <3>2. CASE Read(t)
      <4>1. \A l \in Measures : timers[t].len[l] <= Len(cells[l])
        BY DEF CellsInv, Lists
      <4> QED
        BY <3>2, <4>1, ReadStep
    <3>3. CASE ReadAgain(t) \/ Explain(t)
      BY <3>3, ReadAgainStep, ExplainStep
    <3> QED
      BY <1>9, <3>1, <3>2, <3>3
  <2>2. /\ timers' \in Seq(Timer) /\ Len(timers') = Len(timers)
        /\ \A u \in DOMAIN timers : u # t => timers'[u] = timers[u]
        /\ UNCHANGED <<len, cells, holder, sampled, go, starting, traces, calm, torn>>
    BY <2>1 DEF OneTimer
  <2>3. DOMAIN timers' = DOMAIN timers
    BY <1>0, <2>2, LenProperties
  <2>4. TypeOK'
    BY <1>0, <2>2 DEF TypeOK
  <2>5. \A u \in DOMAIN timers : \A m \in Lists : timers'[u].len[m] <= Len(cells[m])
    BY <2>1, <2>2 DEF CellsInv
  <2>6. CellsInv'
    BY <2>2, <2>3, <2>5 DEF CellsInv, Mine, Storing
  <2> QED
    BY <2>4, <2>6
<1> QED
  BY <1>3, <1>4, <1>5, <1>6, <1>7, <1>8, <1>9 DEF Moved

----------------------------------------------------------------------------
(* The measures of the trace stay among the first len cells                *)

\* A step that does not touch lists or goroutines keeps the measures where they are.
LEMMA Untouched ==
  ASSUME NEW h \in DOMAIN go, h \in DOMAIN go', go'[h] = go[h], traces' = traces, Stored(h),
         NEW l, l = go[h].list, holder'[l] = holder[l], len'[l] = len[l], cells'[l] = cells[l],
         \A k \in DOMAIN go' : go'[k].list = l /\ go'[k].pc = "done" => k \in DOMAIN go /\ go'[k] = go[k]
  PROVE  Stored(h)'
<1>1. Done(h)' = Done(h) /\ Storing(h)' = Storing(h) /\ OwnTrace(h)' = OwnTrace(h)
  BY DEF Done, Storing, OwnTrace
<1>2. InCell(h)' = InCell(h)
  BY DEF InCell, Mine
<1>3. Within(h)' = Within(h)
  BY <1>2 DEF Within
<1>4. (\A k \in DOMAIN go : go[k].list = go[h].list /\ Done(k) => ~OwnTrace(k)) =>
        \A k \in DOMAIN go' : go'[k].list = go'[h].list /\ Done(k)' => ~OwnTrace(k)'
  BY DEF Done, OwnTrace
<1> QED
  BY <1>1, <1>2, <1>3, <1>4 DEF Stored

\* Every step keeps the measures of the trace within the lengths.
LEMMA MeasuresKept ==
  ASSUME TypeOK, CellsInv, MeasuresInv, TypeOK', CellsInv', Moved
  PROVE  MeasuresInv'
<1>0. /\ go \in Seq(Goroutine) /\ traces \in Nat
      /\ len \in [Lists -> Nat] /\ cells \in [Lists -> Seq(Nat)] /\ holder \in [Lists -> Nat]
      /\ "queries" \notin Measures /\ Measures \subseteq Lists
  BY DEF TypeOK, Measures, Lists
<1>1. \A g \in DOMAIN go : go[g] \in Goroutine /\ g \in Nat /\ g # 0
  BY <1>0, LenProperties
<1>2. ASSUME NEW gs, Begin(gs), Spawn(gs) PROVE MeasuresInv'
  <2>1. /\ DOMAIN go \subseteq DOMAIN go'
        /\ \A g \in DOMAIN go : go'[g] = go[g]
        /\ \A g \in DOMAIN go' : g \notin DOMAIN go =>
              /\ go'[g].pc = IF go'[g].list = "queries" THEN "look" ELSE "append"
              /\ go'[g].trace = Began
        /\ UNCHANGED <<len, cells, holder, starting, traces>>
    BY <1>2, SpawnStep
  <2>2. starting # <<>> => traces >= 1
    BY DEF MeasuresInv
  <2>3. \A g \in DOMAIN go' : go'[g].trace <= traces'
    <3>1. traces' = traces /\ traces \in Nat /\ Began <= traces /\ \A g \in DOMAIN go : go[g].trace <= traces
      BY <1>0, <2>1 DEF MeasuresInv, Began
    <3> QED
      BY <2>1, <3>1
  <2>4. starting' # <<>> => \A g \in DOMAIN go' : ~OwnTrace(g)'
    BY <1>0, <2>1, <2>2 DEF MeasuresInv, Began, OwnTrace
  <2>5. ASSUME NEW h \in DOMAIN go' PROVE Stored(h)'
    <3>1. CASE h \in DOMAIN go
      <4>1. Stored(h)
        BY <3>1 DEF MeasuresInv
      <4>2. PICK l : l = go[h].list
        OBVIOUS
      <4>3. \A k \in DOMAIN go' : go'[k].list = l /\ go'[k].pc = "done" => k \in DOMAIN go /\ go'[k] = go[k]
        BY <2>1
      <4> QED
        BY <2>1, <3>1, <4>1, <4>2, <4>3, Untouched
    <3>2. CASE h \notin DOMAIN go
      BY <1>0, <2>1, <3>2 DEF Stored, Done, Storing
    <3> QED
      BY <3>1, <3>2
  <2> QED
    BY <2>1, <2>2, <2>3, <2>4, <2>5 DEF MeasuresInv
<1>3. ASSUME NEW g \in DOMAIN go, Look(g) \/ Sample(g) PROVE MeasuresInv'
  <2>1. /\ Others(g) /\ go[g].pc \in {"look", "sample"}
        /\ go'[g].list = go[g].list /\ go'[g].trace = go[g].trace
        /\ UNCHANGED <<len, cells, holder, starting, traces>>
    BY <1>3, LookStep, SampleStep
  <2>2. go[g].list \notin Measures
    BY <2>1 DEF MeasuresInv, Stored
  <2>3. /\ \A h \in DOMAIN go' : go'[h].trace = go[h].trace
        /\ DOMAIN go' = DOMAIN go
    BY <2>1 DEF Others
  <2>4. ASSUME NEW h \in DOMAIN go' PROVE Stored(h)'
    <3>1. CASE h = g \/ go[h].list \notin Measures
      BY <2>1, <2>2, <3>1 DEF Stored, Others
    <3>2. CASE h # g /\ go[h].list \in Measures
      <4>1. h \in DOMAIN go /\ go'[h] = go[h] /\ Stored(h)
        BY <2>1, <2>3, <3>2 DEF MeasuresInv, Others
      <4>2. PICK l : l = go[h].list
        OBVIOUS
      <4>3. \A k \in DOMAIN go' : go'[k].list = l /\ go'[k].pc = "done" => k \in DOMAIN go /\ go'[k] = go[k]
        BY <2>1, <2>2, <3>2, <4>2 DEF Others
      <4> QED
        BY <2>1, <4>1, <4>2, <4>3, Untouched
    <3> QED
      BY <3>1, <3>2
  <2> QED
    BY <2>1, <2>3, <2>4 DEF MeasuresInv, OwnTrace
<1>4. ASSUME NEW g \in DOMAIN go, Append1(g) PROVE MeasuresInv'
  <2> PICK l : l = go[g].list
    OBVIOUS
  <2>1. Appended(g, l)
    BY <1>4, AppendStep
  <2>2. /\ Others(g) /\ l \in Lists
        /\ go'[g].list = l /\ go'[g].trace = go[g].trace
        /\ go'[g].len = len[l] /\ go[g].pc = "append" /\ go'[g].pc = "store"
        /\ l \in Measures => holder[l] = 0 /\ holder'[l] = g
        /\ \A m \in Lists : m # l => holder'[m] = holder[m] /\ cells'[m] = cells[m]
        /\ len[l] + 1 \in 1 .. Len(cells'[l]) /\ cells'[l][len[l] + 1] = g
        /\ Len(cells[l]) <= Len(cells'[l])
        /\ \A i \in 1 .. Len(cells'[l]) : i # len[l] + 1 =>
             i \in 1 .. Len(cells[l]) /\ cells'[l][i] = cells[l][i]
        /\ UNCHANGED <<len, starting, traces>>
    <3>1. /\ Others(g) /\ l \in Lists
          /\ go'[g].list = l /\ go'[g].trace = go[g].trace
          /\ go'[g].len = len[l] /\ go[g].pc = "append" /\ go'[g].pc = "store"
          /\ UNCHANGED <<len, starting, traces>>
      BY <2>1 DEF Appended
    <3>2. l \in Measures => holder[l] = 0 /\ holder'[l] = g
      BY <2>1 DEF Appended
    <3>3. /\ \A m \in Lists : m # l => holder'[m] = holder[m] /\ cells'[m] = cells[m]
          /\ len[l] + 1 \in 1 .. Len(cells'[l]) /\ cells'[l][len[l] + 1] = g
          /\ Len(cells[l]) <= Len(cells'[l])
      BY <2>1 DEF Appended
    <3>4. \A i \in 1 .. Len(cells'[l]) : i # len[l] + 1 =>
             i \in 1 .. Len(cells[l]) /\ cells'[l][i] = cells[l][i]
      BY <2>1 DEF Appended
    <3> QED
      BY <3>1, <3>2, <3>3, <3>4
  <2>3. /\ \A h \in DOMAIN go' : go'[h].trace = go[h].trace
        /\ DOMAIN go' = DOMAIN go
    BY <2>2 DEF Others
  <2>4. ASSUME NEW h \in DOMAIN go', go'[h].list \in Measures PROVE Stored(h)'
    <3>0. h \in DOMAIN go
      BY <2>3
    <3>1. CASE h = g
      <4>1. InCell(h)'
        BY <2>2, <3>1 DEF InCell, Mine
      <4>2. ~Done(h)' /\ holder'[l] = h /\ len'[l] = go'[h].len /\ go'[h].list = l /\ len'[l] \in Nat
        BY <1>0, <2>2, <2>4, <3>1 DEF Done
      <4> QED
        BY <2>2, <3>1, <4>1, <4>2 DEF Stored
    <3>2. CASE h # g /\ go[h].list # l
      <4>1. go'[h] = go[h] /\ Stored(h) /\ go[h].list \in Lists
        BY <1>0, <2>2, <2>4, <3>0, <3>2 DEF MeasuresInv, Others
      <4>2. PICK m : m = go[h].list
        OBVIOUS
      <4>3. \A k \in DOMAIN go' : go'[k].list = m /\ go'[k].pc = "done" => k \in DOMAIN go /\ go'[k] = go[k]
        BY <2>2, <3>2, <4>2 DEF Others
      <4>4. holder'[m] = holder[m] /\ len'[m] = len[m] /\ cells'[m] = cells[m]
        BY <2>2, <3>2, <4>1, <4>2
      <4> QED
        BY <2>2, <2>3, <3>0, <4>1, <4>2, <4>3, <4>4, Untouched
    <3>3. CASE h # g /\ go[h].list = l
      <4>0. go[h] \in Goroutine
        BY <1>1, <3>0
      <4>1. go'[h] = go[h] /\ Stored(h) /\ l \in Measures /\ go[h].len \in Nat
        BY ZenonT(120), <2>2, <2>4, <3>0, <3>3, <4>0 DEF MeasuresInv, Others, Goroutine
      <4>2. ~Storing(h)
        BY <1>1, <2>2, <3>0, <3>3, <4>1 DEF Stored
      <4>3. ASSUME Within(h) PROVE Within(h)'
        <5>1. go[h].len + 1 \in 1 .. Len(cells[l]) /\ cells[l][go[h].len + 1] = h /\ go[h].len + 1 <= len[l]
          BY <3>3, <4>3 DEF Within, InCell, Mine
        <5>2. Len(cells[l]) \in Nat /\ Len(cells'[l]) \in Nat /\ len[l] \in Nat
          BY <1>0, <2>2, LenProperties DEF TypeOK
        <5>3. go[h].len + 1 \in 1 .. Len(cells'[l]) /\ go[h].len + 1 # len[l] + 1
          BY SMTT(60), <2>2, <4>1, <5>1, <5>2
        <5>4. cells'[l][go[h].len + 1] = h
          BY <2>2, <5>1, <5>3
        <5> QED
          BY <2>2, <3>3, <4>1, <5>1, <5>3, <5>4 DEF Within, InCell, Mine
      <4> QED
        BY <2>2, <3>3, <4>1, <4>2, <4>3 DEF Stored, Done, Storing, OwnTrace
    <3> QED
      BY <3>1, <3>2, <3>3
  <2>5. \A h \in DOMAIN go' : Stored(h)'
    BY <2>4 DEF Stored
  <2> QED
    BY <2>2, <2>3, <2>5 DEF MeasuresInv, OwnTrace
<1>5. ASSUME NEW g \in DOMAIN go, Store(g) PROVE MeasuresInv'
  <2> PICK l : l = go[g].list
    OBVIOUS
  <2>1. /\ Others(g) /\ l \in Lists
        /\ go'[g].list = l /\ go'[g].len = go[g].len /\ go'[g].trace = go[g].trace
        /\ go[g].pc = "store" /\ go'[g].pc = "done"
        /\ len'[l] = go[g].len + 1
        /\ \A m \in Lists : m # l => holder'[m] = holder[m] /\ len'[m] = len[m]
        /\ UNCHANGED <<cells, starting, traces>>
    BY <1>5, StoreStep
  <2>2. /\ \A h \in DOMAIN go' : go'[h].trace = go[h].trace
        /\ DOMAIN go' = DOMAIN go
    BY <2>1 DEF Others
  <2>3. ASSUME NEW h \in DOMAIN go', go'[h].list \in Measures PROVE Stored(h)'
    <3>0. h \in DOMAIN go
      BY <2>2
    <3>1. CASE h = g
      <4>1. InCell(g) /\ go[g].len \in Nat
        BY <1>1, <2>1, <2>3, <3>1 DEF MeasuresInv, Stored, Storing, Goroutine
      <4>2. Within(g)'
        BY <2>1, <4>1 DEF Within, InCell, Mine
      <4> QED
        BY <2>1, <3>1, <4>2 DEF Stored, Storing
    <3>2. CASE h # g /\ go[h].list # l
      <4>1. go'[h] = go[h] /\ Stored(h) /\ go[h].list \in Lists
        BY <1>0, <2>1, <2>3, <3>0, <3>2 DEF MeasuresInv, Others
      <4>2. PICK m : m = go[h].list
        OBVIOUS
      <4>3. \A k \in DOMAIN go' : go'[k].list = m /\ go'[k].pc = "done" => k \in DOMAIN go /\ go'[k] = go[k]
        BY <2>1, <3>2, <4>2 DEF Others
      <4>4. holder'[m] = holder[m] /\ len'[m] = len[m] /\ cells'[m] = cells[m]
        BY <2>1, <3>2, <4>1, <4>2
      <4> QED
        BY <2>1, <2>2, <3>0, <4>1, <4>2, <4>3, <4>4, Untouched
    <3>3. CASE h # g /\ go[h].list = l
      <4>1. go'[h] = go[h] /\ Stored(h) /\ Stored(g) /\ l \in Measures /\ go[h].len \in Nat /\ go[g].len \in Nat
        BY ZenonT(120), <1>1, <2>1, <2>3, <3>0, <3>3 DEF MeasuresInv, Others, Goroutine
      <4>2. Storing(g) /\ holder[l] = g /\ len[l] <= go[g].len /\ len[l] \in Nat
        BY <1>0, <2>1, <4>1 DEF Stored, Storing
      <4>3. ~Storing(h)
        BY <3>3, <4>1, <4>2 DEF Stored
      <4>4. ASSUME Within(h) PROVE Within(h)'
        BY <2>1, <3>3, <4>1, <4>2, <4>4 DEF Within, InCell, Mine
      <4> QED
        BY <2>1, <3>3, <4>1, <4>3, <4>4 DEF Stored, Done, Storing, OwnTrace
    <3> QED
      BY <3>1, <3>2, <3>3
  <2>4. \A h \in DOMAIN go' : Stored(h)'
    BY <2>3 DEF Stored
  <2> QED
    BY <2>1, <2>2, <2>4 DEF MeasuresInv, OwnTrace
<1>6. ASSUME StartTrace PROVE MeasuresInv'
  <2>1. traces' = traces + 1 /\ UNCHANGED <<len, cells, holder, go>>
    BY <1>6, StartStep
  <2>2. \A g \in DOMAIN go' : go'[g].trace <= traces' /\ ~OwnTrace(g)'
    <3>1. \A g \in DOMAIN go : go[g].trace \in Nat /\ go[g].trace <= traces
      BY <1>1 DEF MeasuresInv, Goroutine
    <3> QED
      BY <1>0, <2>1, <3>1 DEF OwnTrace
  <2>3. \A g \in DOMAIN go' : Stored(g)'
    BY <2>1, <2>2 DEF MeasuresInv, Stored, Storing, Done, InCell, Mine
  <2> QED
    BY <1>0, <2>1, <2>2, <2>3 DEF MeasuresInv
<1>7. ASSUME Reset PROVE MeasuresInv'
  <2>1. starting # <<>> /\ traces >= 1 /\ \A g \in DOMAIN go : ~OwnTrace(g)
    BY <1>7 DEF MeasuresInv, Reset
  <2>2. UNCHANGED <<cells, holder, go, traces>>
    BY <1>7, <2>1, ResetStep
  <2>3. \A m \in Lists : len'[m] = len[m] \/ len'[m] = 0
    <3>1. \/ len' = len
          \/ \E s \in Lists : len' = [len EXCEPT ![s] = 0]
      BY <1>7, <2>1, ResetStep
    <3>2. ASSUME NEW s \in Lists, len' = [len EXCEPT ![s] = 0]
          PROVE  \A m \in Lists : len'[m] = len[m] \/ len'[m] = 0
      BY <1>0, <3>2
    <3> QED
      BY <3>1, <3>2
  <2>4. \A g \in DOMAIN go' : go'[g].trace <= traces' /\ ~OwnTrace(g)'
    BY <2>1, <2>2 DEF MeasuresInv, OwnTrace
  <2>5. ASSUME NEW h \in DOMAIN go', go'[h].list \in Measures PROVE Stored(h)'
    <3>1. Stored(h) /\ go[h].list \in Lists /\ go[h].len \in Nat
      BY <1>0, <1>1, <2>2, <2>5 DEF MeasuresInv, Goroutine
    <3>2. Storing(h) => len'[go[h].list] <= go[h].len
      BY <2>2, <2>3, <2>5, <3>1 DEF Stored
    <3> QED
      BY <2>2, <2>4, <3>1, <3>2 DEF Stored, Storing, Done, InCell, Mine
  <2>6. \A h \in DOMAIN go' : Stored(h)'
    BY <2>5 DEF Stored
  <2> QED
    BY <2>1, <2>2, <2>4, <2>6 DEF MeasuresInv
<1>8. ASSUME NEW t \in DOMAIN timers, Load(t) \/ Read(t) \/ ReadAgain(t) \/ Explain(t)
      PROVE  MeasuresInv'
  <2>1. UNCHANGED <<len, cells, holder, go, starting, traces>>
    BY <1>8 DEF Load, Read, ReadAgain, Explain, listVars
  <2> QED
    BY <2>1 DEF MeasuresInv, Stored, Storing, Done, Within, InCell, Mine, OwnTrace
<1> QED
  BY <1>2, <1>3, <1>4, <1>5, <1>6, <1>7, <1>8 DEF Moved

----------------------------------------------------------------------------
(* The report misses no measure                                            *)

\* Goroutines do not come back from the end, and while a trace lasts the lengths of its
\* measures only grow.
LEMMA Lasting ==
  ASSUME TypeOK, CellsInv, MeasuresInv,
         \/ \E gs : Begin(gs) /\ Spawn(gs)
         \/ \E g \in DOMAIN go : Look(g) \/ Sample(g) \/ Append1(g) \/ Store(g)
  PROVE  /\ \A h \in DOMAIN go : h \in DOMAIN go' /\ (Done(h) => go'[h] = go[h])
         /\ \A l \in Measures : len[l] <= len'[l]
         /\ UNCHANGED <<starting, traces, timers>>
<1>0. /\ len \in [Lists -> Nat] /\ Measures \subseteq Lists
      /\ go \in Seq(Goroutine)
  BY DEF TypeOK, Lists
<1>1. \A l \in Measures : len[l] <= len[l]
  BY <1>0
<1>2. ASSUME NEW gs, Begin(gs), Spawn(gs)
      PROVE  /\ \A h \in DOMAIN go : h \in DOMAIN go' /\ go'[h] = go[h]
             /\ UNCHANGED <<len, starting, traces, timers>>
  BY <1>2, SpawnStep
<1>3. ASSUME NEW g \in DOMAIN go, Look(g) \/ Sample(g)
      PROVE  /\ \A h \in DOMAIN go : h \in DOMAIN go' /\ (Done(h) => go'[h] = go[h])
             /\ UNCHANGED <<len, starting, traces, timers>>
  <2>1. /\ Others(g) /\ go[g].pc \in {"look", "sample"}
        /\ UNCHANGED <<len, starting, traces, timers>>
    BY <1>3, LookStep, SampleStep
  <2> QED
    BY <2>1 DEF Others, Done
<1>4. ASSUME NEW g \in DOMAIN go, Append1(g)
      PROVE  /\ \A h \in DOMAIN go : h \in DOMAIN go' /\ (Done(h) => go'[h] = go[h])
             /\ UNCHANGED <<len, starting, traces, timers>>
  <2>1. PICK l : l = go[g].list
    OBVIOUS
  <2>2. Appended(g, l)
    BY <1>4, <2>1, AppendStep
  <2>3. Others(g) /\ go[g].pc = "append" /\ UNCHANGED <<len, starting, traces, timers>>
    BY <2>2 DEF Appended
  <2> QED
    BY <2>3 DEF Others, Done
<1>5. ASSUME NEW g \in DOMAIN go, Store(g)
      PROVE  /\ \A h \in DOMAIN go : h \in DOMAIN go' /\ (Done(h) => go'[h] = go[h])
             /\ \A l \in Measures : len[l] <= len'[l]
             /\ UNCHANGED <<starting, traces, timers>>
  <2>1. PICK l : l = go[g].list
    OBVIOUS
  <2>2. /\ Others(g) /\ go[g].pc = "store" /\ UNCHANGED <<starting, traces, timers>>
        /\ len'[l] = go[g].len + 1 /\ \A m \in Lists : m # l => len'[m] = len[m]
    BY <1>5, <2>1, StoreStep
  <2>3. go[g].len \in Nat
    <3>1. go[g] \in Goroutine
      BY <1>0
    <3> QED
      BY <3>1 DEF Goroutine
  <2>4. l \in Measures => len[l] <= go[g].len /\ len[l] \in Nat
    BY <1>0, <2>1, <2>2 DEF MeasuresInv, Stored, Storing
  <2>5. ASSUME NEW m \in Measures PROVE len[m] <= len'[m]
    BY <1>0, <1>1, <2>2, <2>3, <2>4
  <2> QED
    BY <2>2, <2>5 DEF Others, Done
<1> QED
  BY <1>1, <1>2, <1>3, <1>4, <1>5

\* Every step keeps what was done when the report began counted in it.
LEMMA ReportKept ==
  ASSUME TypeOK, CellsInv, MeasuresInv, ReportInv, TypeOK', CellsInv', MeasuresInv', Moved
  PROVE  ReportInv'
<1>0. /\ go \in Seq(Goroutine) /\ traces \in Nat
      /\ timers \in Seq(Timer) /\ DOMAIN timers = 1 .. traces
      /\ len \in [Lists -> Nat] /\ cells \in [Lists -> Seq(Nat)]
      /\ Measures \subseteq Lists
  BY LenProperties DEF TypeOK, Lists
<1>1. \A g \in DOMAIN go : go[g] \in Goroutine
  BY <1>0
<1>2. \A t \in DOMAIN timers : timers[t] \in Timer
  BY <1>0
<1>3. ASSUME \/ \E gs : Begin(gs) /\ Spawn(gs)
             \/ \E g \in DOMAIN go : Look(g) \/ Sample(g) \/ Append1(g) \/ Store(g)
      PROVE  ReportInv'
  <2>1. /\ \A h \in DOMAIN go : h \in DOMAIN go' /\ (Done(h) => go'[h] = go[h])
        /\ \A l \in Measures : len[l] <= len'[l]
        /\ UNCHANGED <<starting, traces, timers>>
    BY <1>3, Lasting
  <2>2. Now' = Now /\ (Traced' <=> Traced) /\ \A l : Loaded(l)' <=> Loaded(l)
    BY <2>1 DEF Now, Traced, Loaded
  <2>3. \A t \in DOMAIN timers' : \A g \in timers'[t].due : g \in DOMAIN go' /\ Done(g)'
    BY <2>1 DEF ReportInv, Done
  <2>4. ASSUME Traced, NEW l \in Measures, Loaded(l) PROVE Now.len[l] <= len'[l]
    <3>1. Now.len[l] \in Nat /\ len[l] \in Nat /\ len'[l] \in Nat
      <4>1. Now \in Timer /\ l \in Lists
        BY <1>0, <1>2, <2>4 DEF Traced, Now
      <4>2. len' \in [Lists -> Nat]
        BY DEF TypeOK
      <4> QED
        BY <1>0, <4>1, <4>2 DEF Timer
    <3>2. Now.len[l] <= len[l] /\ len[l] <= len'[l]
      BY <2>1, <2>4 DEF ReportInv
    <3> QED
      BY <3>1, <3>2
  <2>5. ASSUME Traced, NEW g \in Now.due PROVE Counted(g)'
    <3>1. Counted(g) /\ g \in DOMAIN go /\ Done(g)
      <4>1. traces \in DOMAIN timers /\ Now = timers[traces]
        BY <1>0, <2>5 DEF Traced, Now
      <4> QED
        BY <2>5, <4>1 DEF ReportInv
    <3>2. go'[g] = go[g] /\ traces' = traces /\ (OwnTrace(g)' <=> OwnTrace(g))
      BY <2>1, <3>1 DEF OwnTrace
    <3>3. \A l : Reported(traces, l)' = Reported(traces, l)
      BY <2>1 DEF Reported
    <3> QED
      BY <2>2, <3>1, <3>2, <3>3 DEF Counted
  <2> QED
    BY <2>1, <2>2, <2>3, <2>4, <2>5 DEF ReportInv
<1>4. ASSUME StartTrace PROVE ReportInv'
  <2>1. /\ starting' # <<>> /\ traces' = traces + 1
        /\ \A t \in DOMAIN timers : timers'[t] = timers[t]
        /\ \A t \in DOMAIN timers' : t \in DOMAIN timers \/ t = traces'
        /\ timers'[traces'].stage = "none" /\ timers'[traces'].due = {}
        /\ go' = go
    BY <1>4, StartStep
  <2> QED
    BY <2>1 DEF ReportInv, Traced, Now, Done
<1>5. ASSUME Reset PROVE ReportInv'
  <2>1. starting # <<>> /\ traces >= 1
    BY <1>5 DEF Reset, MeasuresInv
  <2>2. /\ \A t \in DOMAIN timers : timers'[t] = [timers[t] EXCEPT !.stage = timers'[t].stage]
        /\ \/ starting' = <<>> /\ timers'[traces].stage = "rms"
           \/ starting' # <<>> /\ timers' = timers
        /\ Len(timers') = Len(timers) /\ UNCHANGED <<go, traces>>
    BY <1>5, <2>1, ResetStep
  <2>3. DOMAIN timers' = DOMAIN timers /\ \A t \in DOMAIN timers : timers'[t].due = timers[t].due
    <3>1. DOMAIN timers' = DOMAIN timers
      BY <1>0, <2>2, LenProperties DEF TypeOK
    <3> QED
      BY <1>2, <2>2, <3>1 DEF Timer
  <2>4. \A t \in DOMAIN timers' : \A g \in timers'[t].due : g \in DOMAIN go' /\ Done(g)'
    BY <2>2, <2>3 DEF ReportInv, Done
  <2>5. CASE starting' = <<>> /\ timers'[traces].stage = "rms"
    <3>1. Now'.stage = "rms" /\ \A l : ~Loaded(l)'
      BY <2>2, <2>5 DEF Now, Loaded
    <3> QED
      BY <2>4, <2>5, <3>1 DEF ReportInv, Counted
  <2>6. CASE starting' # <<>> /\ timers' = timers
    BY <2>1, <2>2, <2>4, <2>6 DEF ReportInv, Traced, Now
  <2> QED
    BY <2>2, <2>5, <2>6
<1>6. ASSUME NEW t \in DOMAIN timers, Load(t) \/ Read(t) \/ ReadAgain(t) \/ Explain(t)
      PROVE  ReportInv'
  <2>0. \A l \in Measures : timers[t].len[l] <= Len(cells[l])
    BY <1>0 DEF CellsInv
  <2>1. OneTimer(t) /\ timers'[t].due \in {timers[t].due, {g \in DOMAIN go : Done(g)}} /\ timers[t].stage # "none"
    <3>1. CASE Load(t)
      <4>1. PICK l : l = timers[t].stage
        OBVIOUS
      <4> QED
        BY <3>1, <4>1, LoadStep DEF Measures
    <3>2. CASE Read(t)
      BY <2>0, <3>2, ReadStep
    <3>3. CASE ReadAgain(t) \/ Explain(t)
      BY <3>3, ReadAgainStep, ExplainStep
    <3> QED
      BY <1>6, <3>1, <3>2, <3>3
  <2>2. /\ Len(timers') = Len(timers) /\ DOMAIN timers' = DOMAIN timers
        /\ \A u \in DOMAIN timers : u # t => timers'[u] = timers[u]
        /\ UNCHANGED <<len, cells, go, starting, traces>>
    BY <1>0, <2>1, LenProperties DEF OneTimer, TypeOK
  <2>3. \A u \in DOMAIN timers' : \A g \in timers'[u].due : g \in DOMAIN go' /\ Done(g)'
    BY <2>1, <2>2 DEF ReportInv, Done
  <2>4. CASE t # traces
    <3>1. traces \in DOMAIN timers \/ traces = 0
      BY <1>0
    <3>2. traces # 0 => Now' = Now /\ \A l : Reported(traces, l)' = Reported(traces, l)
      BY <2>2, <2>4, <3>1 DEF Now, Reported
    <3>3. traces # 0
      BY <1>0
    <3> QED
      BY <2>2, <2>3, <3>2, <3>3 DEF ReportInv, Traced, Counted, Loaded, OwnTrace
  <2>5. CASE t = traces
    <3>1. Traced /\ Now = timers[t] /\ Now' = timers'[t] /\ Traced' /\ Now \in Timer /\ starting' = <<>>
      BY <1>0, <1>2, <2>1, <2>2, <2>5 DEF Traced, Now, ReportInv
    <3>2. ASSUME NEW g \in DOMAIN go, Done(g), OwnTrace(g), go[g].list \in Measures
          PROVE  /\ go[g].len + 1 <= len[go[g].list] /\ InCell(g) /\ go[g].len \in Nat
      <4>1. Stored(g) /\ go[g] \in Goroutine
        BY <1>1 DEF MeasuresInv
      <4> QED
        BY <3>2, <4>1 DEF Stored, Within, Goroutine
    <3>3. CASE Load(t)
      <4>1. PICK m : m = timers[t].stage
        OBVIOUS
      <4>2. /\ m \in Measures /\ timers'[t].stage = After(m) /\ timers'[t].len[m] = len[m]
            /\ \A l \in Lists : l # m => timers'[t].len[l] = timers[t].len[l]
            /\ timers'[t].due = IF m = "rms" THEN {g \in DOMAIN go : Done(g)} ELSE timers[t].due
        BY <3>3, <4>1, LoadStep
      <4>3. /\ \A l \in Measures : Loaded(l)' => l = m \/ Loaded(l)
            /\ Now'.stage \in {"sms", "hms", "read"}
            /\ m = "rms" => \A l \in Measures : Loaded(l)' => l = m
        <5>1. CASE m = "rms"
          BY <3>1, <4>1, <4>2, <5>1 DEF Loaded, After, Measures
        <5>2. CASE m = "sms"
          BY <3>1, <4>1, <4>2, <5>2 DEF Loaded, After, Measures
        <5>3. CASE m = "hms"
          BY <3>1, <4>1, <4>2, <5>3 DEF Loaded, After, Measures
        <5> QED
          BY <4>2, <5>1, <5>2, <5>3 DEF Measures
      <4>4. ASSUME NEW l \in Measures, Loaded(l)' PROVE Now'.len[l] <= len'[l]
        <5>1. CASE l = m
          <6>1. len[m] \in Nat
            BY <1>0, <4>2
          <6> QED
            BY <2>2, <3>1, <4>2, <5>1, <6>1
        <5>2. CASE l # m
          BY <1>0, <2>2, <3>1, <4>2, <4>3, <4>4, <5>2 DEF ReportInv
        <5> QED
          BY <5>1, <5>2
      <4>5. ASSUME NEW g \in Now'.due, OwnTrace(g), NEW l \in Measures, go[g].list = l, Loaded(l)'
            PROVE  go[g].len + 1 <= Now'.len[l]
        <5>1. g \in DOMAIN go /\ Done(g)
          BY <2>2, <2>3, <3>1, <4>5 DEF Done
        <5>2. CASE l = m
          BY <3>1, <3>2, <4>2, <4>5, <5>1, <5>2
        <5>3. CASE l # m
          <6>1. Loaded(l) /\ g \in Now.due
            BY <3>1, <4>2, <4>3, <4>5, <5>3
          <6>2. go[g].len + 1 <= Now.len[l]
            BY <3>1, <4>5, <6>1 DEF ReportInv, Counted
          <6> QED
            BY <1>0, <3>1, <4>2, <4>5, <5>3, <6>2
        <5> QED
          BY <5>2, <5>3
      <4>6. ASSUME NEW g \in Now'.due PROVE Counted(g)'
        <5>1. go' = go /\ (OwnTrace(g)' <=> OwnTrace(g)) /\ Now'.stage \notin {"again", "explain", "done"}
          BY <2>2, <4>3 DEF OwnTrace
        <5> QED
          BY <4>5, <5>1 DEF Counted
      <4>7. Now'.stage # "none"
        BY <4>3
      <4> QED
        BY <2>3, <3>1, <4>4, <4>6, <4>7 DEF ReportInv
    <3>4. CASE Read(t) \/ ReadAgain(t) \/ Explain(t)
      <4>1. /\ timers[t].stage \in {"read", "again", "explain"} /\ timers'[t].stage \in {"again", "explain", "done"}
            /\ timers'[t].len = timers[t].len /\ timers'[t].due = timers[t].due
        BY <2>0, <3>4, ReadStep, ReadAgainStep, ExplainStep
      <4>2. \A l : Loaded(l) /\ Loaded(l)'
        BY <3>1, <4>1 DEF Loaded
      <4>3. ASSUME NEW g \in Now.due, OwnTrace(g), go[g].list \in Measures
            PROVE  /\ g \in DOMAIN go /\ Done(g) /\ Counted(g) /\ go[g].len \in Nat
                   /\ go[g].len + 1 <= Now.len[go[g].list] /\ go[g].len + 1 <= len[go[g].list] /\ InCell(g)
        <5>1. g \in DOMAIN go /\ Done(g) /\ Counted(g)
          BY <3>1, <4>3 DEF ReportInv
        <5> QED
          BY <3>2, <4>2, <4>3, <5>1 DEF Counted
      <4>4. ASSUME NEW l \in Measures, NEW n \in Nat, n <= Len(cells[l])
            PROVE  /\ DOMAIN First(l, n) = 1 .. n /\ \A i \in 1 .. n : First(l, n)[i] = cells[l][i]
        <5>1. /\ First(l, n) \in Seq(Nat) /\ Len(First(l, n)) = n
              /\ \A i \in 1 .. n : First(l, n)[i] = cells[l][i]
          BY <1>0, <4>4, FirstProperties
        <5>2. DOMAIN First(l, n) = 1 .. Len(First(l, n))
          BY <5>1, LenProperties
        <5> QED
          BY <5>1, <5>2
      <4>5. ASSUME NEW g \in Now.due, OwnTrace(g), NEW l \in Measures, go[g].list = l
            PROVE  /\ g \in Reported(traces, l)'
                   /\ Now'.stage \in {"explain", "done"} /\ l = "sms" =>
                        \E i \in DOMAIN Now'.again : Now'.again[i] = g
        <5>1. /\ l \in Lists /\ Counted(g) /\ go[g].len \in Nat
              /\ go[g].len + 1 <= Now.len[l] /\ go[g].len + 1 <= len[l]
              /\ cells[l][go[g].len + 1] = g
          BY <1>0, <4>3, <4>5 DEF InCell, Mine
        <5>2. Now.len[l] \in Nat /\ len[l] \in Nat /\ Now.len[l] <= Len(cells[l]) /\ len[l] <= Len(cells[l])
          BY <1>0, <3>1, <5>1 DEF Timer, CellsInv
        <5>3. go[g].len + 1 \in 1 .. Now.len[l] /\ go[g].len + 1 \in 1 .. len[l]
          BY <5>1, <5>2
        <5>4. go[g].len + 1 \in DOMAIN First(l, Now.len[l]) /\ First(l, Now.len[l])[go[g].len + 1] = g
          BY <4>4, <5>1, <5>2, <5>3
        <5>5. go[g].len + 1 \in DOMAIN First(l, len[l]) /\ First(l, len[l])[go[g].len + 1] = g
          BY <4>4, <5>1, <5>2, <5>3
        <5>6. CASE Read(t)
          <6>1. Now'.read[l] = First(l, Now.len[l]) /\ Now'.stage = "again"
            BY <2>0, <3>1, <5>1, <5>6, ReadStep
          <6> QED
            BY <2>2, <2>5, <3>1, <5>4, <6>1 DEF Reported
        <5>7. CASE ReadAgain(t)
          <6>1. /\ Now'.read = Now.read /\ Now'.stage = "explain" /\ Now.stage = "again"
                /\ Now'.again = First("sms", len["sms"])
            BY <3>1, <5>7, ReadAgainStep
          <6>2. g \in Reported(traces, l)
            BY <4>5, <5>1, <6>1 DEF Counted
          <6>3. g \in Reported(traces, l)'
            BY <2>2, <2>5, <3>1, <6>1, <6>2 DEF Reported
          <6>4. l = "sms" => \E i \in DOMAIN Now'.again : Now'.again[i] = g
            BY <5>5, <6>1
          <6> QED
            BY <6>1, <6>3, <6>4
        <5>8. CASE Explain(t)
          <6>1. Now'.read[l] = Now.read[l] /\ Now'.stage = "done" /\ Now.stage = "explain" /\ Now'.again = Now.again
            BY <3>1, <5>1, <5>8, ExplainStep
          <6>2. /\ g \in Reported(traces, l)
                /\ l = "sms" => \E i \in DOMAIN Now.again : Now.again[i] = g
            BY <4>5, <5>1, <6>1 DEF Counted
          <6>3. g \in Reported(traces, l)'
            BY <2>2, <2>5, <3>1, <6>1, <6>2 DEF Reported
          <6> QED
            BY <6>1, <6>2, <6>3
        <5> QED
          BY <3>4, <5>6, <5>7, <5>8
      <4>6. ASSUME NEW g \in Now'.due PROVE Counted(g)'
        <5>1. g \in Now.due /\ go' = go /\ traces' = traces /\ (OwnTrace(g)' <=> OwnTrace(g)) /\ Now'.len = Now.len
          BY <2>2, <3>1, <4>1, <4>6 DEF OwnTrace
        <5>2. ASSUME OwnTrace(g), NEW l \in Measures, go[g].list = l
              PROVE  go[g].len + 1 <= Now.len[l]
          BY <4>3, <5>1, <5>2
        <5> QED
          BY <4>5, <5>1, <5>2 DEF Counted
      <4>7. \A l \in Measures : Now'.len[l] <= len'[l]
        BY <2>2, <3>1, <4>1, <4>2 DEF ReportInv
      <4>8. Now'.stage # "none"
        BY <3>1, <4>1
      <4> QED
        BY <2>3, <3>1, <4>6, <4>7, <4>8 DEF ReportInv
    <3> QED
      BY <1>6, <3>3, <3>4
  <2> QED
    BY <2>4, <2>5
<1> QED
  BY <1>3, <1>4, <1>5, <1>6 DEF Moved

----------------------------------------------------------------------------
(* The report has nothing old                                              *)

\* Every step keeps what is old out of clean lists and their reports.
LEMMA OldKept ==
  ASSUME TypeOK, CellsInv, MeasuresInv, ReportInv, OldInv, TypeOK', CellsInv', MeasuresInv', Moved
  PROVE  OldInv'
<1>0. /\ go \in Seq(Goroutine) /\ traces \in Nat
      /\ timers \in Seq(Timer) /\ DOMAIN timers = 1 .. traces
      /\ len \in [Lists -> Nat] /\ cells \in [Lists -> Seq(Nat)]
      /\ Lists = Measures \cup {"queries"} /\ "queries" \notin Measures
  BY LenProperties DEF TypeOK, Lists, Measures
<1>1. \A g \in DOMAIN go : go[g] \in Goroutine
  BY <1>0
<1>2. \A t \in DOMAIN timers : timers[t] \in Timer
  BY <1>0
<1>3. ASSUME NEW gs, Begin(gs), Spawn(gs), traces >= 1 PROVE OldInv'
  <2>1. /\ DOMAIN go \subseteq DOMAIN go' /\ \A g \in DOMAIN go : go'[g] = go[g]
        /\ \A g \in DOMAIN go' : g \notin DOMAIN go =>
              go'[g].pc # "store" /\ (calm' /\ go'[g].list = "queries" => starting = <<>>)
        /\ (calm' => calm)
        /\ UNCHANGED <<len, cells, starting, traces, timers, torn>>
    BY <1>3, SpawnStep
  <2>2. Now' = Now /\ \A l : (Clean(l)' => Clean(l)) /\ (Yet(l)' <=> Yet(l)) /\ (Loaded(l)' <=> Loaded(l))
    BY <2>1 DEF Now, Clean, Yet, Loaded
  <2>3. \A g \in Now'.old : g \in DOMAIN go' /\ Done(g)' /\ ~OwnTrace(g)'
    BY <1>3, <2>1, <2>2 DEF OldInv, Done, OwnTrace
  <2>4. calm' /\ starting' # <<>> => \A g \in DOMAIN go' : go'[g].list = "queries" => g \in Now'.old
    BY <1>3, <2>1, <2>2 DEF OldInv
  <2>5. ASSUME NEW l \in Lists, FreshList(l) PROVE FreshList(l)'
    BY <2>1, <2>2, <2>5 DEF FreshList, Old, Storing
  <2> QED
    BY <1>3, <2>1, <2>2, <2>3, <2>4, <2>5 DEF OldInv
<1>4. ASSUME NEW g \in DOMAIN go, Look(g) \/ Sample(g), traces >= 1 PROVE OldInv'
  <2>1. /\ Others(g) /\ go[g].pc \in {"look", "sample"} /\ go'[g].pc # "store" /\ go'[g].list = go[g].list
        /\ UNCHANGED <<len, cells, starting, traces, timers, calm, torn>>
    BY <1>4, LookStep, SampleStep
  <2>2. Now' = Now /\ \A l : (Clean(l)' => Clean(l)) /\ (Yet(l)' <=> Yet(l)) /\ (Loaded(l)' <=> Loaded(l))
    BY <2>1 DEF Now, Clean, Yet, Loaded
  <2>3. \A h \in Now'.old : h \in DOMAIN go' /\ Done(h)' /\ ~OwnTrace(h)'
    BY <1>4, <2>1, <2>2 DEF OldInv, Done, OwnTrace, Others
  <2>4. calm' /\ starting' # <<>> => \A h \in DOMAIN go' : go'[h].list = "queries" => h \in Now'.old
    BY <1>4, <2>1, <2>2 DEF OldInv, Others
  <2>5. ASSUME NEW l \in Lists, FreshList(l) PROVE FreshList(l)'
    <3>1. \A h \in DOMAIN go' : Storing(h)' /\ go'[h].list = l =>
            h \in DOMAIN go /\ Storing(h) /\ go[h].list = l /\ go'[h].len = go[h].len
      BY <2>1 DEF Storing, Others
    <3> QED
      BY <2>1, <2>2, <2>5, <3>1 DEF FreshList, Old
  <2> QED
    BY <1>4, <2>1, <2>2, <2>3, <2>4, <2>5 DEF OldInv
<1>5. ASSUME NEW g \in DOMAIN go, Append1(g), traces >= 1 PROVE OldInv'
  <2> PICK l : l = go[g].list
    OBVIOUS
  <2>1. Appended(g, l)
    BY <1>5, AppendStep
  <2>2. /\ Others(g) /\ l \in Lists
        /\ go'[g].list = l /\ go'[g].len = len[l] /\ go[g].pc = "append"
        /\ torn \subseteq torn'
        /\ UNCHANGED <<len, starting, traces, timers, calm>>
    BY <2>1 DEF Appended
  <2>3. \A i \in 1 .. Len(cells'[l]) : i # len[l] + 1 =>
          i \in 1 .. Len(cells[l]) /\ cells'[l][i] = cells[l][i]
    BY <2>1 DEF Appended
  <2>4. Now' = Now /\ \A m : (Clean(m)' => Clean(m)) /\ (Yet(m)' <=> Yet(m)) /\ (Loaded(m)' <=> Loaded(m))
    BY <2>2 DEF Now, Clean, Yet, Loaded
  <2>5. \A h \in Now'.old : h \in DOMAIN go' /\ Done(h)' /\ ~OwnTrace(h)'
    BY <1>5, <2>2, <2>4 DEF OldInv, Done, OwnTrace, Others
  <2>6. calm' /\ starting' # <<>> => \A h \in DOMAIN go' : go'[h].list = "queries" => h \in Now'.old
    BY <1>5, <2>2, <2>4 DEF OldInv, Others
  <2>7. g \notin Now.old
    BY <1>5, <2>2 DEF OldInv, Done
  <2>8. ASSUME NEW m \in Lists, NEW i \in DOMAIN cells'[m], Old(m, i)'
        PROVE  i \in DOMAIN cells[m] /\ Old(m, i)
    <3>1. CASE m # l
      <4>1. cells'[m] = cells[m]
        BY <2>1, <3>1 DEF Appended
      <4> QED
        BY <2>4, <2>8, <4>1 DEF Old
    <3>2. CASE m = l
      <4>1. /\ cells'[l][len[l] + 1] = g /\ cells'[l] \in Seq(Nat)
            /\ \A j \in 1 .. Len(cells'[l]) : j # len[l] + 1 =>
                 j \in 1 .. Len(cells[l]) /\ cells'[l][j] = cells[l][j]
        <5>1. cells'[l][len[l] + 1] = g /\ cells' \in [Lists -> Seq(Nat)]
          BY <2>1 DEF Appended
        <5> QED
          BY <2>2, <2>3, <5>1
      <4>2. i \in 1 .. Len(cells'[l]) /\ DOMAIN cells[l] = 1 .. Len(cells[l])
        BY <1>0, <2>2, <2>8, <3>2, <4>1, LenProperties
      <4>3. i # len[l] + 1
        BY <2>4, <2>7, <2>8, <3>2, <4>1 DEF Old
      <4> QED
        BY <2>4, <2>8, <3>2, <4>1, <4>2, <4>3 DEF Old
    <3> QED
      BY <3>1, <3>2
  <2>9. ASSUME NEW m \in Lists, FreshList(m) PROVE FreshList(m)'
    <3>1. ASSUME ~Yet(m), NEW i \in DOMAIN cells'[m], Old(m, i)',
                 NEW h \in DOMAIN go', Storing(h)', go'[h].list = m
          PROVE  go'[h].len + 1 < i
      <4>1. i \in DOMAIN cells[m] /\ Old(m, i)
        BY <2>8, <3>1
      <4>2. CASE h = g
        <5>1. len[l] < i /\ i \in Nat /\ len[l] \in Nat
          BY <1>0, <2>2, <2>9, <3>1, <4>1, <4>2, LenProperties DEF FreshList
        <5>2. i # len[l] + 1
          <6>1. cells'[l][len[l] + 1] = g
            BY <2>1 DEF Appended
          <6> QED
            BY <2>2, <2>4, <2>7, <3>1, <4>2, <6>1 DEF Old
        <5> QED
          BY <2>2, <4>2, <5>1, <5>2
      <4>3. CASE h # g
        BY <2>2, <2>9, <3>1, <4>1, <4>3 DEF FreshList, Storing, Others
      <4> QED
        BY <4>2, <4>3
    <3> QED
      BY <2>2, <2>4, <2>8, <2>9, <3>1 DEF FreshList
  <2> QED
    BY <1>5, <2>2, <2>4, <2>5, <2>6, <2>9 DEF OldInv
<1>6. ASSUME NEW g \in DOMAIN go, Store(g), traces >= 1 PROVE OldInv'
  <2> PICK l : l = go[g].list
    OBVIOUS
  <2>1. /\ Others(g) /\ l \in Lists
        /\ go'[g].list = l /\ go[g].pc = "store" /\ go'[g].pc = "done"
        /\ len'[l] = go[g].len + 1 /\ \A m \in Lists : m # l => len'[m] = len[m]
        /\ UNCHANGED <<cells, starting, traces, timers, calm, torn>>
    BY <1>6, StoreStep
  <2>2. Now' = Now /\ \A m : (Clean(m)' => Clean(m)) /\ (Yet(m)' <=> Yet(m)) /\ (Loaded(m)' <=> Loaded(m))
    BY <2>1 DEF Now, Clean, Yet, Loaded
  <2>3. \A h \in Now'.old : h \in DOMAIN go' /\ Done(h)' /\ ~OwnTrace(h)'
    BY <1>6, <2>1, <2>2 DEF OldInv, Done, OwnTrace, Others
  <2>4. calm' /\ starting' # <<>> => \A h \in DOMAIN go' : go'[h].list = "queries" => h \in Now'.old
    BY <1>6, <2>1, <2>2 DEF OldInv, Others
  <2>5. ASSUME NEW m \in Lists, FreshList(m) PROVE FreshList(m)'
    <3>1. \A h \in DOMAIN go' : Storing(h)' /\ go'[h].list = m =>
            h \in DOMAIN go /\ Storing(h) /\ go[h].list = m /\ go'[h].len = go[h].len
      BY <2>1 DEF Storing, Others
    <3>2. ASSUME ~Yet(m), NEW i \in DOMAIN cells[m], Old(m, i) PROVE len'[m] < i
      BY <2>1, <2>5, <3>2 DEF FreshList, Storing
    <3>3. \A i \in DOMAIN cells[m] : Old(m, i)' <=> Old(m, i)
      BY <2>1, <2>2 DEF Old
    <3> QED
      BY <2>1, <2>2, <2>5, <3>1, <3>2, <3>3 DEF FreshList
  <2> QED
    BY <1>6, <2>1, <2>2, <2>3, <2>4, <2>5 DEF OldInv
<1>7. ASSUME StartTrace PROVE OldInv'
  <2>1. /\ starting' = <<"rms", "sms", "hms", "queries", "sampled">>
        /\ traces' = traces + 1
        /\ Now'.old = {g \in DOMAIN go : Done(g)}
        /\ Now'.read = [l \in Lists |-> <<>>]
        /\ calm' = ~StillSampling
        /\ UNCHANGED <<len, cells, go>>
    BY <1>7, StartStep DEF Now
  <2>2. \A g \in Now'.old : g \in DOMAIN go' /\ Done(g)' /\ ~OwnTrace(g)'
    <3>1. \A g \in DOMAIN go : go[g].trace \in Nat /\ go[g].trace <= traces
      BY <1>1 DEF MeasuresInv, Goroutine
    <3> QED
      BY <1>0, <2>1, <3>1 DEF Done, OwnTrace
  <2>3. calm' => \A g \in DOMAIN go' : go'[g].list = "queries" => g \in Now'.old
    BY <2>1 DEF StillSampling, Done
  <2>4. starting' # <<>> /\ \A l \in Lists : Yet(l)'
    <3>1. /\ DOMAIN starting' = 1 .. 5
          /\ starting'[1] = "rms" /\ starting'[2] = "sms" /\ starting'[3] = "hms" /\ starting'[4] = "queries"
      BY <2>1
    <3> QED
      BY <1>0, <2>1, <3>1 DEF Yet, Measures
  <2>5. \A l \in Lists : FreshList(l)'
    BY <2>1, <2>4 DEF FreshList
  <2> QED
    BY <2>2, <2>3, <2>5 DEF OldInv
<1>8. ASSUME Reset PROVE OldInv'
  <2>1. starting # <<>> /\ traces >= 1
    BY <1>8 DEF Reset, MeasuresInv
  <2>2. /\ \A t \in DOMAIN timers : timers'[t] = [timers[t] EXCEPT !.stage = timers'[t].stage]
        /\ UNCHANGED <<cells, go, traces, calm>>
    BY <1>8, <2>1, ResetStep
  <2>3. Now'.old = Now.old /\ Now'.read = Now.read
    <3>1. traces \in DOMAIN timers /\ timers[traces] \in Timer
      BY <1>0, <1>2, <2>1
    <3>2. timers'[traces].old = timers[traces].old /\ timers'[traces].read = timers[traces].read
      BY <2>2, <3>1 DEF Timer
    <3> QED
      BY <2>2, <3>2 DEF Now
  <2>4. PICK s \in Lists \cup {"sampled"} :
              /\ \A l \in Lists : Yet(l) <=> l = s \/ (\E i \in DOMAIN starting' : starting'[i] = l)
              /\ \A i \in DOMAIN starting' : starting'[i] # s
              /\ s = "sampled" =>
                   starting' = <<>> /\ sampled' = {} /\ timers'[traces].stage = "rms" /\ UNCHANGED <<len, torn>>
              /\ s # "sampled" =>
                   /\ starting' # <<>> /\ len' = [len EXCEPT ![s] = 0] /\ UNCHANGED <<sampled, timers>>
                   /\ torn' = IF Appending(s) THEN torn \cup {s} ELSE torn
    BY <1>8, <2>1, ResetStep
  <2>5. \A l \in Lists : (Yet(l)' => Yet(l)) /\ (Yet(l) => Yet(l)' \/ l = s)
    BY <2>4 DEF Yet
  <2>6. \A g \in Now'.old : g \in DOMAIN go' /\ Done(g)' /\ ~OwnTrace(g)'
    BY <2>1, <2>2, <2>3 DEF OldInv, Done, OwnTrace
  <2>7. calm => \A g \in DOMAIN go : go[g].list = "queries" => g \in Now.old
    BY <2>1 DEF OldInv
  <2>8. torn \subseteq torn' /\ \A l : Clean(l)' => Clean(l)
    BY <2>2, <2>4 DEF Clean
  <2>9. \A l : starting' = <<>> => ~Loaded(l)'
    BY <2>2, <2>4 DEF Loaded, Now
  <2>10. ASSUME NEW l \in Lists, Clean(l)' PROVE FreshList(l)'
    <3>1. FreshList(l)
      BY <2>1, <2>8, <2>10 DEF OldInv
    <3>2. CASE l = s
      <4>1. len'[l] = 0
        BY <1>0, <2>4, <2>10, <3>2 DEF Measures
      <4>2. \A i \in DOMAIN cells[l] : i \in Nat /\ 0 < i
        BY <1>0, LenProperties
      <4>3. \A g \in DOMAIN go : ~(Storing(g) /\ go[g].list = l)
        <5>1. CASE l \notin torn'
          <6>1. ~Appending(l)
            BY <1>0, <2>4, <3>2, <5>1 DEF Measures
          <6> QED
            BY <6>1 DEF Appending, Storing
        <5>2. CASE l = "queries" /\ calm
          BY <2>1, <2>7, <5>2 DEF OldInv, Done, Storing
        <5> QED
          BY <2>2, <2>10, <5>1, <5>2 DEF Clean
      <4> QED
        BY <2>2, <2>3, <2>9, <3>1, <4>1, <4>2, <4>3 DEF FreshList, Storing
    <3>3. CASE l # s
      <4>1. len'[l] = len[l]
        BY <1>0, <2>4, <3>3
      <4>2. Yet(l)' <=> Yet(l)
        BY <2>5, <3>3
      <4> QED
        BY <2>2, <2>3, <2>9, <3>1, <4>1, <4>2 DEF FreshList, Storing, Old
    <3> QED
      BY <3>2, <3>3
  <2> QED
    BY <2>2, <2>3, <2>6, <2>7, <2>10 DEF OldInv
<1>9. ASSUME NEW t \in DOMAIN timers, Load(t) \/ Read(t) \/ ReadAgain(t) \/ Explain(t)
      PROVE  OldInv'
  <2>1. /\ \A l \in Measures : timers[t].len[l] <= Len(cells[l])
        /\ \A u \in DOMAIN timers : \A l \in Lists : timers[u].len[l] <= Len(cells[l])
    BY <1>0 DEF CellsInv
  <2>2. OneTimer(t) /\ timers[t].stage # "none"
    <3>1. CASE Load(t)
      <4>1. PICK l : l = timers[t].stage
        OBVIOUS
      <4> QED
        BY <3>1, <4>1, LoadStep DEF Measures
    <3>2. CASE Read(t)
      BY <2>1, <3>2, ReadStep
    <3>3. CASE ReadAgain(t) \/ Explain(t)
      BY <3>3, ReadAgainStep, ExplainStep
    <3> QED
      BY <1>9, <3>1, <3>2, <3>3
  <2>3. /\ \A u \in DOMAIN timers : u # t => timers'[u] = timers[u]
        /\ timers'[t].old = timers[t].old
        /\ UNCHANGED <<len, cells, go, starting, traces, calm, torn>>
    BY <2>2 DEF OneTimer
  <2>4. ASSUME Load(t), NEW m, m = timers[t].stage
        PROVE  /\ m \in Measures /\ timers'[t].stage = After(m) /\ timers'[t].len[m] = len[m]
               /\ \A k \in Lists : k # m => timers'[t].len[k] = timers[t].len[k]
               /\ timers'[t].read = timers[t].read
    <3>1. /\ m \in Measures /\ timers'[t].stage = After(m) /\ timers'[t].len[m] = len[m]
          /\ \A k \in Lists : k # m => timers'[t].len[k] = timers[t].len[k]
          /\ timers'[t].due = IF m = "rms" THEN {g \in DOMAIN go : Done(g)} ELSE timers[t].due
      BY <2>4, LoadStep
    <3>2. timers'[t].read = timers[t].read
      BY <2>4, LoadStep
    <3> QED
      BY <3>1, <3>2
  <2>5. traces >= 1 /\ traces \in DOMAIN timers
    BY <1>0
  <2>6. CASE t # traces
    <3>1. Now' = Now
      BY <2>3, <2>5, <2>6 DEF Now
    <3> QED
      BY <2>3, <3>1 DEF OldInv, Done, OwnTrace, Clean, FreshList, Old, Yet, Storing, Loaded
  <2>7. CASE t = traces
    <3>1. /\ starting = <<>> /\ Now = timers[t] /\ Now' = timers'[t] /\ Now \in Timer
          /\ Now'.old = Now.old /\ \A l : ~Yet(l)
      BY <1>2, <2>2, <2>3, <2>7 DEF Now, ReportInv, Yet
    <3>2. ASSUME NEW l \in Lists, FreshList(l)
          PROVE  /\ l \in Measures /\ Loaded(l)' => \A i \in DOMAIN cells[l] : Old(l, i) => Now'.len[l] < i
                 /\ \A i \in DOMAIN Now'.read[l] : Now'.read[l][i] \notin Now.old
      <4>1. /\ \A i \in DOMAIN cells[l] : Old(l, i) => len[l] < i
            /\ l \in Measures /\ Loaded(l) => \A i \in DOMAIN cells[l] : Old(l, i) => Now.len[l] < i
            /\ \A i \in DOMAIN Now.read[l] : Now.read[l][i] \notin Now.old
        BY <3>1, <3>2 DEF FreshList
      <4>2. ASSUME NEW n \in Nat, n <= Len(cells[l]), \A i \in DOMAIN cells[l] : Old(l, i) => n < i
            PROVE  \A i \in DOMAIN First(l, n) : First(l, n)[i] \notin Now.old
        <5>1. /\ First(l, n) \in Seq(Nat) /\ Len(First(l, n)) = n
              /\ \A i \in 1 .. n : First(l, n)[i] = cells[l][i]
          BY <4>2, FirstProperties
        <5>2. /\ DOMAIN First(l, n) = 1 .. n /\ DOMAIN cells[l] = 1 .. Len(cells[l])
              /\ Len(cells[l]) \in Nat
          BY <1>0, <5>1, LenProperties
        <5>3. ASSUME NEW i \in 1 .. n PROVE First(l, n)[i] \notin Now.old
          <6>1. i \in DOMAIN cells[l] /\ ~(n < i)
            BY <4>2, <5>2
          <6> QED
            BY <4>2, <5>1, <6>1 DEF Old
        <5> QED
          BY <5>2, <5>3
      <4>3. len[l] \in Nat /\ len[l] <= Len(cells[l]) /\ Now.len[l] \in Nat /\ Now.len[l] <= Len(cells[l])
        BY SMTT(60), <1>0, <2>1, <3>1 DEF CellsInv, Timer
      <4>4. CASE Load(t)
        <5>1. PICK m : m = timers[t].stage
          OBVIOUS
        <5>2. /\ m \in Measures /\ Now'.stage = After(m) /\ Now'.len[m] = len[m] /\ Now'.read = Now.read
              /\ l # m => Now'.len[l] = Now.len[l]
          <6>1. /\ m \in Measures /\ timers'[t].stage = After(m) /\ timers'[t].len[m] = len[m]
                /\ \A k \in Lists : k # m => timers'[t].len[k] = timers[t].len[k]
                /\ timers'[t].read = timers[t].read
            BY <2>4, <4>4, <5>1
          <6> QED
            BY <3>1, <6>1
        <5>3. l \in Measures /\ Loaded(l)' => l = m \/ Loaded(l)
          <6>1. CASE m = "rms"
            BY <3>1, <5>1, <5>2, <6>1 DEF Loaded, After, Measures
          <6>2. CASE m = "sms"
            BY <3>1, <5>1, <5>2, <6>2 DEF Loaded, After, Measures
          <6>3. CASE m = "hms"
            BY <3>1, <5>1, <5>2, <6>3 DEF Loaded, After, Measures
          <6> QED
            BY <5>2, <6>1, <6>2, <6>3 DEF Measures
        <5> QED
          BY <4>1, <5>2, <5>3
      <4>5. CASE Read(t)
        <5>1. /\ Now.stage = "read" /\ Now'.len = Now.len
              /\ l \in Measures => Now'.read[l] = First(l, Now.len[l])
              /\ Now'.read["queries"] = <<>>
          BY <2>1, <3>1, <4>5, ReadStep
        <5>2. \A m : Loaded(m)
          BY <5>1 DEF Loaded
        <5>3. CASE l \in Measures
          <6>1. \A i \in DOMAIN First(l, Now.len[l]) : First(l, Now.len[l])[i] \notin Now.old
            BY <4>1, <4>2, <4>3, <5>2, <5>3
          <6> QED
            BY <4>1, <5>1, <5>2, <5>3, <6>1
        <5>4. CASE l = "queries"
          BY <1>0, <5>1, <5>4
        <5> QED
          BY <1>0, <5>3, <5>4
      <4>6. CASE ReadAgain(t)
        <5>1. Now.stage = "again" /\ Now'.len = Now.len /\ Now'.read = Now.read
          BY <3>1, <4>6, ReadAgainStep
        <5> QED
          BY <4>1, <5>1 DEF Loaded
      <4>7. CASE Explain(t)
        <5>1. /\ Now.stage = "explain" /\ Now'.len = Now.len
              /\ l \in Measures => Now'.read[l] = Now.read[l]
              /\ Now'.read["queries"] = First("queries", len["queries"])
          BY <3>1, <4>7, ExplainStep
        <5>2. \A i \in DOMAIN First(l, len[l]) : First(l, len[l])[i] \notin Now.old
          BY <4>1, <4>2, <4>3
        <5> QED
          BY <1>0, <4>1, <5>1, <5>2 DEF Loaded
      <4> QED
        BY <1>9, <4>4, <4>5, <4>6, <4>7
    <3>3. ASSUME NEW l \in Lists, FreshList(l) PROVE FreshList(l)'
      <4>1. \A i : Old(l, i)' <=> Old(l, i)
        BY <2>3, <3>1 DEF Old
      <4>2. \A g : Storing(g)' <=> Storing(g)
        BY <2>3 DEF Storing
      <4>3. \A i \in DOMAIN cells[l] : Old(l, i) =>
              len[l] < i /\ \A g \in DOMAIN go : Storing(g) /\ go[g].list = l => go[g].len + 1 < i
        BY <3>1, <3>3 DEF FreshList
      <4> QED
        BY <2>3, <3>1, <3>2, <3>3, <4>1, <4>2, <4>3 DEF FreshList
    <3> QED
      BY <2>3, <2>5, <3>1, <3>3 DEF OldInv, Done, OwnTrace, Clean
  <2> QED
    BY <2>6, <2>7
<1> QED
  <2>1. CASE traces >= 1
    BY <1>3, <1>4, <1>5, <1>6, <1>7, <1>8, <1>9, <2>1 DEF Moved
  <2>2. CASE ~(traces >= 1)
    <3>1. CASE StartTrace \/ Reset \/ \E t \in DOMAIN timers : Load(t) \/ Read(t) \/ ReadAgain(t) \/ Explain(t)
      BY <1>7, <1>8, <1>9, <3>1
    <3>2. CASE \/ \E gs : Begin(gs) /\ Spawn(gs)
               \/ \E g \in DOMAIN go : Look(g) \/ Sample(g) \/ Append1(g) \/ Store(g)
      BY <2>2, <3>2, Lasting DEF OldInv
    <3> QED
      BY <3>1, <3>2 DEF Moved
  <2> QED
    BY <2>1, <2>2

----------------------------------------------------------------------------
(* One goroutine of every query wins                                       *)

\* Who has its cell stores or is done.
LEMMA CellFilled ==
  ASSUME TypeOK, CellsInv, NEW g \in DOMAIN go, InCell(g)
  PROVE  go[g].pc \in {"store", "done"}
<1>1. go[g] \in Goroutine
  BY DEF TypeOK
<1>2. PICK l, i : l = go[g].list /\ i = go[g].len + 1
  OBVIOUS
<1>3. l \in Lists /\ cells[l] \in Seq(Nat) /\ i \in 1 .. Len(cells[l]) /\ cells[l][i] = g
  BY <1>1, <1>2 DEF InCell, Mine, Goroutine, TypeOK
<1>4. i \in DOMAIN cells[l]
  BY <1>3, LenProperties
<1> QED
  BY <1>3, <1>4 DEF CellsInv

\* Samplers do not change when goroutines, cells and the queries seen do not.
LEMMA SameSamples ==
  ASSUME UNCHANGED <<len, cells, sampled, go>>, Now'.old = Now.old
  PROVE  /\ Looked' <=> Looked
         /\ OneWinner' <=> OneWinner
         /\ LoneStore' <=> LoneStore
         /\ Winners' <=> Winners
<1>1. \A g : InCell(g)' <=> InCell(g)
  BY DEF InCell, Mine
<1>2. \A g : Within(g)' <=> Within(g)
  BY <1>1 DEF Within
<1>3. \A g : Sampler(g)' <=> Sampler(g)
  BY DEF Sampler
<1>4. Looked' <=> Looked
  BY <1>3 DEF Looked
<1>5. OneWinner' <=> OneWinner
  BY <1>1, <1>3 DEF OneWinner, Won
<1>6. LoneStore' <=> LoneStore
  BY <1>1 DEF LoneStore, Storing
<1>7. Winners' <=> Winners
  <2>1. \A g, query : Winning(g, query)' <=> Winning(g, query)
    BY <1>2, <1>3 DEF Winning, Done
  <2> QED
    BY <2>1 DEF Winners
<1> QED
  BY <1>4, <1>5, <1>6, <1>7

\* Every step keeps one winner for each query.
LEMMA SampledKept ==
  ASSUME TypeOK, CellsInv, MeasuresInv, ReportInv, OldInv, SampledInv, TypeOK', CellsInv', Moved
  PROVE  SampledInv'
<1>0. /\ go \in Seq(Goroutine) /\ traces \in Nat
      /\ timers \in Seq(Timer) /\ DOMAIN timers = 1 .. traces
      /\ len \in [Lists -> Nat] /\ cells \in [Lists -> Seq(Nat)]
      /\ Lists = Measures \cup {"queries"} /\ "queries" \notin Measures
  BY LenProperties DEF TypeOK, Lists, Measures
<1>1. \A g \in DOMAIN go : go[g] \in Goroutine
  BY <1>0
<1>2. DOMAIN cells["queries"] = 1 .. Len(cells["queries"]) /\ cells["queries"] \in Seq(Nat) /\ len["queries"] \in Nat
  BY <1>0, LenProperties
<1>3. ASSUME NEW gs, Begin(gs), Spawn(gs), Traced', calm' PROVE SampledInv'
  <2>1. /\ go' \in Seq(Goroutine) /\ DOMAIN go \subseteq DOMAIN go' /\ \A g \in DOMAIN go : go'[g] = go[g]
        /\ \A g \in DOMAIN go' : g \notin DOMAIN go => go'[g].pc = IF go'[g].list = "queries" THEN "look" ELSE "append"
        /\ (calm' => calm)
        /\ UNCHANGED <<len, cells, sampled, starting, traces, timers, torn>>
    BY <1>3, SpawnStep
  <2>2. Traced /\ calm /\ Now' = Now
    BY <1>3, <2>1 DEF Traced, Now
  <2>3. \A g \in DOMAIN go : /\ Sampler(g)' <=> Sampler(g)
                             /\ InCell(g)' <=> InCell(g)
                             /\ Within(g)' <=> Within(g)
                             /\ Won(g)' <=> Won(g)
    BY <2>1, <2>2 DEF Sampler, InCell, Mine, Within, Won
  <2>4. ASSUME NEW g \in DOMAIN go', Won(g)' PROVE g \in DOMAIN go
    <3>1. CASE g \notin DOMAIN go
      <4>1. go'[g].list = "queries" /\ go'[g].pc = "look"
        BY <2>1, <2>4, <3>1 DEF Won, Sampler
      <4>2. go'[g].len + 1 \in 1 .. Len(cells["queries"]) /\ cells["queries"][go'[g].len + 1] = g
        BY <2>1, <2>4, <4>1 DEF Won, InCell, Mine
      <4> QED
        BY <1>0, <1>2, <3>1, <4>2 DEF CellsInv
    <3> QED
      BY <3>1
  <2>5. Looked'
    BY <2>1, <2>2, <2>3 DEF SampledInv, Looked, Sampler
  <2>6. OneWinner'
    BY <2>1, <2>2, <2>3, <2>4 DEF SampledInv, OneWinner
  <2>7. "queries" \notin torn => LoneStore'
    BY <2>1, <2>2, <2>3 DEF SampledInv, LoneStore, Storing
  <2>8. ASSUME "queries" \notin torn PROVE Winners'
    <3>1. Winners
      BY <2>2, <2>8 DEF SampledInv
    <3>2. \A g \in DOMAIN go : \A query : Winning(g, query) => Winning(g, query)'
      BY <2>1, <2>3 DEF Winning, Done
    <3> QED
      BY <2>1, <3>1, <3>2 DEF Winners
  <2> QED
    BY <2>1, <2>5, <2>6, <2>7, <2>8 DEF SampledInv
<1>4. ASSUME NEW g \in DOMAIN go, Look(g), Traced', calm' PROVE SampledInv'
  <2>1. /\ Others(g) /\ go'[g].list = go[g].list /\ go'[g].query = go[g].query
        /\ go'[g].len = go[g].len /\ go[g].pc = "look"
        /\ \/ go'[g].pc = "sample"
           \/ go'[g].pc = "done" /\ go[g].query \in sampled
        /\ UNCHANGED <<len, cells, sampled, starting, traces, timers, calm, torn>>
    BY <1>4, LookStep
  <2>2. Traced /\ calm /\ Now' = Now
    BY <1>4, <2>1 DEF Traced, Now
  <2>3. /\ DOMAIN go' = DOMAIN go
        /\ \A h \in DOMAIN go : /\ go'[h].query = go[h].query
                                /\ Sampler(h)' <=> Sampler(h)
                                /\ InCell(h)' <=> InCell(h)
                                /\ Within(h)' <=> Within(h)
    BY <2>1, <2>2 DEF Others, Sampler, InCell, Mine, Within
  <2>4. \A h \in DOMAIN go : Won(h)' => Won(h)
    BY <2>1, <2>3 DEF Won, Others
  <2>5. Looked'
    BY <2>1, <2>2, <2>3 DEF SampledInv, Looked, Others
  <2>6. OneWinner'
    BY <2>2, <2>3, <2>4 DEF SampledInv, OneWinner
  <2>7. ASSUME "queries" \notin torn PROVE LoneStore'
    <3>1. \A h \in DOMAIN go : Storing(h)' => h # g /\ Storing(h) /\ go'[h] = go[h]
      BY <2>1 DEF Storing, Others
    <3> QED
      BY <2>1, <2>2, <2>3, <2>7, <3>1 DEF SampledInv, LoneStore
  <2>8. ASSUME "queries" \notin torn PROVE Winners'
    <3>1. \A h \in DOMAIN go : \A query : Winning(h, query) => Winning(h, query)'
      BY <2>1, <2>3 DEF Winning, Done, Others
    <3> QED
      BY <2>1, <2>2, <2>3, <2>8, <3>1 DEF SampledInv, Winners
  <2> QED
    BY <2>1, <2>5, <2>6, <2>7, <2>8 DEF SampledInv
<1>5. ASSUME NEW g \in DOMAIN go, Sample(g), Traced', calm' PROVE SampledInv'
  <2>1. /\ Others(g) /\ go'[g].list = go[g].list /\ go'[g].query = go[g].query
        /\ go'[g].len = go[g].len /\ go[g].pc = "sample"
        /\ \/ go'[g].pc = "append" /\ go[g].query \notin sampled
           \/ go'[g].pc = "done" /\ (go[g].query \in sampled \/ go[g].query = "")
        /\ sampled' = sampled \cup {go[g].query}
        /\ UNCHANGED <<len, cells, starting, traces, timers, calm, torn>>
    BY <1>5, SampleStep
  <2>2. Traced /\ calm /\ Now' = Now
    BY <1>5, <2>1 DEF Traced, Now
  <2>3. /\ DOMAIN go' = DOMAIN go
        /\ \A h \in DOMAIN go : /\ go'[h].query = go[h].query
                                /\ Sampler(h)' <=> Sampler(h)
                                /\ InCell(h)' <=> InCell(h)
                                /\ Within(h)' <=> Within(h)
    BY <2>1, <2>2 DEF Others, Sampler, InCell, Mine, Within
  <2>4. \A h \in DOMAIN go : h # g /\ Won(h)' => Won(h)
    BY <2>1, <2>3 DEF Won, Others
  <2>5. ~InCell(g)
    BY <2>1, CellFilled
  <2>6. Won(g)' => go[g].query \notin sampled
    BY <2>1, <2>3, <2>5 DEF Won
  <2>7. \A h \in DOMAIN go : Won(h) => go[h].query \in sampled
    BY <2>2, CellFilled DEF SampledInv, Looked, Won
  <2>8. Looked'
    BY <2>1, <2>2, <2>3 DEF SampledInv, Looked, Others
  <2>9. OneWinner'
    BY <2>2, <2>3, <2>4, <2>6, <2>7 DEF SampledInv, OneWinner
  <2>10. ASSUME "queries" \notin torn PROVE LoneStore'
    <3>1. \A h \in DOMAIN go : Storing(h)' => h # g /\ Storing(h) /\ go'[h] = go[h]
      BY <2>1 DEF Storing, Others
    <3>2. LoneStore
      BY <2>2, <2>10 DEF SampledInv
    <3>3. DOMAIN go' = DOMAIN go /\ len' = len /\ \A h \in DOMAIN go : InCell(h) => InCell(h)'
      BY <2>1, <2>3
    <3> QED
      BY <3>1, <3>2, <3>3 DEF LoneStore
  <2>11. ASSUME "queries" \notin torn PROVE Winners'
    <3>1. \A h \in DOMAIN go : \A query : Winning(h, query) => Winning(h, query)'
      BY <2>1, <2>3 DEF Winning, Done, Others
    <3>2. go[g].query \notin sampled /\ go[g].query # "" => Winning(g, go[g].query)'
      <4>1. go[g].list = "queries"
        <5>1. go[g].list \in Lists /\ go[g].list \notin Measures
          BY <1>1, <2>1 DEF MeasuresInv, Stored, Goroutine
        <5> QED
          BY <1>0, <5>1
      <4>2. g \notin Now.old
        BY <2>1, <2>2 DEF OldInv, Traced, Done
      <4> QED
        BY <2>1, <2>3, <4>1, <4>2 DEF Winning, Sampler
    <3>3. \A query \in sampled : query # "" => \E h \in DOMAIN go : Winning(h, query)
      BY <2>2, <2>11 DEF SampledInv, Winners
    <3>4. ASSUME NEW query \in sampled', query # "" PROVE \E h \in DOMAIN go' : Winning(h, query)'
      <4>1. CASE query \in sampled
        BY <2>3, <3>1, <3>3, <3>4, <4>1
      <4>2. CASE query = go[g].query /\ query \notin sampled
        BY <2>1, <2>3, <3>2, <3>4, <4>2
      <4> QED
        BY <2>1, <3>4, <4>1, <4>2
    <3> QED
      BY <3>4 DEF Winners
  <2> QED
    BY <2>1, <2>8, <2>9, <2>10, <2>11 DEF SampledInv
<1>6. ASSUME NEW g \in DOMAIN go, Append1(g), Traced', calm' PROVE SampledInv'
  <2> PICK l : l = go[g].list
    OBVIOUS
  <2>1. Appended(g, l)
    BY <1>6, AppendStep
  <2>2. /\ Others(g) /\ l \in Lists /\ go'[g].list = l /\ go'[g].query = go[g].query
        /\ go'[g].len = len[l] /\ go[g].pc = "append" /\ go'[g].pc = "store"
        /\ torn' = IF l = "queries" /\ Appending(l) THEN torn \cup {l} ELSE torn
        /\ UNCHANGED <<len, sampled, starting, traces, timers, calm>>
    BY <2>1 DEF Appended
  <2>3. \A m \in Lists : m # l => cells'[m] = cells[m]
    BY <2>1 DEF Appended
  <2>4. len[l] + 1 \in 1 .. Len(cells'[l]) /\ cells'[l][len[l] + 1] = g /\ Len(cells[l]) <= Len(cells'[l])
    BY <2>1 DEF Appended
  <2>5. \A i \in 1 .. Len(cells'[l]) : i # len[l] + 1 =>
          i \in 1 .. Len(cells[l]) /\ cells'[l][i] = cells[l][i]
    BY <2>1 DEF Appended
  <2>6. Traced /\ calm /\ Now' = Now /\ DOMAIN go' = DOMAIN go
    BY <1>6, <2>2 DEF Traced, Now, Others
  <2>7. \A h \in DOMAIN go : /\ go'[h].query = go[h].query /\ go'[h].list = go[h].list
                             /\ Sampler(h)' <=> Sampler(h)
    BY <2>2, <2>6 DEF Others, Sampler
  <2>8. ASSUME NEW h \in DOMAIN go, h # g, go[h].list = "queries"
        PROVE  /\ go'[h] = go[h] /\ (InCell(h)' => InCell(h)) /\ (Within(h) => Within(h)')
    <3>1. go'[h] = go[h] /\ go[h].len \in Nat
      BY <1>1, <2>2, <2>8 DEF Others, Goroutine
    <3>2. CASE l # "queries"
      <4>1. cells'["queries"] = cells["queries"]
        BY <1>0, <2>3, <3>2
      <4> QED
        BY <2>2, <2>8, <3>1, <4>1 DEF InCell, Mine, Within
    <3>3. CASE l = "queries"
      <4>1. ASSUME InCell(h)' PROVE InCell(h)
        <5>1. go[h].len + 1 \in 1 .. Len(cells'[l]) /\ cells'[l][go[h].len + 1] = h
          BY <2>8, <3>1, <3>3, <4>1 DEF InCell, Mine
        <5>2. go[h].len + 1 # len[l] + 1
          BY <2>4, <2>8, <5>1
        <5> QED
          BY <2>5, <2>8, <3>3, <5>1, <5>2 DEF InCell, Mine
      <4>2. ASSUME Within(h) PROVE Within(h)'
        <5>1. go[h].len + 1 \in 1 .. Len(cells[l]) /\ cells[l][go[h].len + 1] = h /\ go[h].len + 1 <= len[l]
          BY <2>8, <3>3, <4>2 DEF Within, InCell, Mine
        <5>2. Len(cells[l]) \in Nat /\ Len(cells'[l]) \in Nat /\ len[l] \in Nat
          BY <1>0, <2>2, LenProperties DEF TypeOK
        <5>3. go[h].len + 1 \in 1 .. Len(cells'[l]) /\ go[h].len + 1 # len[l] + 1
          BY SMTT(60), <2>4, <3>1, <5>1, <5>2
        <5>4. cells'[l][go[h].len + 1] = h
          BY <2>5, <5>1, <5>3
        <5> QED
          BY <2>2, <2>8, <3>1, <3>3, <5>1, <5>3, <5>4 DEF Within, InCell, Mine
      <4> QED
        BY <3>1, <4>1, <4>2
    <3> QED
      BY <3>2, <3>3
  <2>9. \A h \in DOMAIN go : Won(h)' => Won(h)
    <3>1. Sampler(g) => Won(g)
      BY <2>2 DEF Won
    <3>2. ASSUME NEW h \in DOMAIN go, h # g, Won(h)' PROVE Won(h)
      <4>1. Sampler(h) /\ go[h].list = "queries"
        BY <2>7, <3>2 DEF Won, Sampler
      <4> QED
        BY <2>8, <3>2, <4>1 DEF Won
    <3> QED
      BY <2>7, <3>1, <3>2 DEF Won
  <2>10. Looked'
    BY <2>2, <2>6, <2>7 DEF SampledInv, Looked, Others
  <2>11. OneWinner'
    BY <2>6, <2>7, <2>9 DEF SampledInv, OneWinner
  <2>12. ASSUME "queries" \notin torn' PROVE LoneStore'
    <3>1. "queries" \notin torn /\ LoneStore
      BY <2>2, <2>6, <2>12 DEF SampledInv
    <3>2. CASE l = "queries"
      <4>1. \A h \in DOMAIN go : go[h].list = "queries" => ~Storing(h)
        BY <2>2, <2>12, <3>2 DEF Appending, Storing
      <4>2. \A h \in DOMAIN go' : go'[h].list = "queries" /\ Storing(h)' => h = g
        BY <2>2, <4>1 DEF Storing, Others
      <4>3. InCell(g)' /\ go'[g].len = len'["queries"]
        BY <2>2, <2>4, <3>2 DEF InCell, Mine
      <4> QED
        BY <4>2, <4>3 DEF LoneStore
    <3>3. CASE l # "queries"
      <4>1. cells'["queries"] = cells["queries"]
        BY <1>0, <2>3, <3>3
      <4>2. \A h \in DOMAIN go' : go'[h].list = "queries" =>
              h \in DOMAIN go /\ go'[h] = go[h] /\ (InCell(h)' <=> InCell(h)) /\ (Storing(h)' <=> Storing(h))
        BY <2>2, <3>3, <4>1 DEF Others, InCell, Mine, Storing
      <4> QED
        BY <2>2, <3>1, <4>2 DEF LoneStore
    <3> QED
      BY <3>2, <3>3
  <2>13. ASSUME "queries" \notin torn' PROVE Winners'
    <3>1. Winners
      BY <2>2, <2>6, <2>13 DEF SampledInv
    <3>2. ASSUME NEW h \in DOMAIN go, NEW query, Winning(h, query) PROVE Winning(h, query)'
      <4>1. Sampler(h)' /\ go'[h].query = query /\ go[h].list = "queries"
        BY <2>7, <3>2 DEF Winning, Sampler
      <4>2. CASE h = g
        BY <2>2, <4>1, <4>2 DEF Winning
      <4>3. CASE h # g
        BY <2>8, <3>2, <4>1, <4>3 DEF Winning, Done
      <4> QED
        BY <4>2, <4>3
    <3> QED
      BY <2>2, <2>6, <3>1, <3>2 DEF Winners
  <2> QED
    BY <2>10, <2>11, <2>12, <2>13 DEF SampledInv
<1>7. ASSUME NEW g \in DOMAIN go, Store(g), Traced', calm' PROVE SampledInv'
  <2> PICK l : l = go[g].list
    OBVIOUS
  <2>1. /\ Others(g) /\ l \in Lists /\ go'[g].list = l /\ go'[g].query = go[g].query
        /\ go'[g].len = go[g].len /\ go[g].pc = "store" /\ go'[g].pc = "done"
        /\ len'[l] = go[g].len + 1 /\ \A m \in Lists : m # l => len'[m] = len[m]
        /\ UNCHANGED <<cells, sampled, starting, traces, timers, calm, torn>>
    <3>1. Store(g)
      BY <1>7
    <3> HIDE <1>7
    <3> QED
      BY <3>1, StoreStep
  <2>2. Traced /\ calm /\ Now' = Now /\ DOMAIN go' = DOMAIN go
    BY <1>7, <2>1 DEF Traced, Now, Others
  <2>3. \A h \in DOMAIN go : /\ go'[h].query = go[h].query /\ go'[h].list = go[h].list
                             /\ go'[h].len = go[h].len
                             /\ Sampler(h)' <=> Sampler(h)
                             /\ InCell(h)' <=> InCell(h)
    BY <2>1, <2>2 DEF Others, Sampler, InCell, Mine
  <2>4. \A h \in DOMAIN go : Won(h)' => Won(h)
    BY <2>1, <2>3 DEF Won, Others
  <2>5. Looked'
    BY <2>1, <2>2, <2>3 DEF SampledInv, Looked, Others
  <2>6. OneWinner'
    BY <2>2, <2>3, <2>4 DEF SampledInv, OneWinner
  <2>7. ASSUME "queries" \notin torn PROVE LoneStore'
    <3>1. LoneStore
      BY <2>2, <2>7 DEF SampledInv
    <3>2. \A h \in DOMAIN go : Storing(h)' => h # g /\ Storing(h)
      BY <2>1 DEF Storing, Others
    <3>3. CASE l = "queries"
      BY <2>1, <2>2, <2>3, <3>1, <3>2, <3>3 DEF LoneStore, Storing
    <3>4. CASE l # "queries"
      <4>1. len'["queries"] = len["queries"]
        BY <1>0, <2>1, <3>4
      <4> QED
        BY <2>2, <2>3, <3>1, <3>2, <4>1 DEF LoneStore
    <3> QED
      BY <3>3, <3>4
  <2>8. ASSUME "queries" \notin torn PROVE Winners'
    <3>1. Winners /\ LoneStore
      BY <2>2, <2>8 DEF SampledInv
    <3>2. ASSUME NEW h \in DOMAIN go, NEW query, Winning(h, query) PROVE Winning(h, query)'
      <4>1. Sampler(h)' /\ go'[h].query = query /\ go[h].list = "queries" /\ go[h].len \in Nat /\ go[g].len \in Nat
        BY <1>1, <2>3, <3>2 DEF Winning, Sampler, Goroutine
      <4>2. CASE h = g
        <5>1. InCell(h) /\ len'["queries"] = go'[h].len + 1
          BY <2>1, <3>1, <4>1, <4>2 DEF LoneStore, Storing
        <5>2. Within(h)'
          BY <2>3, <4>1, <5>1 DEF Within
        <5> QED
          BY <2>1, <4>1, <4>2, <5>2 DEF Winning, Done
      <4>3. CASE h # g /\ Within(h)
        <5>1. go[h].len + 1 <= len["queries"] /\ InCell(h)
          BY <4>1, <4>3 DEF Within
        <5>2. go[h].len + 1 <= len'["queries"]
          <6>1. CASE l = "queries"
            <7>1. go[g].len = len["queries"]
              BY <2>1, <3>1, <6>1 DEF LoneStore, Storing
            <7> QED
              BY <1>2, <2>1, <4>1, <5>1, <6>1, <7>1
          <6>2. CASE l # "queries"
            BY <1>0, <2>1, <5>1, <6>2
          <6> QED
            BY <6>1, <6>2
        <5>3. Within(h)'
          BY <2>3, <4>1, <5>1, <5>2 DEF Within
        <5> QED
          BY <2>1, <3>2, <4>1, <4>3, <5>3 DEF Winning, Done, Others
      <4>4. CASE h # g /\ ~Within(h)
        BY <2>1, <3>2, <4>1, <4>4 DEF Winning, Others
      <4> QED
        BY <4>2, <4>3, <4>4
    <3> QED
      BY <2>1, <2>2, <3>1, <3>2 DEF Winners
  <2> QED
    BY <2>1, <2>5, <2>6, <2>7, <2>8 DEF SampledInv
<1>8. ASSUME StartTrace PROVE SampledInv'
  <2>1. starting' = <<"rms", "sms", "hms", "queries", "sampled">>
    BY <1>8, StartStep
  <2>2. starting' # <<>>
    BY <2>1
  <2> QED
    BY <2>2 DEF SampledInv, Traced
<1>9. ASSUME Reset, Traced', calm' PROVE SampledInv'
  <2>1. starting # <<>> /\ traces >= 1
    BY <1>9 DEF Reset, MeasuresInv
  <2>2. /\ \A t \in DOMAIN timers : timers'[t] = [timers[t] EXCEPT !.stage = timers'[t].stage]
        /\ starting' = <<>> => sampled' = {}
        /\ UNCHANGED <<cells, go, traces, calm>>
    BY <1>9, <2>1, ResetStep
  <2>3. traces \in DOMAIN timers /\ timers[traces] \in Timer
    BY <1>0, <2>1
  <2>4. Now'.old = Now.old
    <3>1. timers'[traces].old = timers[traces].old
      BY <2>2, <2>3 DEF Timer
    <3> QED
      BY <2>2, <3>1 DEF Now
  <2>5. \A g \in DOMAIN go' : go'[g].list = "queries" => g \in Now'.old /\ go'[g].pc = "done"
    BY <1>9, <2>1, <2>2, <2>4 DEF OldInv, Done
  <2>6. sampled' = {} /\ \A g \in DOMAIN go' : ~Sampler(g)' /\ (go'[g].list = "queries" => ~Storing(g)')
    BY <1>9, <2>2, <2>5 DEF Sampler, Storing, Traced
  <2> QED
    BY <2>6 DEF SampledInv, Looked, OneWinner, Won, LoneStore, Winners
<1>10. ASSUME NEW t \in DOMAIN timers, Load(t) \/ Read(t) \/ ReadAgain(t) \/ Explain(t), Traced', calm'
      PROVE  SampledInv'
  <2>0. \A l \in Measures : timers[t].len[l] <= Len(cells[l])
    BY <1>0 DEF CellsInv
  <2>1. OneTimer(t)
    <3>1. CASE Load(t)
      <4>1. PICK l : l = timers[t].stage
        OBVIOUS
      <4> QED
        BY <3>1, <4>1, LoadStep
    <3>2. CASE Read(t)
      BY <2>0, <3>2, ReadStep
    <3>3. CASE ReadAgain(t) \/ Explain(t)
      BY <3>3, ReadAgainStep, ExplainStep
    <3> QED
      BY <1>10, <3>1, <3>2, <3>3
  <2>2. /\ Now'.old = Now.old
        /\ UNCHANGED <<len, cells, sampled, go, starting, traces, calm, torn>>
    <3>1. /\ \A u \in DOMAIN timers : timers'[u].old = timers[u].old
          /\ UNCHANGED <<len, cells, sampled, go, starting, traces, calm, torn>>
      BY <2>1 DEF OneTimer
    <3>2. traces \in DOMAIN timers
      BY <1>0
    <3> QED
      BY <3>1, <3>2 DEF Now
  <2>3. Traced /\ calm
    BY <1>10, <2>2 DEF Traced
  <2>4. /\ Looked' <=> Looked
        /\ OneWinner' <=> OneWinner
        /\ LoneStore' <=> LoneStore
        /\ Winners' <=> Winners
    BY <2>2, SameSamples
  <2> QED
    BY <2>2, <2>3, <2>4 DEF SampledInv
<1> QED
  <2>1. CASE ~(Traced' /\ calm')
    BY <2>1 DEF SampledInv
  <2>2. CASE Traced' /\ calm'
    BY <1>3, <1>4, <1>5, <1>6, <1>7, <1>8, <1>9, <1>10, <2>2 DEF Moved
  <2> QED
    BY <2>1, <2>2

----------------------------------------------------------------------------
(* The queries explained are the winners'                                  *)

\* What is true of the goroutines whenever one moves on.
LEMMA Moving ==
  ASSUME TypeOK, CellsInv, NEW g \in DOMAIN go, Look(g) \/ Sample(g) \/ Append1(g) \/ Store(g)
  PROVE  /\ DOMAIN go' = DOMAIN go
         /\ \A h \in DOMAIN go : /\ go'[h].list = go[h].list /\ go'[h].query = go[h].query
                                 /\ go'[h].trace = go[h].trace
         /\ torn \subseteq torn' /\ UNCHANGED <<starting, traces, timers, calm>>
<1>1. CASE Look(g) \/ Sample(g)
  <2>1. /\ Others(g) /\ go'[g].list = go[g].list /\ go'[g].query = go[g].query /\ go'[g].trace = go[g].trace
        /\ UNCHANGED <<starting, traces, timers, calm, torn>>
    BY <1>1, LookStep, SampleStep
  <2> QED
    BY <2>1 DEF Others
<1>2. CASE Append1(g)
  <2>1. PICK l : l = go[g].list
    OBVIOUS
  <2>2. Appended(g, l)
    BY <1>2, <2>1, AppendStep
  <2>3. /\ Others(g) /\ go'[g].list = l /\ go'[g].query = go[g].query /\ go'[g].trace = go[g].trace
        /\ torn \subseteq torn' /\ UNCHANGED <<starting, traces, timers, calm>>
    BY <2>2 DEF Appended
  <2> QED
    BY <2>1, <2>3 DEF Others
<1>3. CASE Store(g)
  <2>1. PICK l : l = go[g].list
    OBVIOUS
  <2>2. /\ Others(g) /\ go'[g].list = l /\ go'[g].query = go[g].query /\ go'[g].trace = go[g].trace
        /\ UNCHANGED <<starting, traces, timers, calm, torn>>
    BY <1>3, <2>1, StoreStep
  <2> QED
    BY <2>1, <2>2 DEF Others
<1> QED
  BY <1>1, <1>2, <1>3

\* Every step keeps what is explained once.
LEMMA ExplainedKept ==
  ASSUME TypeOK, CellsInv, MeasuresInv, ReportInv, OldInv, SampledInv, ExplainedInv, TypeOK', Moved
  PROVE  ExplainedInv'
<1>0. /\ go \in Seq(Goroutine) /\ traces \in Nat
      /\ timers \in Seq(Timer) /\ DOMAIN timers = 1 .. traces
      /\ len \in [Lists -> Nat] /\ cells \in [Lists -> Seq(Nat)]
      /\ Lists = Measures \cup {"queries"} /\ "queries" \notin Measures
  BY LenProperties DEF TypeOK, Lists, Measures
<1>1. \A g \in DOMAIN go : go[g] \in Goroutine
  BY <1>0
<1> DEFINE shown == Now.read["queries"]
<1>2. ASSUME NEW gs, Begin(gs), Spawn(gs), Traced', calm', Now'.stage = "done" PROVE ExplainedInv'
  <2>1. /\ DOMAIN go \subseteq DOMAIN go' /\ \A g \in DOMAIN go : go'[g] = go[g]
        /\ (calm' => calm)
        /\ UNCHANGED <<starting, traces, timers, torn>>
    BY <1>2, SpawnStep
  <2>2. Traced /\ calm /\ Now' = Now /\ Now.stage = "done"
    BY <1>2, <2>1 DEF Traced, Now
  <2>3. \A g \in Now.due : g \in DOMAIN go
    <3>1. traces \in DOMAIN timers
      BY <1>0, <2>2 DEF Traced
    <3> QED
      BY <3>1 DEF ReportInv, Now
  <2>4. \A i \in DOMAIN shown : shown[i] \in DOMAIN go
    BY <2>2 DEF ExplainedInv
  <2>5. ASSUME NEW query, Explains(query) PROVE Explains(query)'
    <3>1. ASSUME Logged(query)' \subseteq Now.due, NEW g \in Logged(query)', OwnTrace(g)'
          PROVE  Logged(query) \subseteq Now.due /\ g \in Logged(query) /\ OwnTrace(g)
      BY <2>1, <2>3, <3>1 DEF Logged, OwnTrace
    <3>2. (\E i \in DOMAIN shown : go[shown[i]].query = query) => \E i \in DOMAIN shown : go'[shown[i]].query = query
      BY <2>1, <2>4
    <3> QED
      BY <2>2, <2>5, <3>1, <3>2 DEF Explains
  <2>6. ASSUME NEW i \in DOMAIN shown, NEW j \in DOMAIN shown, i # j PROVE go'[shown[i]].query # go'[shown[j]].query
    <3>1. go[shown[i]].query # go[shown[j]].query
      BY <2>2, <2>6 DEF ExplainedInv
    <3> QED
      BY <2>1, <2>4, <3>1
  <2>7. \A i \in DOMAIN shown : shown[i] \in DOMAIN go'
    BY <2>1, <2>4
  <2>8. "queries" \notin torn' => \A query \in Queries \ {""} : Explains(query)'
    BY <2>1, <2>2, <2>5 DEF ExplainedInv
  <2> QED
    BY ZenonT(120), <2>2, <2>6, <2>7, <2>8 DEF ExplainedInv
<1>3. ASSUME NEW g \in DOMAIN go, Look(g) \/ Sample(g) \/ Append1(g) \/ Store(g),
             Traced', calm', Now'.stage = "done"
      PROVE  ExplainedInv'
  <2>1. /\ DOMAIN go' = DOMAIN go
        /\ \A h \in DOMAIN go : /\ go'[h].list = go[h].list /\ go'[h].query = go[h].query
                                /\ go'[h].trace = go[h].trace
        /\ torn \subseteq torn' /\ UNCHANGED <<starting, traces, timers, calm>>
    BY <1>3, Moving
  <2>2. Traced /\ calm /\ Now' = Now /\ Now.stage = "done"
    BY <1>3, <2>1 DEF Traced, Now
  <2>3. \A i \in DOMAIN shown : shown[i] \in DOMAIN go
    BY <2>2 DEF ExplainedInv
  <2>4. ASSUME NEW query, Explains(query) PROVE Explains(query)'
    <3>1. Logged(query)' = Logged(query) /\ \A h \in Logged(query) : OwnTrace(h)' <=> OwnTrace(h)
      BY <2>1 DEF Logged, OwnTrace
    <3>2. (\E i \in DOMAIN shown : go[shown[i]].query = query) => \E i \in DOMAIN shown : go'[shown[i]].query = query
      BY <2>1, <2>3
    <3> QED
      BY <2>2, <2>4, <3>1, <3>2 DEF Explains
  <2>5. ASSUME NEW i \in DOMAIN shown, NEW j \in DOMAIN shown, i # j PROVE go'[shown[i]].query # go'[shown[j]].query
    <3>1. go[shown[i]].query # go[shown[j]].query
      BY <2>2, <2>5 DEF ExplainedInv
    <3> QED
      BY <2>1, <2>3, <3>1
  <2>6. "queries" \notin torn' => \A query \in Queries \ {""} : Explains(query)'
    BY <2>1, <2>2, <2>4 DEF ExplainedInv
  <2> QED
    BY ZenonT(120), <2>1, <2>2, <2>3, <2>5, <2>6 DEF ExplainedInv
<1>4. ASSUME StartTrace PROVE ExplainedInv'
  <2>1. starting' = <<"rms", "sms", "hms", "queries", "sampled">>
    BY <1>4, StartStep
  <2>2. starting' # <<>>
    BY <2>1
  <2> QED
    BY <2>2 DEF ExplainedInv, Traced
<1>5. ASSUME Reset PROVE ExplainedInv'
  <2>1. starting # <<>> /\ traces >= 1
    BY <1>5 DEF Reset, MeasuresInv
  <2>2. traces' = traces /\ (starting' = <<>> => timers'[traces].stage = "rms")
    BY <1>5, <2>1, ResetStep
  <2> QED
    BY <2>2 DEF ExplainedInv, Traced, Now
<1>6. ASSUME NEW t \in DOMAIN timers, Load(t) \/ Read(t) \/ ReadAgain(t) \/ Explain(t),
             Traced', calm', Now'.stage = "done"
      PROVE  ExplainedInv'
  <2>0. \A l \in Measures : timers[t].len[l] <= Len(cells[l])
    BY <1>0 DEF CellsInv
  <2>1. OneTimer(t) /\ (timers'[t].stage = "done" => Explain(t))
    <3>1. CASE Load(t)
      <4>1. PICK l : l = timers[t].stage
        OBVIOUS
      <4>2. OneTimer(t) /\ l \in Measures /\ timers'[t].stage = After(l)
        BY <3>1, <4>1, LoadStep
      <4> QED
        BY <4>2 DEF After, Measures
    <3>2. CASE Read(t)
      BY <2>0, <3>2, ReadStep
    <3>3. CASE ReadAgain(t)
      BY <3>3, ReadAgainStep
    <3>4. CASE Explain(t)
      BY <3>4, ExplainStep
    <3> QED
      BY <1>6, <3>1, <3>2, <3>3, <3>4
  <2>2. /\ \A u \in DOMAIN timers : u # t => timers'[u] = timers[u]
        /\ timers'[t].old = timers[t].old
        /\ UNCHANGED <<len, cells, sampled, go, starting, traces, calm, torn>>
    BY <2>1 DEF OneTimer
  <2>3. Traced /\ calm /\ traces \in DOMAIN timers
    BY <1>0, <1>6, <2>2 DEF Traced
  <2>4. CASE t # traces
    <3>1. Now' = Now
      BY <2>2, <2>3, <2>4 DEF Now
    <3> QED
      BY ZenonT(120), <1>6, <2>2, <2>3, <3>1 DEF ExplainedInv, Explains, Logged, OwnTrace
  <2>5. CASE t = traces
    <3>1. Now = timers[t] /\ Now' = timers'[t] /\ Explain(t)
      BY <1>6, <2>1, <2>2, <2>5 DEF Now
    <3> DEFINE q == "queries"
    <3> PICK n : n = len[q]
      OBVIOUS
    <3>2. Now'.read[q] = First(q, n) /\ Now'.due = Now.due
      BY <3>1, ExplainStep
    <3>3. n \in Nat /\ n <= Len(cells[q]) /\ q \in Lists
      BY <1>0 DEF CellsInv
    <3>4. /\ DOMAIN First(q, n) = 1 .. n
          /\ \A i \in 1 .. n : First(q, n)[i] = cells[q][i]
      <4>1. /\ First(q, n) \in Seq(Nat) /\ Len(First(q, n)) = n
            /\ \A i \in 1 .. n : First(q, n)[i] = cells[q][i]
        BY <3>3, FirstProperties
      <4> QED
        BY <4>1, LenProperties
    <3>5. ASSUME NEW i \in 1 .. n
          PROVE  /\ i \in 1 .. Len(cells[q]) /\ cells[q][i] \in DOMAIN go /\ go[cells[q][i]].len + 1 = i
                 /\ Won(cells[q][i])
      <4>1. DOMAIN cells[q] = 1 .. Len(cells[q]) /\ Len(cells[q]) \in Nat
        BY <1>0, LenProperties
      <4>2. i \in DOMAIN cells[q]
        BY <3>3, <4>1
      <4>3. PICK g : g = cells[q][i]
        OBVIOUS
      <4>4. g \in DOMAIN go /\ go[g].list = q /\ go[g].len + 1 = i
        BY <3>3, <4>2, <4>3 DEF CellsInv
      <4>5. g \notin Now.old
        <5>1. FreshList(q) /\ ~Yet(q)
          BY <2>3, <3>3 DEF OldInv, Clean, Traced, Yet
        <5>2. ~(n < i)
          BY <3>3
        <5> QED
          BY <4>2, <4>3, <5>1, <5>2 DEF FreshList, Old
      <4>6. InCell(g)
        BY <4>1, <4>2, <4>3, <4>4 DEF InCell, Mine
      <4> QED
        BY <4>1, <4>2, <4>3, <4>4, <4>5, <4>6 DEF Won, Sampler
    <3>6. \A i, j \in 1 .. n : i # j => go[cells[q][i]].query # go[cells[q][j]].query
      <4>1. OneWinner
        BY <2>3 DEF SampledInv
      <4>2. ASSUME NEW i \in 1 .. n, NEW j \in 1 .. n, go[cells[q][i]].query = go[cells[q][j]].query
            PROVE  i = j
        <5>1. cells[q][i] = cells[q][j]
          BY <3>5, <4>1, <4>2 DEF OneWinner
        <5> QED
          BY <3>5, <5>1
      <4> QED
        BY <4>2
    <3>7. \A k \in Nat : k + 1 <= n => k + 1 \in 1 .. n
      BY <3>3
    <3>8. ASSUME q \notin torn, NEW query \in Queries \ {""},
                 Logged(query) \subseteq Now.due, NEW g \in Logged(query), OwnTrace(g)
          PROVE  \E i \in 1 .. n : go[cells[q][i]].query = query
      <4>1. \A h \in Now.due : h \in DOMAIN go /\ Done(h)
        BY <2>3, <3>1 DEF ReportInv, Now
      <4>2. g \in DOMAIN go /\ go[g].list = q /\ go[g].query = query /\ go[g].pc = "done"
        BY <3>8, <4>1 DEF Logged, Done
      <4>3. g \notin Now.old
        BY <2>3, <3>8 DEF OldInv, Traced
      <4>4. query \in sampled /\ query # ""
        BY <2>3, <3>8, <4>2, <4>3 DEF SampledInv, Looked, Sampler
      <4>5. PICK h \in DOMAIN go : Winning(h, query)
        BY <2>3, <3>8, <4>4 DEF SampledInv, Winners
      <4>6. go[h].list = q /\ go[h].query = query
        BY <4>5 DEF Winning, Sampler
      <4>7. Done(h)
        BY <3>8, <4>1, <4>6 DEF Logged
      <4>8. Within(h)
        BY <4>5, <4>7 DEF Winning, Done
      <4>9. go[h].len + 1 \in 1 .. n /\ cells[q][go[h].len + 1] = h
        <5>1. go[h].len \in Nat
          BY <1>1 DEF Goroutine
        <5>2. go[h].len + 1 <= n
          BY <4>6, <4>8 DEF Within
        <5>3. cells[q][go[h].len + 1] = h
          BY <4>6, <4>8 DEF Within, InCell, Mine
        <5>4. go[h].len + 1 \in 1 .. n
          BY <3>7, <5>1, <5>2
        <5> QED
          BY <5>3, <5>4
      <4> QED
        BY <4>6, <4>9
    <3>9. ASSUME q \notin torn, NEW query \in Queries \ {""} PROVE Explains(query)'
      <4>1. Logged(query)' = Logged(query) /\ \A g : OwnTrace(g)' <=> OwnTrace(g)
        BY <2>2 DEF Logged, OwnTrace
      <4>2. Logged(query) \subseteq Now.due /\ (\E g \in Logged(query) : OwnTrace(g)) =>
              \E i \in 1 .. n : go[First(q, n)[i]].query = query
        BY <3>4, <3>8, <3>9
      <4>3. (\E i \in 1 .. n : go[First(q, n)[i]].query = query) =>
              \E i \in DOMAIN Now'.read["queries"] : go'[Now'.read["queries"][i]].query = query
        BY <2>2, <3>2, <3>4
      <4> QED
        BY <3>2, <4>1, <4>2, <4>3 DEF Explains
    <3>10. \A i \in DOMAIN Now'.read["queries"] : Now'.read["queries"][i] \in DOMAIN go'
      BY <2>2, <3>2, <3>4, <3>5
    <3>11. \A i, j \in DOMAIN Now'.read["queries"] :
             i # j => go'[Now'.read["queries"][i]].query # go'[Now'.read["queries"][j]].query
      <4>1. \A i, j \in 1 .. n : i # j => go[First(q, n)[i]].query # go[First(q, n)[j]].query
        BY <3>4, <3>6
      <4>2. go' = go /\ DOMAIN First(q, n) = 1 .. n /\ Now'.read["queries"] = First(q, n)
        BY <2>2, <3>2, <3>4
      <4> QED
        BY ZenonT(120), <4>1, <4>2
    <3>12. "queries" \notin torn' => \A query \in Queries \ {""} : Explains(query)'
      BY <2>2, <3>9
    <3> QED
      BY <3>10, <3>11, <3>12 DEF ExplainedInv
  <2> QED
    BY <2>4, <2>5
<1> QED
  <2>1. CASE ~(Traced' /\ calm' /\ Now'.stage = "done")
    BY <2>1 DEF ExplainedInv
  <2>2. CASE Traced' /\ calm' /\ Now'.stage = "done"
    BY <1>2, <1>3, <1>4, <1>5, <1>6, <2>2 DEF Moved
  <2> QED
    BY <2>1, <2>2

----------------------------------------------------------------------------
(* The invariant of the specification                                      *)

TraceInv ==
  TypeOK /\ CellsInv /\ MeasuresInv /\ ReportInv /\ OldInv /\ SampledInv /\ ExplainedInv

\* What holds of every run, for any number of measures, samples and traces: a measure list
\* has one goroutine that stores, and no measure of the trace is overwritten or beyond the
\* length (trace.go:72, sql.go:127).
THEOREM TraceCorrect == Spec => []TraceInv
<1>1. Init => TraceInv
  <2> SUFFICES ASSUME Init PROVE TraceInv
    OBVIOUS
  <2>1. /\ len = [l \in Lists |-> 0] /\ cells = [l \in Lists |-> <<>>]
        /\ holder = [l \in Lists |-> 0] /\ go = <<>>
        /\ starting = <<>> /\ traces = 0 /\ timers = <<>> /\ calm = TRUE
    BY DEF Init
  <2>2. <<>> \in Seq(Goroutine) /\ <<>> \in Seq(Timer) /\ <<>> \in Seq(Nat) /\ Len(<<>>) = 0 /\ DOMAIN <<>> = {}
    OBVIOUS
  <2>3. TypeOK
    BY <2>1, <2>2 DEF TypeOK, Resets
  <2>4. CellsInv
    BY <2>1, <2>2 DEF CellsInv
  <2>5. MeasuresInv
    BY <2>1, <2>2 DEF MeasuresInv
  <2>6. ReportInv /\ OldInv /\ SampledInv /\ ExplainedInv
    BY <2>1, <2>2 DEF ReportInv, OldInv, SampledInv, ExplainedInv, Traced
  <2> QED
    BY <2>3, <2>4, <2>5, <2>6 DEF TraceInv
<1>2. TraceInv /\ [Next]_vars => TraceInv'
  <2> SUFFICES ASSUME TraceInv, [Next]_vars PROVE TraceInv'
    OBVIOUS
  <2>1. CASE Next
    <3>1. Moved
      BY <2>1, NextMoves DEF TraceInv
    <3>2. TypeOK' /\ CellsInv'
      BY <3>1, TypesAndCells DEF TraceInv, MeasuresInv
    <3>3. MeasuresInv'
      BY <3>1, <3>2, MeasuresKept DEF TraceInv
    <3>4. ReportInv'
      BY <3>1, <3>2, <3>3, ReportKept DEF TraceInv
    <3>5. OldInv'
      BY <3>1, <3>2, <3>3, OldKept DEF TraceInv
    <3>6. SampledInv'
      BY <3>1, <3>2, SampledKept DEF TraceInv
    <3>7. ExplainedInv'
      BY <3>1, <3>2, ExplainedKept DEF TraceInv
    <3> QED
      BY <3>2, <3>3, <3>4, <3>5, <3>6, <3>7 DEF TraceInv
  <2>2. CASE UNCHANGED vars
    <3>1. UNCHANGED <<len, cells, holder, sampled, go, starting, traces, timers, calm, torn>>
      BY <2>2 DEF vars, listVars, traceVars
    <3>2. TypeOK' /\ CellsInv'
      BY <3>1 DEF TraceInv, TypeOK, CellsInv, Mine, Storing
    <3>3. MeasuresInv'
      BY <3>1 DEF TraceInv, MeasuresInv, Stored, Storing, Done, Within, InCell, Mine, OwnTrace
    <3>4. ReportInv'
      BY <3>1 DEF TraceInv, ReportInv, Done, Traced, Now, Loaded, Counted, OwnTrace, Reported
    <3>5. OldInv'
      BY <3>1 DEF TraceInv, OldInv, Done, Now, Loaded, OwnTrace, Clean, FreshList, Yet, Old, Storing
    <3>6. SampledInv'
      <4>1. Now'.old = Now.old /\ (Traced' <=> Traced)
        BY <3>1 DEF Now, Traced
      <4>2. /\ Looked' <=> Looked
            /\ OneWinner' <=> OneWinner
            /\ LoneStore' <=> LoneStore
            /\ Winners' <=> Winners
        BY <3>1, <4>1, SameSamples
      <4> QED
        BY <3>1, <4>1, <4>2 DEF TraceInv, SampledInv
    <3>7. ExplainedInv'
      <4>1. Now' = Now /\ (Traced' <=> Traced) /\ \A query : Explains(query)' <=> Explains(query)
        BY <3>1 DEF Now, Traced, Explains, Logged, OwnTrace
      <4> QED
        BY ZenonT(120), <3>1, <4>1 DEF TraceInv, ExplainedInv
    <3> QED
      BY <3>2, <3>3, <3>4, <3>5, <3>6, <3>7 DEF TraceInv
  <2> QED
    BY <2>1, <2>2
<1> QED
  BY <1>1, <1>2, PTL DEF Spec

\* The last timer, when it has reported.
LEMMA LastReport ==
  ASSUME TraceInv, NEW t \in DOMAIN timers, timers[t].stage = "done", Latest(t)
  PROVE  t = traces /\ Traced /\ Now = timers[t] /\ \A g : OwnTrace(g) <=> go[g].trace = t
<1>1. t \in Nat /\ t >= 1
  BY LenProperties DEF TraceInv, TypeOK
<1> QED
  BY <1>1 DEF Latest, Traced, Now, OwnTrace

\* Every measure of the trace that was appended before the report began is in it, and in
\* the part about SQL (trace.go:76, 92).
THEOREM NothingMissedHolds == Spec => []NothingMissed
<1>1. TraceInv => NothingMissed
  <2> SUFFICES ASSUME TraceInv, NEW t \in DOMAIN timers, timers[t].stage = "done", Latest(t),
                      NEW g \in timers[t].due, go[g].trace = t, go[g].list \in Measures
               PROVE  /\ g \in Reported(t, go[g].list)
                      /\ go[g].list = "sms" => \E i \in DOMAIN timers[t].again : timers[t].again[i] = g
    BY DEF NothingMissed
  <2>1. t = traces /\ Traced /\ Now = timers[t] /\ OwnTrace(g)
    BY LastReport
  <2>2. PICK l \in Measures : l = go[g].list
    OBVIOUS
  <2>3. Counted(g)
    BY <2>1 DEF TraceInv, ReportInv
  <2> QED
    BY <2>1, <2>2, <2>3 DEF Counted
<1> QED
  BY <1>1, TraceCorrect, PTL

\* Nothing from before StartTrace is in the report, of the lists nobody was appending to
\* when they were reset (trace.go:52).
THEOREM NothingOldHolds == Spec => []NothingOld
<1>1. TraceInv => NothingOld
  <2> SUFFICES ASSUME TraceInv, NEW t \in DOMAIN timers, timers[t].stage = "done", Latest(t),
                      NEW l \in Lists \ torn
               PROVE  Reported(t, l) \cap timers[t].old = {}
    BY DEF NothingOld
  <2>1. t = traces /\ Traced /\ Now = timers[t]
    BY LastReport
  <2>2. FreshList(l)
    BY <2>1 DEF TraceInv, OldInv, Clean, Traced
  <2> QED
    BY <2>1, <2>2 DEF FreshList, Reported
<1> QED
  BY <1>1, TraceCorrect, PTL

\* Every query logged is explained, and once, if none was being sampled at the reset and no
\* two were appended at once (trace.go:55, sql.go:127).
THEOREM ExplainedHolds == Spec => []Explained
<1>1. TraceInv => ExplainedOnce
  <2> SUFFICES ASSUME TraceInv, NEW t \in DOMAIN timers, timers[t].stage = "done", Latest(t), calm,
                      NEW i \in DOMAIN timers[t].read["queries"], NEW j \in DOMAIN timers[t].read["queries"], i # j
               PROVE  go[timers[t].read["queries"][i]].query # go[timers[t].read["queries"][j]].query
    BY DEF ExplainedOnce
  <2>1. t = traces /\ Traced /\ Now = timers[t]
    BY LastReport
  <2> QED
    BY <2>1 DEF TraceInv, ExplainedInv
<1>2. TraceInv => AllExplained
  <2> SUFFICES ASSUME TraceInv, NEW t \in DOMAIN timers, timers[t].stage = "done", Latest(t), calm,
                      "queries" \notin torn, NEW query \in Queries \ {""},
                      Logged(query) \subseteq timers[t].due, NEW g \in Logged(query), go[g].trace = t
               PROVE  \E h \in Reported(t, "queries") : go[h].query = query
    BY DEF AllExplained, Logged
  <2>1. t = traces /\ Traced /\ Now = timers[t] /\ OwnTrace(g)
    BY LastReport
  <2>2. Explains(query)
    BY <2>1 DEF TraceInv, ExplainedInv
  <2> QED
    BY <2>1, <2>2 DEF Explains, Reported
<1> QED
  BY <1>1, <1>2, TraceCorrect, PTL DEF Explained

----------------------------------------------------------------------------
(* The report: sums.  Sum is a recursive function; what a sum is comes     *)
(* from its partial sums, of which a least one is looked at where an       *)
(* induction would be.                                                     *)

\* A set of natural numbers has a least one.
LEMMA LeastOfNaturals ==
  ASSUME NEW S, S \subseteq Nat, S # {}
  PROVE  \E i \in S : \A j \in S : i <= j
<1>1. PICK i \in S : \A j \in S : <<j, i>> \notin OpToRel(<, Nat)
  BY NatLessThanWellFounded, WFMin
<1>2. \A j \in S : ~(j < i)
  BY <1>1 DEF OpToRel
<1> QED
  BY <1>2

\* A function over 1 .. k is a sequence of length k.
LEMMA LenOfFunction ==
  ASSUME NEW k \in Nat, NEW d \in [1 .. k -> Nat]
  PROVE  Len(d) = k
  OBVIOUS

\* The partial sums that Sum takes the last of.
Running(d, s) == s = [i \in 0 .. Len(d) |-> IF i = 0 THEN 0 ELSE s[i - 1] + d[i]]

\* There are partial sums: as far as the least number up to which there were none,
\* there would be.
LEMMA SumsExist ==
  ASSUME NEW k \in Nat, NEW d \in [1 .. k -> Nat]
  PROVE  \E s : Running(d, s)
<1> DEFINE UpTo(m, s) == s = [i \in 0 .. m |-> IF i = 0 THEN 0 ELSE s[i - 1] + d[i]]
           Some(m)    == \E s : UpTo(m, s)
           None       == {m \in 0 .. k : ~Some(m)}
<1>1. Some(0)
  <2>1. UpTo(0, [i \in 0 .. 0 |-> 0])
    OBVIOUS
  <2> QED BY <2>1
<1>2. ASSUME NEW m \in 1 .. k, Some(m - 1) PROVE Some(m)
  <2>1. PICK s : UpTo(m - 1, s)
    BY <1>2
  <2> DEFINE t == [i \in 0 .. m |-> IF i = m THEN s[m - 1] + d[m] ELSE s[i]]
  <2>2. UpTo(m, t)
    BY <2>1
  <2> QED
    BY <2>2
<1> HIDE DEF Some
<1>3. None = {}
  <2> SUFFICES ASSUME None # {} PROVE FALSE
    OBVIOUS
  <2>1. None \subseteq Nat
    OBVIOUS
  <2>2. PICK m \in None : \A j \in None : m <= j
    <3> HIDE DEF None
    <3> QED BY <2>1, LeastOfNaturals
  <2>3. m \in 0 .. k /\ ~Some(m)
    OBVIOUS
  <2>4. m # 0
    BY <1>1, <2>3
  <2>5. m - 1 \in 0 .. k /\ m - 1 \notin None
    BY <2>2, <2>3, <2>4
  <2>6. Some(m - 1)
    BY <2>5
  <2> QED
    BY <1>2, <2>3, <2>4, <2>6
<1>4. Some(k)
  BY <1>3
<1> QED
  BY <1>4, LenOfFunction DEF Running, Some

LEMMA SumIsLast ==
  ASSUME NEW k \in Nat, NEW d \in [1 .. k -> Nat]
  PROVE  \E s : s[0] = 0 /\ (\A i \in 1 .. k : s[i] = s[i - 1] + d[i]) /\ Sum(d) = s[k]
<1> DEFINE upTo == CHOOSE s : Running(d, s)
<1>1. Running(d, upTo)
  BY SumsExist
<1>2. Sum(d) = upTo[Len(d)]
  BY DEF Sum, Running
<1>3. upTo = [i \in 0 .. k |-> IF i = 0 THEN 0 ELSE upTo[i - 1] + d[i]]
  BY <1>1, LenOfFunction DEF Running
<1> HIDE DEF upTo
<1>4. \A i \in 0 .. k : upTo[i] = IF i = 0 THEN 0 ELSE upTo[i - 1] + d[i]
  BY <1>3
<1>5. upTo[0] = 0 /\ (\A i \in 1 .. k : upTo[i] = upTo[i - 1] + d[i]) /\ Sum(d) = upTo[k]
  BY <1>2, <1>4, LenOfFunction
<1> QED
  BY <1>5

\* What holds of 0, and of a number if it holds of the one before, holds up to k.
LEMMA CountedUp ==
  ASSUME NEW k \in Nat, NEW S, 0 \in S, \A m \in 1 .. k : m - 1 \in S => m \in S
  PROVE  \A m \in 0 .. k : m \in S
<1> SUFFICES ASSUME {m \in 0 .. k : m \notin S} # {} PROVE FALSE
  OBVIOUS
<1>1. PICK m \in {j \in 0 .. k : j \notin S} : \A j \in {i \in 0 .. k : i \notin S} : m <= j
  <2> DEFINE Rest == {j \in 0 .. k : j \notin S}
  <2>1. Rest \subseteq Nat /\ Rest # {}
    OBVIOUS
  <2>2. \E m \in Rest : \A j \in Rest : m <= j
    <3> HIDE DEF Rest
    <3> QED BY <2>1, LeastOfNaturals
  <2> QED BY <2>2
<1>2. m \in 1 .. k /\ m - 1 \in 0 .. k
  BY <1>1
<1>3. m - 1 \in S
  BY <1>1, <1>2
<1> QED
  BY <1>1, <1>2, <1>3

\* A sum of numbers is a number, and that of zeros is zero.
LEMMA SumType ==
  ASSUME NEW k \in Nat, NEW d \in [1 .. k -> Nat]
  PROVE  /\ Sum(d) \in Nat
         /\ (\A i \in 1 .. k : d[i] = 0) => Sum(d) = 0
<1>1. PICK s : s[0] = 0 /\ (\A i \in 1 .. k : s[i] = s[i - 1] + d[i]) /\ Sum(d) = s[k]
  BY SumIsLast
<1> DEFINE S == {m \in 0 .. k : s[m] \in Nat /\ ((\A i \in 1 .. k : d[i] = 0) => s[m] = 0)}
<1>2. 0 \in S
  BY <1>1
<1>3. \A m \in 1 .. k : m - 1 \in S => m \in S
  <2> SUFFICES ASSUME NEW m \in 1 .. k, m - 1 \in S PROVE m \in S
    OBVIOUS
  <2>1. s[m] = s[m - 1] + d[m] /\ d[m] \in Nat
    BY <1>1
  <2> QED
    BY <2>1
<1>4. \A m \in 0 .. k : m \in S
  <2> HIDE DEF S
  <2> QED BY <1>2, <1>3, CountedUp
<1> QED
  BY <1>1, <1>4

\* One term more makes the sum so much more.
LEMMA SumChange ==
  ASSUME NEW k \in Nat, NEW d \in [1 .. k -> Nat], NEW e \in [1 .. k -> Nat],
         NEW j \in 1 .. k, NEW c \in Nat, e[j] = d[j] + c, \A i \in 1 .. k : i # j => e[i] = d[i]
  PROVE  Sum(e) = Sum(d) + c
<1>1. PICK s : s[0] = 0 /\ (\A i \in 1 .. k : s[i] = s[i - 1] + d[i]) /\ Sum(d) = s[k]
  BY SumIsLast
<1>2. PICK t : t[0] = 0 /\ (\A i \in 1 .. k : t[i] = t[i - 1] + e[i]) /\ Sum(e) = t[k]
  BY SumIsLast
<1> DEFINE S == {m \in 0 .. k : s[m] \in Nat /\ t[m] = s[m] + (IF m < j THEN 0 ELSE c)}
<1>3. 0 \in S
  BY <1>1, <1>2
<1>4. \A m \in 1 .. k : m - 1 \in S => m \in S
  <2> SUFFICES ASSUME NEW m \in 1 .. k, m - 1 \in S PROVE m \in S
    OBVIOUS
  <2>1. s[m] = s[m - 1] + d[m] /\ t[m] = t[m - 1] + e[m] /\ d[m] \in Nat /\ e[m] \in Nat
    BY <1>1, <1>2
  <2>2. s[m - 1] \in Nat /\ t[m - 1] = s[m - 1] + (IF m - 1 < j THEN 0 ELSE c)
    OBVIOUS
  <2>3. CASE m = j
    BY <2>1, <2>2, <2>3
  <2>4. CASE m < j
    <3>1. e[m] = d[m] /\ t[m - 1] = s[m - 1]
      BY <2>2, <2>4
    <3> QED BY <2>1, <2>2, <2>4, <3>1
  <2>5. CASE m > j
    <3>1. e[m] = d[m] /\ t[m - 1] = s[m - 1] + c /\ ~(m < j)
      BY <2>2, <2>5
    <3>2. \A a, b \in Nat : a + b \in Nat /\ (a + c) + b = (a + b) + c
      OBVIOUS
    <3>3. s[m] \in Nat /\ t[m] = s[m] + c
      <4> HIDE DEF S
      <4> QED BY SMTT(60), <2>1, <2>2, <3>1, <3>2
    <3> QED BY <3>1, <3>3
  <2> QED
    BY <2>3, <2>4, <2>5
<1>5. \A m \in 0 .. k : m \in S
  <2> HIDE DEF S
  <2> QED BY <1>3, <1>4, CountedUp
<1> QED
  BY <1>1, <1>2, <1>5

\* The elements of a set of indices, counted as a sum.
Ones(k, is) == [i \in 1 .. k |-> IF i \in is THEN 1 ELSE 0]

LEMMA CardinalityIsSum ==
  ASSUME NEW k \in Nat, NEW is, is \subseteq 1 .. k
  PROVE  IsFiniteSet(is) /\ Cardinality(is) = Sum(Ones(k, is))
<1> DEFINE Of(m) == {i \in 1 .. m : i \in is}
           S == {m \in 0 .. k : IsFiniteSet(Of(m)) /\ Cardinality(Of(m)) = Sum(Ones(k, Of(m)))}
<1>0. 0 \in 0 .. k /\ k \in 0 .. k /\ \A i \in is : i \in Nat /\ 1 <= i /\ i <= k
  OBVIOUS
<1>1. \A js : Ones(k, js) \in [1 .. k -> Nat]
  BY DEF Ones
<1>2. 0 \in S
  <2>1. Of(0) = {}
    BY <1>0
  <2>2. Sum(Ones(k, {})) = 0
    BY <1>1, SumType DEF Ones
  <2> QED
    BY <1>0, <2>1, <2>2, FS_EmptySet
<1>3. \A m \in 1 .. k : m - 1 \in S => m \in S
  <2> SUFFICES ASSUME NEW m \in 1 .. k, m - 1 \in S PROVE m \in S
    OBVIOUS
  <2>0. IsFiniteSet(Of(m - 1)) /\ Cardinality(Of(m - 1)) = Sum(Ones(k, Of(m - 1)))
    OBVIOUS
  <2>1. CASE m \in is
    <3>1. Of(m) = Of(m - 1) \cup {m} /\ m \notin Of(m - 1)
      BY <1>0, <2>1
    <3> HIDE DEF Of
    <3>2. IsFiniteSet(Of(m)) /\ Cardinality(Of(m)) = Cardinality(Of(m - 1)) + 1
      BY <2>0, <3>1, FS_AddElement
    <3>3. /\ Ones(k, Of(m))[m] = Ones(k, Of(m - 1))[m] + 1
          /\ \A i \in 1 .. k : i # m => Ones(k, Of(m))[i] = Ones(k, Of(m - 1))[i]
      BY <2>1, <3>1, <1>0 DEF Ones
    <3>4. Sum(Ones(k, Of(m))) = Sum(Ones(k, Of(m - 1))) + 1
      <4>1. Ones(k, Of(m)) \in [1 .. k -> Nat] /\ Ones(k, Of(m - 1)) \in [1 .. k -> Nat]
        BY <1>1
      <4> DEFINE d == Ones(k, Of(m - 1))
                 e == Ones(k, Of(m))
      <4> HIDE DEF d, e
      <4>2. d \in [1 .. k -> Nat] /\ e \in [1 .. k -> Nat] /\ e[m] = d[m] + 1 /\ \A i \in 1 .. k : i # m => e[i] = d[i]
        BY <3>3, <4>1 DEF d, e
      <4>3. Sum(e) = Sum(d) + 1
        BY SMTT(60), <4>2, SumChange
      <4> QED
        BY <4>3 DEF d, e
    <3> QED
      BY <2>0, <3>2, <3>4
  <2>2. CASE m \notin is
    <3>1. Of(m) = Of(m - 1)
      BY <1>0, <2>2
    <3> QED
      BY <2>0, <3>1
  <2> QED
    BY <2>1, <2>2
<1>4. k \in S
  <2> HIDE DEF S
  <2> QED BY <1>2, <1>3, CountedUp, <1>0
<1>5. Of(k) = is
  BY <1>0
<1> QED
  BY <1>4, <1>5

\* A sum is that of the sums of its groups.
Group(k, w, to, r) == [i \in 1 .. k |-> IF to[i] = r THEN w[i] ELSE 0]
GroupSums(k, w, to, groups) == [r \in 1 .. groups |-> Sum(Group(k, w, to, r))]

LEMMA SumOfGroups ==
  ASSUME NEW k \in Nat, NEW w \in [1 .. k -> Nat], NEW groups \in Nat, NEW to \in [1 .. k -> 1 .. groups]
  PROVE  Sum(GroupSums(k, w, to, groups)) = Sum(w)
<1> DEFINE Begun(m) == [i \in 1 .. k |-> IF i <= m THEN w[i] ELSE 0]
           S == {m \in 0 .. k : Sum(GroupSums(k, Begun(m), to, groups)) = Sum(Begun(m))}
<1>0. 0 \in 0 .. k /\ k \in 0 .. k
  OBVIOUS
<1>1. \A m \in 0 .. k : Begun(m) \in [1 .. k -> Nat]
  OBVIOUS
<1>2. \A m \in 0 .. k : \A r \in 1 .. groups : Group(k, Begun(m), to, r) \in [1 .. k -> Nat]
  BY <1>1 DEF Group
<1>3. \A m \in 0 .. k : GroupSums(k, Begun(m), to, groups) \in [1 .. groups -> Nat]
  <2> HIDE DEF Begun
  <2>1. \A m \in 0 .. k : \A r \in 1 .. groups : Sum(Group(k, Begun(m), to, r)) \in Nat
    BY <1>2, SumType
  <2> QED BY <2>1 DEF GroupSums
<1>4. 0 \in S
  <2>1. \A i \in 1 .. k : Begun(0)[i] = 0
    OBVIOUS
  <2> HIDE DEF Begun
  <2>2. \A r \in 1 .. groups : \A i \in 1 .. k : Group(k, Begun(0), to, r)[i] = 0
    BY <2>1 DEF Group
  <2>3. \A r \in 1 .. groups : Sum(Group(k, Begun(0), to, r)) = 0
    BY <1>0, <1>2, <2>2, SumType
  <2>4. \A r \in 1 .. groups : GroupSums(k, Begun(0), to, groups)[r] = 0
    BY <2>3 DEF GroupSums
  <2>5. Sum(GroupSums(k, Begun(0), to, groups)) = 0
    BY <1>0, <1>3, <2>4, SumType
  <2>6. Sum(Begun(0)) = 0
    BY <1>0, <1>1, <2>1, SumType
  <2> QED
    BY <2>5, <2>6
<1>5. \A m \in 1 .. k : m - 1 \in S => m \in S
  <2> SUFFICES ASSUME NEW m \in 1 .. k, m - 1 \in S PROVE m \in S
    OBVIOUS
  <2>0. m - 1 \in 0 .. k /\ m \in 0 .. k /\ to[m] \in 1 .. groups /\ w[m] \in Nat
    OBVIOUS
  <2>1. /\ Begun(m)[m] = Begun(m - 1)[m] + w[m]
        /\ \A i \in 1 .. k : i # m => Begun(m)[i] = Begun(m - 1)[i]
    OBVIOUS
  <2>2. Sum(GroupSums(k, Begun(m - 1), to, groups)) = Sum(Begun(m - 1))
    OBVIOUS
  <2>3. Sum(Begun(m)) = Sum(Begun(m - 1)) + w[m]
    <3>1. Begun(m) \in [1 .. k -> Nat] /\ Begun(m - 1) \in [1 .. k -> Nat]
      BY <1>1, <2>0
    <3> HIDE DEF Begun
    <3> QED BY <2>0, <2>1, <3>1, SumChange
  <2> HIDE DEF Begun
  <2>4. \A r \in 1 .. groups : r # to[m] => Group(k, Begun(m), to, r) = Group(k, Begun(m - 1), to, r)
    BY <2>1 DEF Group
  <2>5. Sum(Group(k, Begun(m), to, to[m])) = Sum(Group(k, Begun(m - 1), to, to[m])) + w[m]
    <3>1. /\ Group(k, Begun(m), to, to[m]) \in [1 .. k -> Nat]
          /\ Group(k, Begun(m - 1), to, to[m]) \in [1 .. k -> Nat]
      BY <1>2, <2>0
    <3>2. /\ Group(k, Begun(m), to, to[m])[m] = Group(k, Begun(m - 1), to, to[m])[m] + w[m]
          /\ \A i \in 1 .. k : i # m => Group(k, Begun(m), to, to[m])[i] = Group(k, Begun(m - 1), to, to[m])[i]
      BY <2>1 DEF Group
    <3> QED BY <2>0, <3>1, <3>2, SumChange
  <2>6. /\ GroupSums(k, Begun(m), to, groups)[to[m]] = GroupSums(k, Begun(m - 1), to, groups)[to[m]] + w[m]
        /\ \A r \in 1 .. groups : r # to[m] =>
             GroupSums(k, Begun(m), to, groups)[r] = GroupSums(k, Begun(m - 1), to, groups)[r]
    BY <2>0, <2>4, <2>5 DEF GroupSums
  <2>7. Sum(GroupSums(k, Begun(m), to, groups)) = Sum(GroupSums(k, Begun(m - 1), to, groups)) + w[m]
    <3>1. /\ GroupSums(k, Begun(m), to, groups) \in [1 .. groups -> Nat]
          /\ GroupSums(k, Begun(m - 1), to, groups) \in [1 .. groups -> Nat]
      BY <1>3, <2>0
    <3> QED BY <2>0, <2>6, <3>1, SumChange
  <2> QED
    BY <2>2, <2>3, <2>7
<1>6. k \in S
  <2> HIDE DEF S
  <2> QED BY <1>0, <1>4, <1>5, CountedUp
<1>7. Begun(k) = w
  OBVIOUS
<1> QED
  BY <1>6, <1>7

----------------------------------------------------------------------------
(* The report: counting                                                    *)

Stat == [count : Nat, min : Nat, max : Nat, total : Nat]
Total(ms, is) == [i \in DOMAIN ms |-> IF i \in is THEN ms[i].duration ELSE 0]

LEMMA RightMeans ==
  ASSUME NEW s, NEW ms, NEW is
  PROVE  Right(s, ms, is) <=>
           /\ s.count = Cardinality(is) /\ s.total = Sum(Total(ms, is))
           /\ {s.min, s.max} \subseteq Durations(ms, is)
           /\ \A d \in Durations(ms, is) : d <= s.max /\ (0 \notin Durations(ms, is) => s.min <= d)
BY DEF Right, Total

\* A measure more of the same key, or the first one.
LEMMA AddRight ==
  ASSUME NEW ms \in Seq(Taken), NEW is, is \subseteq 1 .. Len(ms), NEW m \in 1 .. Len(ms), m \notin is,
         NEW s \in Stat, IF is = {} THEN s = Unset ELSE Right(s, ms, is)
  PROVE  Add(s, ms[m].duration) \in Stat /\ Right(Add(s, ms[m].duration), ms, is \cup {m})
<1> DEFINE k == Len(ms)
           d == ms[m].duration
           new == is \cup {m}
<1>1. k \in Nat /\ DOMAIN ms = 1 .. k /\ \A i \in 1 .. k : ms[i] \in Taken /\ ms[i].duration \in Nat
  <2>1. k \in Nat /\ DOMAIN ms = 1 .. k
    BY LenProperties
  <2>2. \A i \in 1 .. k : ms[i] \in Taken
    BY ElementOfSeq
  <2> QED
    BY <2>1, <2>2 DEF Taken
<1>2. d \in Nat /\ new \subseteq 1 .. k
  BY <1>1
<1>3. Add(s, d) \in Stat
  BY <1>2 DEF Add, Lower, Stat
<1>4. Add(s, d).count = Cardinality(new)
  <2>1. s.count = Cardinality(is)
    <3>1. CASE is = {}
      <4>1. s.count = 0 /\ Cardinality(is) = 0
        BY <3>1, FS_EmptySet DEF Unset
      <4> QED BY <4>1
    <3>2. CASE is # {}
      BY <3>2, RightMeans
    <3> QED BY <3>1, <3>2
  <2>2. IsFiniteSet(is)
    BY <1>1, CardinalityIsSum
  <2>3. Cardinality(new) = Cardinality(is) + 1
    BY <2>2, FS_AddElement
  <2> QED
    BY <2>1, <2>3 DEF Add
<1>5. Add(s, d).total = Sum(Total(ms, new))
  <2>1. Total(ms, is) \in [1 .. k -> Nat] /\ Total(ms, new) \in [1 .. k -> Nat]
    BY <1>1 DEF Total
  <2>2. s.total = Sum(Total(ms, is))
    <3>1. CASE is = {}
      <4>1. \A i \in 1 .. k : Total(ms, is)[i] = 0
        BY <1>1, <3>1 DEF Total
      <4>2. Sum(Total(ms, is)) = 0
        BY <1>1, <2>1, <4>1, SumType
      <4> QED BY <3>1, <4>2 DEF Unset
    <3>2. CASE is # {}
      BY <3>2, RightMeans
    <3> QED BY <3>1, <3>2
  <2>3. Total(ms, new)[m] = Total(ms, is)[m] + d /\ \A i \in 1 .. k : i # m => Total(ms, new)[i] = Total(ms, is)[i]
    BY <1>1, <1>2 DEF Total
  <2>4. Sum(Total(ms, new)) = Sum(Total(ms, is)) + d
    BY ZenonT(120), <1>1, <1>2, <2>1, <2>3, SumChange
  <2> QED
    BY <2>2, <2>4 DEF Add
<1>6. Durations(ms, new) = Durations(ms, is) \cup {d}
  BY DEF Durations
<1>7. \A e \in Durations(ms, is) : e \in Nat
  BY <1>1 DEF Durations
<1> HIDE DEF d, new
<1>8. CASE is = {}
  <2>1. s.min = 0 /\ s.max = 0 /\ Durations(ms, is) = {}
    BY <1>8 DEF Unset, Durations
  <2>2. Add(s, d).min = d /\ Add(s, d).max = d
    BY <1>2, <2>1 DEF Add, Lower
  <2>3. Durations(ms, new) = {d}
    BY <1>6, <2>1
  <2> QED
    <3>1. /\ {Add(s, d).min, Add(s, d).max} \subseteq Durations(ms, new)
          /\ \A e \in Durations(ms, new) : e <= Add(s, d).max /\ (0 \notin Durations(ms, new) => Add(s, d).min <= e)
      BY <1>2, <2>2, <2>3
    <3> QED
      BY <1>3, <1>4, <1>5, <3>1, RightMeans DEF d, new
<1>9. CASE is # {}
  <2>1. /\ s.min \in Durations(ms, is) /\ s.max \in Durations(ms, is)
        /\ \A e \in Durations(ms, is) : e <= s.max /\ (0 \notin Durations(ms, is) => s.min <= e)
    BY <1>9, RightMeans
  <2>2. /\ Add(s, d).min = IF d < s.min \/ s.min = 0 THEN d ELSE s.min
        /\ Add(s, d).max = IF d > s.max THEN d ELSE s.max
    BY DEF Add, Lower
  <2>3. {Add(s, d).min, Add(s, d).max} \subseteq Durations(ms, new)
    BY <1>6, <2>1, <2>2
  <2>4. \A e \in Durations(ms, new) : e <= Add(s, d).max
    BY <1>2, <1>6, <1>7, <2>1, <2>2
  <2>5. ASSUME 0 \notin Durations(ms, new), NEW e \in Durations(ms, new) PROVE Add(s, d).min <= e
    <3>1. 0 \notin Durations(ms, is) /\ s.min # 0
      BY <1>6, <2>1, <2>5
    <3>2. e = d \/ (e \in Durations(ms, is) /\ s.min <= e)
      BY <1>6, <2>1, <2>5, <3>1
    <3> QED
      BY <1>2, <1>7, <2>1, <2>2, <3>1, <3>2
  <2> QED
    BY <1>3, <1>4, <1>5, <2>3, <2>4, <2>5, RightMeans DEF d, new
<1> QED
  BY <1>8, <1>9

----------------------------------------------------------------------------
(* The report: the inductive invariant                                     *)

Until(l, m, k) == {i \in 1 .. m : Key(l, ListOf(l)[i]) = k}

\* The map of a loop after m measures.
Through(l, m) ==
  /\ DOMAIN stats[l] = {Key(l, ListOf(l)[i]) : i \in 1 .. m}
  /\ \A k \in DOMAIN stats[l] : stats[l][k] \in Stat /\ Right(stats[l][k], ListOf(l), Until(l, m, k))

\* The loops that have yet to run, and those that are through.
Later == [sql |-> {"http", "requests", "all"}, http |-> {"requests", "all"}, requests |-> {"all"},
          rows |-> {"all"}, all |-> {}, done |-> {}]
Earlier == [sql |-> {}, http |-> {"sql"}, requests |-> {"sql", "http"}, rows |-> {}, all |-> {}, done |-> {"all"}]

LoopsInv ==
  /\ measures \in Reports /\ stage \in Loops \cup {"rows", "done"} /\ stats = [l \in Loops |-> stats[l]]
  /\ \A l \in Loops : l \in Later[stage] => stats[l] = <<>>
  /\ \A l \in Loops : l \in Earlier[stage] => Through(l, Len(ListOf(l)))
  /\ stage \in Loops => pos \in 0 .. Len(ListOf(stage)) /\ Through(stage, pos)
  /\ stage = "rows" => pos = 0

\* What the rows take their numbers from.
Left(l) ==
  /\ DOMAIN stats[l] \subseteq {Key(l, ListOf(l)[i]) : i \in DOMAIN ListOf(l)}
  /\ \A k \in DOMAIN stats[l] : stats[l][k] \in Stat /\ RightFor(stats[l][k], l, k)

\* at gives every path of SQL calls that is not in the map any more the row that
\* has its calls, and no other row has any.
SQLPaths     == {ListOf("sql")[i].path : i \in DOMAIN ListOf("sql")}
QueriesOf(p) == {ListOf("sql")[i].query : i \in {j \in DOMAIN ListOf("sql") : ListOf("sql")[j].path = p}}
Placed(at) ==
  /\ at \in [SQLPaths \ PathsOf(stats["sql"]) -> DOMAIN rows]
  /\ \A p, r \in DOMAIN at : at[p] = at[r] => p = r
  /\ \A p \in DOMAIN at :
       /\ DOMAIN rows[at[p]].sql = QueriesOf(p)
       /\ \A q \in QueriesOf(p) : RightFor(rows[at[p]].sql[q], "sql", <<p, q>>)
  /\ \A r \in DOMAIN rows : (\A p \in DOMAIN at : at[p] # r) => DOMAIN rows[r].sql = {}

\* The calls of a path leave the map together.
Together == DOMAIN stats["sql"] = {Key("sql", ListOf("sql")[i]) : i \in {j \in DOMAIN ListOf("sql") : ListOf("sql")[j].path \in PathsOf(stats["sql"])}}

RowRight(row) ==
  row.path # "unknown" =>
    /\ RightFor(row.stat, "requests", row.path)
    /\ \A q \in DOMAIN row.sql : RightFor(row.sql[q], "sql", <<row.path, q>>)
    /\ \A q \in DOMAIN row.http : RightFor(row.http[q], "http", <<row.path, q>>)

RowsInv ==
  /\ \E S : rows \in Seq(S)
  /\ stage \in {"sql", "http", "requests"} => rows = <<>>
  /\ stage \notin {"sql", "http", "requests"} =>
       /\ Together /\ \E at : Placed(at)
       /\ \A i \in DOMAIN rows : RowRight(rows[i])
  /\ stage = "rows" => Left("requests") /\ Left("sql") /\ Left("http")
  /\ stage \in {"all", "done"} => PathsOf(stats["sql"]) = {}

StatsInv == LoopsInv /\ RowsInv

\* What is counted is a sequence of measures, and by which key.
LEMMA ListIs ==
  ASSUME measures \in Reports, NEW l \in Loops
  PROVE  ListOf(l) \in Seq(Taken) /\ Len(ListOf(l)) \in Nat /\ DOMAIN ListOf(l) = 1 .. Len(ListOf(l))
<1>1. \A k \in {"rms", "sms", "hms"} : measures[k] \in Seq(Taken)
  BY ReportsAssumption
<1>2. ListOf(l) \in Seq(Taken)
  BY <1>1 DEF ListOf, Loops
<1> QED
  BY <1>2, LenProperties

LEMMA KeyIs ==
  ASSUME NEW m
  PROVE  /\ Key("sql", m) = <<m.path, m.query>> /\ Key("http", m) = <<m.path, m.query>>
         /\ Key("requests", m) = m.path /\ Key("all", m) = m.query
BY DEF Key

\* A loop begins with an empty map.
LEMMA ThroughNone ==
  ASSUME NEW l \in Loops, stats[l] = <<>>
  PROVE  Through(l, 0)
BY DEF Through

\* A measure is entered under its key.
LEMMA EnterThrough ==
  ASSUME measures \in Reports, NEW l \in Loops, NEW m \in 0 .. Len(ListOf(l)) - 1, Through(l, m),
         NEW e, e = ListOf(l)[m + 1],
         measures' = measures, stats'[l] = Entered(stats[l], Key(l, e), e.duration)
  PROVE  Through(l, m + 1)'
<1> DEFINE ms == ListOf(l)
           map == stats[l]
           key == Key(l, e)
           s == IF key \in DOMAIN map THEN map[key] ELSE Unset
<1>1. ms \in Seq(Taken) /\ Len(ms) \in Nat
  BY ListIs
<1>2. ms' = ms
  BY DEF ListOf
<1>3. /\ DOMAIN map = {Key(l, ms[i]) : i \in 1 .. m}
      /\ \A k \in DOMAIN map : map[k] \in Stat /\ Right(map[k], ms, Until(l, m, k))
  BY DEF Through
<1>4. \A k : Until(l, m + 1, k) = IF k = key THEN Until(l, m, k) \cup {m + 1} ELSE Until(l, m, k)
  BY DEF Until
<1>5. /\ DOMAIN stats'[l] = DOMAIN map \cup {key}
      /\ \A k \in DOMAIN map \cup {key} : stats'[l][k] = IF k = key THEN Add(s, e.duration) ELSE map[k]
  BY DEF Entered
<1>6. Add(s, e.duration) \in Stat /\ Right(Add(s, e.duration), ms, Until(l, m, key) \cup {m + 1})
  <2>1. m + 1 \in 1 .. Len(ms) /\ Until(l, m, key) \subseteq 1 .. Len(ms) /\ m + 1 \notin Until(l, m, key)
    BY <1>1 DEF Until
  <2>2. s \in Stat /\ IF Until(l, m, key) = {} THEN s = Unset ELSE Right(s, ms, Until(l, m, key))
    <3>1. key \in DOMAIN map <=> Until(l, m, key) # {}
      BY <1>3 DEF Until
    <3>2. Unset \in Stat
      BY DEF Unset, Stat
    <3> QED
      BY <1>3, <3>1, <3>2
  <2> HIDE DEF ms, s, key
  <2> QED
    BY <1>1, <2>1, <2>2, AddRight DEF ms
<1>7. DOMAIN stats'[l] = {Key(l, ms[i]) : i \in 1 .. m + 1}
  <2>1. \A i : i \in 1 .. m + 1 <=> i \in 1 .. m \/ i = m + 1
    OBVIOUS
  <2> QED
    BY <1>3, <1>5, <2>1
<1>8. \A k : Until(l, m + 1, k)' = Until(l, m + 1, k)
  BY <1>2 DEF Until
<1> HIDE DEF ms, map, key, s
<1>9. \A k \in DOMAIN stats'[l] : stats'[l][k] \in Stat /\ Right(stats'[l][k], ms, Until(l, m + 1, k))
  BY <1>3, <1>4, <1>5, <1>6
<1> QED
  BY <1>2, <1>7, <1>8, <1>9 DEF Through, ms

LEMMA StatsInvInit == StatsInit => StatsInv
<1> SUFFICES ASSUME StatsInit PROVE StatsInv
  OBVIOUS
<1>1. /\ measures \in Reports /\ stage = "sql" /\ pos = 0 /\ rows = <<>>
      /\ stats = [l \in Loops |-> <<>>] /\ \A l \in Loops : stats[l] = <<>>
  BY DEF StatsInit
<1>2. Through("sql", 0)
  BY <1>1, ThroughNone DEF Loops
<1>3. LoopsInv
  BY <1>1, <1>2, ListIs DEF LoopsInv, Loops, Later, Earlier
<1>4. RowsInv
  <2>1. \E S : rows \in Seq(S)
    BY <1>1
  <2> QED BY <1>1, <2>1 DEF RowsInv
<1> QED
  BY <1>3, <1>4 DEF StatsInv

\* Every measure of a list has been counted when the loop is through it.
LEMMA ThroughAll ==
  ASSUME measures \in Reports, NEW l \in Loops, Through(l, Len(ListOf(l)))
  PROVE  Left(l) /\ \A k : Until(l, Len(ListOf(l)), k) = Having(l, k)
<1>1. DOMAIN ListOf(l) = 1 .. Len(ListOf(l))
  BY ListIs
<1>2. \A k : Until(l, Len(ListOf(l)), k) = Having(l, k)
  BY <1>1 DEF Until, Having
<1> QED
  BY <1>1, <1>2 DEF Through, Left, RightFor

\* What the loops keep when nothing they speak of changes.
LEMMA Unmoved ==
  ASSUME UNCHANGED measures
  PROVE  /\ \A l : ListOf(l)' = ListOf(l) /\ \A k : Having(l, k)' = Having(l, k)
         /\ \A l, k, s : RightFor(s, l, k)' <=> RightFor(s, l, k)
         /\ \A m : \A l \in Loops : stats'[l] = stats[l] => (Through(l, m)' <=> Through(l, m))
         /\ SQLPaths' = SQLPaths /\ \A p : QueriesOf(p)' = QueriesOf(p)
         /\ stats'["sql"] = stats["sql"] => (Together' <=> Together)
         /\ \A row : RowRight(row)' <=> RowRight(row)
<1>1. \A l : ListOf(l)' = ListOf(l)
  BY DEF ListOf
<1>2. \A l, k : Having(l, k)' = Having(l, k)
  BY <1>1 DEF Having
<1>3. \A l, k, s : RightFor(s, l, k)' <=> RightFor(s, l, k)
  BY <1>1, <1>2 DEF RightFor
<1>4. ASSUME NEW l \in Loops, NEW m, stats'[l] = stats[l] PROVE Through(l, m)' <=> Through(l, m)
  <2>1. \A k : Until(l, m, k)' = Until(l, m, k)
    BY <1>1 DEF Until
  <2> QED BY <1>1, <1>4, <2>1 DEF Through
<1>5. SQLPaths' = SQLPaths /\ \A p : QueriesOf(p)' = QueriesOf(p)
  BY <1>1 DEF SQLPaths, QueriesOf
<1>6. stats'["sql"] = stats["sql"] => (Together' <=> Together)
  BY <1>1 DEF Together, PathsOf
<1>7. \A row : RowRight(row)' <=> RowRight(row)
  BY <1>3 DEF RowRight
<1> QED
  BY <1>1, <1>2, <1>3, <1>4, <1>5, <1>6, <1>7

\* Before the first row all calls are in the map.
LEMMA AllTogether ==
  ASSUME measures \in Reports, Through("sql", Len(ListOf("sql"))), rows = <<>>
  PROVE  Together /\ \E at : Placed(at)
<1>1. DOMAIN ListOf("sql") = 1 .. Len(ListOf("sql"))
  BY ListIs DEF Loops
<1>2. DOMAIN stats["sql"] = {Key("sql", ListOf("sql")[i]) : i \in DOMAIN ListOf("sql")}
  BY <1>1 DEF Through
<1>3. PathsOf(stats["sql"]) = SQLPaths
  <2>1. PathsOf(stats["sql"]) = {Key("sql", ListOf("sql")[i])[1] : i \in DOMAIN ListOf("sql")}
    BY <1>2 DEF PathsOf
  <2>2. \A i \in DOMAIN ListOf("sql") : Key("sql", ListOf("sql")[i])[1] = ListOf("sql")[i].path
    BY DEF Key
  <2> QED
    BY <2>1, <2>2 DEF SQLPaths
<1>4. Together
  BY <1>2, <1>3 DEF Together, SQLPaths
<1>5. Placed([p \in {} |-> 0])
  BY <1>3 DEF Placed
<1> QED
  BY <1>4, <1>5

\* The places of the paths stay right while neither the rows nor the map of SQL calls
\* change.
LEMMA PlacedStays ==
  ASSUME UNCHANGED <<measures, rows>>, PathsOf(stats["sql"])' = PathsOf(stats["sql"]),
         NEW at, Placed(at)
  PROVE  Placed(at)'
<1>1. /\ SQLPaths' = SQLPaths /\ \A p : QueriesOf(p)' = QueriesOf(p)
      /\ \A l, k, s : RightFor(s, l, k)' <=> RightFor(s, l, k)
  BY Unmoved
<1>2. at \in [SQLPaths \ PathsOf(stats["sql"]) -> DOMAIN rows]'
  BY <1>1 DEF Placed
<1>3. \A p \in DOMAIN at :
        /\ (DOMAIN rows[at[p]].sql = QueriesOf(p))'
        /\ \A q \in QueriesOf(p) : RightFor(rows[at[p]].sql[q], "sql", <<p, q>>)'
  BY <1>1, Unmoved DEF Placed, RightFor
<1> QED
  BY <1>1, <1>2, <1>3 DEF Placed

LEMMA CountKeeps ==
  ASSUME StatsInv, NEW l \in Loops, Count(l)
  PROVE  StatsInv'
<1>0. /\ measures \in Reports /\ stage = l /\ UNCHANGED <<measures, rows>>
      /\ stats = [j \in Loops |-> stats[j]]
      /\ pos \in 0 .. Len(ListOf(l)) /\ Through(l, pos)
      /\ \A j \in Loops : j \in Later[stage] => stats[j] = <<>>
      /\ \A j \in Loops : j \in Earlier[stage] => Through(j, Len(ListOf(j)))
  BY DEF StatsInv, LoopsInv, Count
<1>1. Len(ListOf(l)) \in Nat /\ \A j : ListOf(j)' = ListOf(j)
  BY <1>0, ListIs, Unmoved
<1>2. CASE pos < Len(ListOf(l))
  <2> DEFINE e == ListOf(l)[pos + 1]
  <2>1. /\ stats' = [stats EXCEPT ![l] = Entered(stats[l], Key(l, e), e.duration)]
        /\ pos' = pos + 1 /\ stage' = stage
    BY <1>2, <1>0 DEF Count
  <2>2. /\ stats'[l] = Entered(stats[l], Key(l, e), e.duration)
        /\ \A j \in Loops : j # l => stats'[j] = stats[j]
        /\ stats' = [j \in Loops |-> stats'[j]]
    BY <1>0, <2>1
  <2> HIDE DEF e
  <2>3. PICK m \in 0 .. Len(ListOf(l)) - 1 : m = pos
    BY <1>0, <1>1, <1>2
  <2>30. Through(l, m + 1)'
    BY <1>0, <2>2, <2>3, EnterThrough DEF e
  <2>4. l \notin Later[stage] /\ l \notin Earlier[stage]
    BY <1>0 DEF Later, Earlier, Loops
  <2>5. \A j \in Loops : j \in Earlier[stage] => Through(j, Len(ListOf(j)))'
    BY <1>0, <1>1, <2>2, <2>4, Unmoved
  <2>6. LoopsInv'
    <3>1. measures' \in Reports /\ stage' \in Loops \cup {"rows", "done"} /\ stage' # "rows"
      BY <1>0, <2>1 DEF Loops
    <3>2. \A j \in Loops : j \in Later[stage'] => stats'[j] = <<>>
      BY <1>0, <2>1, <2>2, <2>4
    <3>3. (pos \in 0 .. Len(ListOf(stage)) /\ Through(stage, pos))'
      <4>1. m + 1 \in 0 .. Len(ListOf(l)) /\ pos' = m + 1 /\ stage' = l
        BY <1>0, <1>1, <2>1, <2>3
      <4> QED
        BY <1>1, <2>30, <4>1
    <3> QED
      BY <2>1, <2>2, <2>5, <3>1, <3>2, <3>3 DEF LoopsInv
  <2>7. RowsInv'
    <3>1. stage' = l /\ (l \in {"sql", "http", "requests"} \/ l = "all")
      BY <1>0, <2>1 DEF Loops
    <3>2. l = "all" => stats'["sql"] = stats["sql"]
      BY <2>2 DEF Loops
    <3>3. ASSUME l = "all" PROVE PathsOf(stats["sql"])' = PathsOf(stats["sql"])
      BY <3>2, <3>3 DEF PathsOf
    <3>4. ASSUME NEW at, Placed(at), l = "all" PROVE Placed(at)'
      BY <1>0, <3>3, <3>4, Unmoved, PlacedStays
    <3>5. /\ \E S : rows \in Seq(S)
          /\ l \in {"sql", "http", "requests"} => rows = <<>>
          /\ l = "all" => /\ Together /\ (\E at : Placed(at)) /\ PathsOf(stats["sql"]) = {}
                         /\ \A i \in DOMAIN rows : RowRight(rows[i])
      BY <1>0 DEF StatsInv, RowsInv
    <3>6. ASSUME l = "all" PROVE (Together /\ (\E at : Placed(at)) /\ \A i \in DOMAIN rows : RowRight(rows[i]))'
      <4>1. \A i \in DOMAIN rows : RowRight(rows[i])'
        BY <1>0, <3>5, <3>6, Unmoved DEF RowRight
      <4>2. Together'
        BY <1>0, <3>2, <3>5, <3>6, Unmoved
      <4>3. \E at : Placed(at)'
        BY <3>4, <3>5, <3>6
      <4> QED
        BY <1>0, <4>1, <4>2, <4>3
    <3> QED
      BY <1>0, <3>1, <3>3, <3>5, <3>6 DEF RowsInv
  <2> QED
    BY <2>6, <2>7 DEF StatsInv
<1>3. CASE ~(pos < Len(ListOf(l)))
  <2>1. pos = Len(ListOf(l)) /\ stage' = Next1(l) /\ pos' = 0 /\ UNCHANGED stats
    BY <1>0, <1>1, <1>3 DEF Count
  <2>2. Through(l, Len(ListOf(l)))'
    BY <1>0, <1>1, <2>1, Unmoved
  <2>3. \A j \in Loops : j \in Earlier[stage] => Through(j, Len(ListOf(j)))'
    BY <1>0, <1>1, <2>1, Unmoved
  <2>4. measures' = measures /\ rows' = rows /\ stats' = stats /\ stats' = [j \in Loops |-> stats'[j]]
    BY <1>0, <2>1
  <2>5. CASE l \in {"sql", "http"}
    <3>1. PICK j \in Loops : j = stage' /\ j \in Later[stage] /\ j = (IF l = "sql" THEN "http" ELSE "requests")
      BY <1>0, <2>1, <2>5 DEF Next1, Later, Loops
    <3>2. (stats[j] = <<>>)'
      BY <1>0, <2>4, <3>1
    <3>3. Through(j, 0)'
      BY <3>2 DEF Through
    <3>4. (pos \in 0 .. Len(ListOf(stage)) /\ Through(stage, pos))'
      <4>1. pos' = 0 /\ stage' = j /\ Len(ListOf(j))' \in Nat
        BY <1>0, <2>1, <2>4, <3>1, ListIs, Unmoved
      <4> QED
        BY <3>3, <4>1
    <3>5. \A i \in Loops : (i \in Later[stage'] => i \in Later[stage]) /\ (i \in Earlier[stage'] => i \in Earlier[stage] \/ i = l)
      BY <1>0, <2>5, <3>1 DEF Later, Earlier, Loops
    <3>6. LoopsInv'
      BY <1>0, <2>2, <2>3, <2>4, <3>1, <3>4, <3>5 DEF LoopsInv
    <3>7. RowsInv'
      BY <1>0, <2>4, <2>5, <3>1 DEF StatsInv, RowsInv
    <3> QED
      BY <3>6, <3>7 DEF StatsInv
  <2>6. CASE l = "requests"
    <3>1. stage' = "rows"
      BY <2>1, <2>6 DEF Next1
    <3>2. \A i \in Loops : (i \in Later[stage'] => i \in Later[stage]) /\ i \notin Earlier[stage']
      BY <1>0, <2>6, <3>1 DEF Later, Earlier, Loops
    <3>3. LoopsInv'
      <4>1. stage' \notin Loops /\ stage' \in Loops \cup {"rows", "done"}
        BY <3>1 DEF Loops
      <4> QED
        BY <1>0, <2>1, <2>4, <3>2, <4>1 DEF LoopsInv
    <3>4. Through("sql", Len(ListOf("sql"))) /\ Through("http", Len(ListOf("http"))) /\ Through("requests", Len(ListOf("requests")))
      BY <1>0, <2>1, <2>6 DEF Earlier, Loops
    <3>5. Left("sql") /\ Left("http") /\ Left("requests")
      BY <1>0, <3>4, ThroughAll DEF Loops
    <3>6. Together /\ \E at : Placed(at)
      BY <1>0, <2>6, <3>4, AllTogether DEF StatsInv, RowsInv
    <3>7. RowsInv'
      <4>1. rows = <<>> /\ \E S : rows \in Seq(S)
        BY <1>0, <2>6 DEF StatsInv, RowsInv
      <4>2. (Left("sql") /\ Left("http") /\ Left("requests"))'
        BY <2>4, <3>5, Unmoved DEF Left
      <4>3. Together'
        BY <2>4, <3>6, Unmoved
      <4>4. PathsOf(stats["sql"])' = PathsOf(stats["sql"])
        BY <2>4 DEF PathsOf
      <4>5. \E at : Placed(at)'
        BY <2>4, <3>6, <4>4, PlacedStays
      <4> QED
        BY <2>4, <3>1, <4>1, <4>2, <4>3, <4>5 DEF RowsInv
    <3> QED
      BY <3>3, <3>7 DEF StatsInv
  <2>7. CASE l = "all"
    <3>1. stage' = "done"
      BY <2>1, <2>7 DEF Next1
    <3>2. \A i \in Loops : i \notin Later[stage'] /\ (i \in Earlier[stage'] => i = l)
      BY <2>7, <3>1 DEF Later, Earlier, Loops
    <3>3. LoopsInv'
      <4>1. stage' \notin Loops /\ stage' \in Loops \cup {"rows", "done"}
        BY <3>1 DEF Loops
      <4> QED
        BY <1>0, <2>2, <2>4, <3>1, <3>2, <4>1 DEF LoopsInv
    <3>4. /\ Together /\ (\E at : Placed(at)) /\ PathsOf(stats["sql"]) = {} /\ \E S : rows \in Seq(S)
          /\ \A i \in DOMAIN rows : RowRight(rows[i])
      BY <1>0, <2>7 DEF StatsInv, RowsInv
    <3>5. (PathsOf(stats["sql"]) = {})'
      BY <2>4, <3>4 DEF PathsOf
    <3>6. \E at : Placed(at)'
      BY <2>4, <3>4, <3>5, PlacedStays
    <3>7. Together' /\ \A i \in DOMAIN rows : RowRight(rows[i])'
      BY <2>4, <3>4, Unmoved DEF RowRight
    <3>8. RowsInv'
      BY <2>4, <3>1, <3>4, <3>5, <3>6, <3>7 DEF RowsInv
    <3> QED
      BY <3>3, <3>8 DEF StatsInv
  <2> QED
    BY <2>5, <2>6, <2>7 DEF Loops
<1> QED
  BY <1>2, <1>3

\* The calls of a path leave the map for a row, if there are any.
LEMMA PlaceRow ==
  ASSUME measures \in Reports, Together, Left("sql"), NEW at, Placed(at), NEW S, rows \in Seq(S),
         NEW p, NEW row, rows' = Append(rows, row), measures' = measures,
         DOMAIN row.sql = {k[2] : k \in {j \in DOMAIN stats["sql"] : j[1] = p}},
         \A q \in DOMAIN row.sql : row.sql[q] = stats["sql"][<<p, q>>],
         DOMAIN stats'["sql"] = {j \in DOMAIN stats["sql"] : j[1] # p}
  PROVE  Together' /\ (\E new : Placed(new)') /\ \A q \in DOMAIN row.sql : RightFor(row.sql[q], "sql", <<p, q>>)
<1> DEFINE ms == ListOf("sql")
           in == PathsOf(stats["sql"])
<1>1. ms' = ms /\ SQLPaths' = SQLPaths /\ \A r : QueriesOf(r)' = QueriesOf(r)
  BY Unmoved
<1>2. DOMAIN stats["sql"] = {<<ms[i].path, ms[i].query>> : i \in {j \in DOMAIN ms : ms[j].path \in in}}
  BY DEF Together, Key
<1>3. PathsOf(stats["sql"])' = in \ {p}
  BY DEF PathsOf
<1> HIDE DEF ms, in
<1>4. DOMAIN stats'["sql"] = {<<ms[i].path, ms[i].query>> : i \in {j \in DOMAIN ms : ms[j].path \in in \ {p}}}
  BY <1>2
<1>5. Together'
  BY <1>1, <1>3, <1>4 DEF Together, Key, ms
<1>6. DOMAIN row.sql = IF p \in in THEN QueriesOf(p) ELSE {}
  <2>1. \A q : q \in DOMAIN row.sql <=> \E i \in DOMAIN ms : ms[i].path \in in /\ ms[i].path = p /\ ms[i].query = q
    <3>1. ASSUME NEW k \in DOMAIN stats["sql"]
          PROVE  \E i \in DOMAIN ms : ms[i].path \in in /\ k[1] = ms[i].path /\ k[2] = ms[i].query
      <4>1. PICK i \in DOMAIN ms : ms[i].path \in in /\ k = <<ms[i].path, ms[i].query>>
        BY <1>2
      <4> QED BY <4>1
    <3>2. ASSUME NEW i \in DOMAIN ms, ms[i].path \in in
          PROVE  \E k \in DOMAIN stats["sql"] : k[1] = ms[i].path /\ k[2] = ms[i].query
      <4>1. PICK k \in DOMAIN stats["sql"] : k = <<ms[i].path, ms[i].query>>
        BY <1>2, <3>2
      <4> QED BY <4>1
    <3>3. \A q : q \in DOMAIN row.sql <=> \E k \in DOMAIN stats["sql"] : k[1] = p /\ k[2] = q
      OBVIOUS
    <3> QED
      BY <3>1, <3>2, <3>3
  <2>2. \A q : q \in QueriesOf(p) <=> \E i \in DOMAIN ms : ms[i].path = p /\ ms[i].query = q
    BY DEF QueriesOf, ms
  <2> QED
    BY <2>1, <2>2
<1>7. \A q \in DOMAIN row.sql : RightFor(row.sql[q], "sql", <<p, q>>)
  <2> SUFFICES ASSUME NEW q \in DOMAIN row.sql PROVE RightFor(row.sql[q], "sql", <<p, q>>)
    OBVIOUS
  <2>1. <<p, q>> \in DOMAIN stats["sql"]
    BY <1>2
  <2> QED
    BY <2>1 DEF Left
<1>8. /\ DOMAIN rows = 1 .. Len(rows) /\ DOMAIN rows' = 1 .. Len(rows) + 1 /\ Len(rows) \in Nat
      /\ rows'[Len(rows) + 1] = row /\ \A i \in DOMAIN rows : rows'[i] = rows[i]
  BY AppendProperties, LenProperties
<1>9. \A r : r \in in => r \in SQLPaths
  BY <1>2 DEF in, PathsOf, SQLPaths, ms
<1>10. PICK new : new = [r \in SQLPaths \ (in \ {p}) |-> IF r = p /\ p \in in THEN Len(rows) + 1 ELSE at[r]]
  OBVIOUS
<1>11. Placed(new)'
  <2>1. /\ at \in [SQLPaths \ in -> DOMAIN rows]
        /\ \A r, o \in DOMAIN at : at[r] = at[o] => r = o
        /\ \A r \in DOMAIN at :
             /\ DOMAIN rows[at[r]].sql = QueriesOf(r)
             /\ \A q \in QueriesOf(r) : RightFor(rows[at[r]].sql[q], "sql", <<r, q>>)
        /\ \A i \in DOMAIN rows : (\A r \in DOMAIN at : at[r] # i) => DOMAIN rows[i].sql = {}
    BY DEF Placed, in
  <2>2. \A r \in SQLPaths \ (in \ {p}) : (r = p /\ p \in in) \/ (r \in DOMAIN at /\ ~(r = p /\ p \in in))
    BY <2>1
  <2>3. new \in [SQLPaths \ (in \ {p}) -> 1 .. Len(rows) + 1]
    BY <1>8, <1>10, <2>1, <2>2
  <2>4. \A r \in DOMAIN at : r \in DOMAIN new /\ new[r] = at[r] /\ at[r] \in 1 .. Len(rows)
    BY <1>8, <1>10, <2>1
  <2>5. p \in in => p \in DOMAIN new /\ new[p] = Len(rows) + 1
    BY <1>9, <1>10
  <2>6. DOMAIN new = DOMAIN at \cup (IF p \in in THEN {p} ELSE {})
    BY <1>9, <1>10, <2>1
  <2>7. \A r, o \in DOMAIN new : new[r] = new[o] => r = o
    BY <1>8, <2>1, <2>4, <2>5, <2>6
  <2>8. \A r \in DOMAIN new :
          /\ DOMAIN rows'[new[r]].sql = QueriesOf(r)
          /\ \A q \in QueriesOf(r) : RightFor(rows'[new[r]].sql[q], "sql", <<r, q>>)
    <3> SUFFICES ASSUME NEW r \in DOMAIN new
                 PROVE  /\ DOMAIN rows'[new[r]].sql = QueriesOf(r)
                        /\ \A q \in QueriesOf(r) : RightFor(rows'[new[r]].sql[q], "sql", <<r, q>>)
      OBVIOUS
    <3>1. CASE r \in DOMAIN at
      <4>1. rows'[new[r]] = rows[at[r]]
        BY <1>8, <2>4, <3>1
      <4> QED BY <2>1, <3>1, <4>1
    <3>2. CASE r = p /\ p \in in
      <4>1. rows'[new[r]] = row
        BY <1>8, <2>5, <3>2
      <4> QED BY <1>6, <1>7, <3>2, <4>1
    <3> QED
      BY <2>6, <3>1, <3>2
  <2>9. \A i \in DOMAIN rows' : (\A r \in DOMAIN new : new[r] # i) => DOMAIN rows'[i].sql = {}
    <3> SUFFICES ASSUME NEW i \in DOMAIN rows', \A r \in DOMAIN new : new[r] # i PROVE DOMAIN rows'[i].sql = {}
      OBVIOUS
    <3>1. CASE i \in DOMAIN rows
      <4>1. \A r \in DOMAIN at : at[r] # i
        BY <2>4
      <4> QED BY <1>8, <2>1, <3>1, <4>1
    <3>2. CASE i = Len(rows) + 1
      <4>1. p \notin in
        BY <2>5, <3>2
      <4> QED BY <1>6, <1>8, <3>2, <4>1
    <3> QED
      BY <1>8, <3>1, <3>2
  <2>10. (new \in [SQLPaths \ PathsOf(stats["sql"]) -> DOMAIN rows])'
    BY <1>1, <1>3, <1>8, <2>3
  <2>11. \A r \in DOMAIN new :
          /\ (DOMAIN rows[new[r]].sql = QueriesOf(r))'
          /\ \A q \in QueriesOf(r) : RightFor(rows[new[r]].sql[q], "sql", <<r, q>>)'
    BY <1>1, <2>8, Unmoved DEF RightFor
  <2> QED
    BY <1>1, <2>7, <2>9, <2>10, <2>11 DEF Placed
<1> QED
  BY <1>5, <1>7, <1>11

\* A row made of what leaves the maps.
LEMMA RowKeeps ==
  ASSUME StatsInv, stage = "rows", UNCHANGED <<measures, stage, pos>>, NEW p, NEW row, rows' = Append(rows, row),
         DOMAIN row.sql = {k[2] : k \in {j \in DOMAIN stats["sql"] : j[1] = p}},
         \A q \in DOMAIN row.sql : row.sql[q] = stats["sql"][<<p, q>>],
         (\A q \in DOMAIN row.sql : RightFor(row.sql[q], "sql", <<p, q>>)) => RowRight(row),
         stats' = [l \in Loops |-> stats'[l]], stats'["all"] = stats["all"],
         \A l \in {"sql", "http", "requests"} : /\ DOMAIN stats'[l] \subseteq DOMAIN stats[l]
                                                /\ \A k \in DOMAIN stats'[l] : stats'[l][k] = stats[l][k],
         DOMAIN stats'["sql"] = {j \in DOMAIN stats["sql"] : j[1] # p}
  PROVE  StatsInv'
<1>1. /\ measures \in Reports /\ Together /\ (\E at : Placed(at)) /\ (\E S : rows \in Seq(S))
      /\ \A l \in {"sql", "http", "requests"} : Left(l)
      /\ \A i \in DOMAIN rows : RowRight(rows[i])
      /\ stats["all"] = <<>>
  BY DEF StatsInv, LoopsInv, RowsInv, Later, Loops
<1>2. PICK at, S : Placed(at) /\ rows \in Seq(S)
  BY <1>1
<1>3. Together' /\ (\E new : Placed(new)') /\ RowRight(row)
  BY <1>1, <1>2, PlaceRow
<1>4. LoopsInv'
  <2>1. pos' = 0 /\ measures' \in Reports /\ stage' = "rows"
    BY <1>1 DEF StatsInv, LoopsInv
  <2>2. \A l \in Loops : (l \in Later["rows"] => l = "all") /\ l \notin Earlier["rows"] /\ l # "rows"
    BY DEF Later, Earlier, Loops
  <2> QED
    BY <1>1, <2>1, <2>2 DEF LoopsInv, Loops
<1>5. (\E T : rows \in Seq(T))'
  <2>1. rows \in Seq(S \cup {row})
    BY <1>2
  <2>2. rows' \in Seq(S \cup {row})
    BY <2>1, AppendProperties
  <2> QED BY <2>2
<1>6. \A i \in DOMAIN rows' : RowRight(rows[i])'
  <2>1. /\ DOMAIN rows = 1 .. Len(rows) /\ DOMAIN rows' = 1 .. Len(rows) + 1 /\ Len(rows) \in Nat
        /\ rows'[Len(rows) + 1] = row /\ \A i \in DOMAIN rows : rows'[i] = rows[i]
    BY <1>2, AppendProperties, LenProperties
  <2>2. \A i \in DOMAIN rows' : rows'[i] = row \/ (i \in DOMAIN rows /\ rows'[i] = rows[i])
    BY <2>1
  <2>3. \A i \in DOMAIN rows' : RowRight(rows'[i])
    BY <1>1, <1>3, <2>2
  <2> QED
    BY <2>3, Unmoved DEF RowRight
<1>7. \A l \in {"sql", "http", "requests"} : Left(l)'
  BY <1>1, Unmoved DEF Left
<1>8. RowsInv'
  BY <1>3, <1>5, <1>6, <1>7 DEF RowsInv
<1> QED
  BY <1>4, <1>8 DEF StatsInv

\* The keys of the calls left are pairs.
LEMMA PairsLeft ==
  ASSUME NEW l \in {"sql", "http"}, Left(l), NEW p
  PROVE  /\ DOMAIN Part(stats[l], p) = {k[2] : k \in {j \in DOMAIN stats[l] : j[1] = p}}
         /\ \A q \in DOMAIN Part(stats[l], p) :
              <<p, q>> \in DOMAIN stats[l] /\ Part(stats[l], p)[q] = stats[l][<<p, q>>]
<1>1. DOMAIN Part(stats[l], p) = {k[2] : k \in {j \in DOMAIN stats[l] : j[1] = p}}
  BY DEF Part
<1>2. ASSUME NEW q \in DOMAIN Part(stats[l], p)
      PROVE  <<p, q>> \in DOMAIN stats[l] /\ Part(stats[l], p)[q] = stats[l][<<p, q>>]
  <2>1. PICK k \in DOMAIN stats[l] : k[1] = p /\ k[2] = q
    BY <1>1
  <2>2. PICK i \in DOMAIN ListOf(l) : k = <<ListOf(l)[i].path, ListOf(l)[i].query>>
    BY DEF Left, Key
  <2>3. k = <<p, q>>
    BY <2>1, <2>2
  <2> QED
    BY <2>1, <2>3 DEF Part
<1> QED
  BY <1>1, <1>2

LEMMA RequestRowKeeps ==
  ASSUME StatsInv, NEW p, RequestRow(p)
  PROVE  StatsInv'
<1> DEFINE row == Row(p, stats["requests"][p], Part(stats["sql"], p), Part(stats["http"], p))
<1>1. /\ stage = "rows" /\ p \in DOMAIN stats["requests"] /\ stats = [l \in Loops |-> stats[l]]
      /\ Left("requests") /\ Left("sql") /\ Left("http") /\ UNCHANGED <<measures, stage, pos>>
      /\ rows' = Append(rows, row)
  BY DEF StatsInv, LoopsInv, RowsInv, RequestRow
<1>2. /\ stats'["requests"] = [j \in DOMAIN stats["requests"] \ {p} |-> stats["requests"][j]]
      /\ stats'["sql"] = Deleted(stats["sql"], p) /\ stats'["http"] = Deleted(stats["http"], p)
      /\ stats'["all"] = stats["all"] /\ stats' = [l \in Loops |-> stats'[l]]
  BY <1>1 DEF RequestRow, Loops
<1>3. row.path = p /\ row.stat = stats["requests"][p] /\ row.sql = Part(stats["sql"], p) /\ row.http = Part(stats["http"], p)
  BY DEF Row
<1> HIDE DEF row
<1>8. /\ DOMAIN Part(stats["sql"], p) = {k[2] : k \in {j \in DOMAIN stats["sql"] : j[1] = p}}
      /\ \A q \in DOMAIN Part(stats["sql"], p) :
           <<p, q>> \in DOMAIN stats["sql"] /\ Part(stats["sql"], p)[q] = stats["sql"][<<p, q>>]
  BY <1>1, PairsLeft
<1>9. /\ DOMAIN Part(stats["http"], p) = {k[2] : k \in {j \in DOMAIN stats["http"] : j[1] = p}}
      /\ \A q \in DOMAIN Part(stats["http"], p) :
           <<p, q>> \in DOMAIN stats["http"] /\ Part(stats["http"], p)[q] = stats["http"][<<p, q>>]
  BY <1>1, PairsLeft
<1>4. ASSUME \A q \in DOMAIN row.sql : RightFor(row.sql[q], "sql", <<p, q>>) PROVE RowRight(row)
  <2>1. RightFor(row.stat, "requests", p)
    BY <1>1, <1>3 DEF Left
  <2>2. \A q \in DOMAIN row.http : RightFor(row.http[q], "http", <<p, q>>)
    BY <1>1, <1>3, <1>9 DEF Left
  <2> QED
    BY <1>3, <1>4, <2>1, <2>2 DEF RowRight
<1>5. /\ DOMAIN row.sql = {k[2] : k \in {j \in DOMAIN stats["sql"] : j[1] = p}}
      /\ \A q \in DOMAIN row.sql : row.sql[q] = stats["sql"][<<p, q>>]
  BY <1>3, <1>8
<1>6. \A l \in {"sql", "http", "requests"} : /\ DOMAIN stats'[l] \subseteq DOMAIN stats[l]
                                             /\ \A k \in DOMAIN stats'[l] : stats'[l][k] = stats[l][k]
  BY <1>2 DEF Deleted, Past
<1>7. DOMAIN stats'["sql"] = {j \in DOMAIN stats["sql"] : j[1] # p}
  BY <1>2 DEF Deleted, Past
<1> QED
  BY <1>1, <1>2, <1>4, <1>5, <1>6, <1>7, RowKeeps

LEMMA SQLRowKeeps ==
  ASSUME StatsInv, NEW p, SQLRow(p)
  PROVE  StatsInv'
<1> DEFINE row == Row("unknown", Unset, Part(stats["sql"], p), <<>>)
<1>1. /\ stage = "rows" /\ stats = [l \in Loops |-> stats[l]]
      /\ Left("sql") /\ UNCHANGED <<measures, stage, pos>> /\ rows' = Append(rows, row)
  BY DEF StatsInv, LoopsInv, RowsInv, SQLRow
<1>2. /\ stats'["sql"] = Past(stats["sql"], p) /\ stats'["http"] = stats["http"]
      /\ stats'["requests"] = stats["requests"] /\ stats'["all"] = stats["all"] /\ stats' = [l \in Loops |-> stats'[l]]
  BY <1>1 DEF SQLRow, Loops
<1>3. row.path = "unknown" /\ row.sql = Part(stats["sql"], p)
  BY DEF Row
<1> HIDE DEF row
<1>8. /\ DOMAIN Part(stats["sql"], p) = {k[2] : k \in {j \in DOMAIN stats["sql"] : j[1] = p}}
      /\ \A q \in DOMAIN Part(stats["sql"], p) :
           <<p, q>> \in DOMAIN stats["sql"] /\ Part(stats["sql"], p)[q] = stats["sql"][<<p, q>>]
  BY <1>1, PairsLeft
<1>4. RowRight(row)
  BY <1>3 DEF RowRight
<1>5. /\ DOMAIN row.sql = {k[2] : k \in {j \in DOMAIN stats["sql"] : j[1] = p}}
      /\ \A q \in DOMAIN row.sql : row.sql[q] = stats["sql"][<<p, q>>]
  BY <1>3, <1>8
<1>6. \A l \in {"sql", "http", "requests"} : /\ DOMAIN stats'[l] \subseteq DOMAIN stats[l]
                                             /\ \A k \in DOMAIN stats'[l] : stats'[l][k] = stats[l][k]
  BY <1>2 DEF Past
<1>7. DOMAIN stats'["sql"] = {j \in DOMAIN stats["sql"] : j[1] # p}
  BY <1>2 DEF Past
<1> QED
  BY <1>1, <1>2, <1>4, <1>5, <1>6, <1>7, RowKeeps

LEMMA HTTPRowKeeps ==
  ASSUME StatsInv, NEW p, HTTPRow(p)
  PROVE  StatsInv'
<1> DEFINE row == Row("unknown", Unset, <<>>, Part(stats["http"], p))
<1>1. /\ stage = "rows" /\ stats = [l \in Loops |-> stats[l]] /\ DOMAIN stats["sql"] = {}
      /\ UNCHANGED <<measures, stage, pos>> /\ rows' = Append(rows, row)
  BY DEF StatsInv, LoopsInv, RowsInv, HTTPRow, Gone
<1>2. /\ stats'["http"] = Past(stats["http"], p) /\ stats'["sql"] = stats["sql"]
      /\ stats'["requests"] = stats["requests"] /\ stats'["all"] = stats["all"] /\ stats' = [l \in Loops |-> stats'[l]]
  BY <1>1 DEF HTTPRow, Loops
<1>3. row.path = "unknown" /\ DOMAIN row.sql = {}
  BY DEF Row
<1> HIDE DEF row
<1>4. RowRight(row)
  BY <1>3 DEF RowRight
<1>5. /\ DOMAIN row.sql = {k[2] : k \in {j \in DOMAIN stats["sql"] : j[1] = p}}
      /\ \A q \in DOMAIN row.sql : row.sql[q] = stats["sql"][<<p, q>>]
  BY <1>1, <1>3
<1>6. \A l \in {"sql", "http", "requests"} : /\ DOMAIN stats'[l] \subseteq DOMAIN stats[l]
                                             /\ \A k \in DOMAIN stats'[l] : stats'[l][k] = stats[l][k]
  BY <1>2 DEF Past
<1>7. DOMAIN stats'["sql"] = {j \in DOMAIN stats["sql"] : j[1] # p}
  BY <1>1, <1>2
<1> QED
  BY <1>1, <1>2, <1>4, <1>5, <1>6, <1>7, RowKeeps

LEMMA RowsMadeKeeps ==
  ASSUME StatsInv, RowsMade
  PROVE  StatsInv'
<1>1. /\ measures \in Reports /\ stage = "rows" /\ stage' = "all" /\ UNCHANGED <<measures, pos, stats, rows>>
      /\ stats["all"] = <<>> /\ DOMAIN stats["sql"] = {} /\ stats = [l \in Loops |-> stats[l]]
      /\ Together /\ (\E at : Placed(at)) /\ (\E S : rows \in Seq(S)) /\ \A i \in DOMAIN rows : RowRight(rows[i])
  BY DEF StatsInv, LoopsInv, RowsInv, RowsMade, Gone, Later, Loops
<1>2. PathsOf(stats["sql"]) = {} /\ PathsOf(stats["sql"])' = {}
  BY <1>1 DEF PathsOf
<1>3. Through("all", 0)'
  BY <1>1 DEF Through
<1>4. LoopsInv'
  <2>1. pos' = 0 /\ Len(ListOf("all"))' \in Nat
    BY <1>1, ListIs, Unmoved DEF StatsInv, LoopsInv, Loops
  <2>2. (pos \in 0 .. Len(ListOf(stage)) /\ Through(stage, pos))'
    BY <1>1, <1>3, <2>1
  <2> QED
    BY <1>1, <2>2 DEF LoopsInv, Later, Earlier, Loops
<1>5. RowsInv'
  <2>1. Together' /\ \A i \in DOMAIN rows : RowRight(rows[i])'
    BY <1>1, Unmoved DEF RowRight
  <2>2. \E at : Placed(at)'
    BY <1>1, <1>2, PlacedStays
  <2> QED
    BY <1>1, <1>2, <2>1, <2>2 DEF RowsInv
<1> QED
  BY <1>4, <1>5 DEF StatsInv

\* The inductive invariant holds in every state: what the loops have counted is
\* right, and every call is in the maps or in one row.
THEOREM StatsInductive == StatsSpec => []StatsInv
<1>1. StatsInit => StatsInv
  BY StatsInvInit
<1>2. StatsInv /\ [StatsNext]_statsVars => StatsInv'
  <2> SUFFICES ASSUME StatsInv, [StatsNext]_statsVars PROVE StatsInv'
    OBVIOUS
  <2>1. ASSUME NEW l \in Loops, Count(l) PROVE StatsInv'
    BY <2>1, CountKeeps
  <2>2. ASSUME NEW p \in Paths, RequestRow(p) \/ SQLRow(p) \/ HTTPRow(p) PROVE StatsInv'
    BY <2>2, RequestRowKeeps, SQLRowKeeps, HTTPRowKeeps
  <2>3. CASE RowsMade
    BY <2>3, RowsMadeKeeps
  <2>4. CASE UNCHANGED statsVars
    <3>1. UNCHANGED <<measures, stage, pos, stats, rows>>
      BY <2>4 DEF statsVars
    <3>2. PathsOf(stats["sql"])' = PathsOf(stats["sql"])
      BY <3>1 DEF PathsOf
    <3>3. LoopsInv'
      <4>1. \A m : \A l \in Loops : Through(l, m)' <=> Through(l, m)
        BY <3>1, Unmoved
      <4>2. \A l : ListOf(l)' = ListOf(l)
        BY <3>1, Unmoved
      <4> QED
        BY <3>1, <4>1, <4>2 DEF StatsInv, LoopsInv
    <3>4. RowsInv'
      <4>1. (\A i \in DOMAIN rows : RowRight(rows[i])) => (\A i \in DOMAIN rows : RowRight(rows[i]))'
        BY <3>1, Unmoved DEF RowRight
      <4>2. \A l \in {"sql", "http", "requests"} : Left(l) => Left(l)'
        BY <3>1, Unmoved DEF Left
      <4>3. (\E at : Placed(at)) => \E at : Placed(at)'
        BY <3>1, <3>2, PlacedStays
      <4>4. Together' <=> Together
        BY <3>1, Unmoved
      <4> QED
        BY <3>1, <3>2, <4>1, <4>2, <4>3, <4>4 DEF StatsInv, RowsInv
    <3> QED
      BY <3>3, <3>4 DEF StatsInv
  <2> QED
    BY <2>1, <2>2, <2>3, <2>4 DEF StatsNext
<1> QED
  BY <1>1, <1>2, PTL DEF StatsSpec

\* Every number of the report is that of the measures it stands for (trace.go:306-390).
THEOREM StatsRightHolds == StatsSpec => []StatsRight
<1>1. StatsInv => StatsRight
  <2> SUFFICES ASSUME StatsInv PROVE StatsRight
    OBVIOUS
  <2>1. \A i \in DOMAIN rows : RowRight(rows[i])
    BY DEF StatsInv, RowsInv
  <2>2. ASSUME stage = "done" PROVE \A q \in DOMAIN stats["all"] : RightFor(stats["all"][q], "all", q)
    <3>1. measures \in Reports /\ Through("all", Len(ListOf("all")))
      BY <2>2 DEF StatsInv, LoopsInv, Earlier, Loops
    <3>2. Left("all")
      BY <3>1, ThroughAll DEF Loops
    <3> QED
      BY <3>2 DEF Left
  <2> QED
    BY <2>1, <2>2 DEF StatsRight, RowRight
<1> QED
  BY <1>1, StatsInductive, PTL

\* The rows add up to the part about SQL when the report is done.
LEMMA DoneAddsUp ==
  ASSUME StatsInv, stage = "done", NEW q \in DOMAIN stats["all"]
  PROVE  /\ Sum([i \in DOMAIN rows |-> CountIn(rows[i], q)]) = stats["all"][q].count
         /\ Sum([i \in DOMAIN rows |-> TotalIn(rows[i], q)]) = stats["all"][q].total
<1> DEFINE ms == ListOf("sql")
           n == Len(ms)
           g == Len(rows)
           having == Having("all", q)
           of(p) == Having("sql", <<p, q>>)
           ones == Ones(n, having)
           times == Total(ms, having)
<1>1. measures \in Reports /\ Through("all", Len(ListOf("all")))
  BY DEF StatsInv, LoopsInv, Earlier, Loops
<1>2. ListOf("all") = ms
  BY DEF ListOf
<1>3. ms \in Seq(Taken) /\ n \in Nat /\ DOMAIN ms = 1 .. n
  BY <1>1, ListIs DEF Loops
<1>4. \A i \in 1 .. n : ms[i] \in Taken /\ ms[i].duration \in Nat
  <2>1. \A i \in 1 .. n : ms[i] \in Taken
    BY <1>3, ElementOfSeq
  <2> QED BY <2>1 DEF Taken
<1>5. RightFor(stats["all"][q], "all", q)
  BY <1>1, ThroughAll DEF Left, Loops
<1>6. stats["all"][q].count = Cardinality(having) /\ stats["all"][q].total = Sum(times)
  BY <1>2, <1>5, RightMeans DEF RightFor
<1>7. having = {i \in 1 .. n : ms[i].query = q}
  BY <1>2, <1>3 DEF Having, Key
<1>8. \A p : of(p) = {i \in 1 .. n : ms[i].path = p /\ ms[i].query = q}
  BY <1>3 DEF Having, Key
<1>9. PICK at : Placed(at)
  BY DEF StatsInv, RowsInv
<1>10. g \in Nat /\ DOMAIN rows = 1 .. g
  BY LenProperties DEF StatsInv, RowsInv
<1>11. /\ at \in [SQLPaths -> 1 .. g]
       /\ \A p, r \in SQLPaths : at[p] = at[r] => p = r
       /\ \A p \in SQLPaths :
            /\ DOMAIN rows[at[p]].sql = QueriesOf(p)
            /\ \A o \in QueriesOf(p) : RightFor(rows[at[p]].sql[o], "sql", <<p, o>>)
       /\ \A r \in 1 .. g : (\A p \in SQLPaths : at[p] # r) => DOMAIN rows[r].sql = {}
  <2>1. PathsOf(stats["sql"]) = {}
    BY DEF StatsInv, RowsInv
  <2> QED
    BY <1>9, <1>10, <2>1 DEF Placed
<1>12. \A i \in 1 .. n : ms[i].path \in SQLPaths
  BY <1>3 DEF SQLPaths
<1> DEFINE to == [i \in 1 .. n |-> at[ms[i].path]]
<1> HIDE DEF ms, n, g, having, of
<1>13. to \in [1 .. n -> 1 .. g] /\ ones \in [1 .. n -> Nat] /\ times \in [1 .. n -> Nat]
  BY <1>3, <1>4, <1>11, <1>12 DEF Ones, Total
<1>14. \A p \in SQLPaths : \A i \in 1 .. n : to[i] = at[p] <=> ms[i].path = p
  BY <1>11, <1>12
<1> HIDE DEF to, ones, times
<1>15. ASSUME NEW r \in 1 .. g
       PROVE  /\ CountIn(rows[r], q) = Sum(Group(n, ones, to, r))
              /\ TotalIn(rows[r], q) = Sum(Group(n, times, to, r))
  <2>0. Group(n, ones, to, r) \in [1 .. n -> Nat] /\ Group(n, times, to, r) \in [1 .. n -> Nat]
    BY <1>13 DEF Group
  <2>1. CASE \E p \in SQLPaths : at[p] = r /\ q \in QueriesOf(p)
    <3>1. PICK p \in SQLPaths : at[p] = r /\ q \in QueriesOf(p)
      BY <2>1
    <3>2. Group(n, ones, to, r) = Ones(n, of(p))
      BY <1>7, <1>8, <1>14, <3>1 DEF Group, Ones, ones
    <3>3. Group(n, times, to, r) = Total(ms, of(p))
      BY <1>3, <1>7, <1>8, <1>14, <3>1 DEF Group, Total, times
    <3>4. rows[r].sql[q].count = Cardinality(of(p)) /\ rows[r].sql[q].total = Sum(Total(ms, of(p)))
      BY <1>11, <3>1, RightMeans DEF RightFor, of, ms
    <3>5. Cardinality(of(p)) = Sum(Ones(n, of(p)))
      BY <1>3, <1>8, CardinalityIsSum
    <3> QED
      BY <1>11, <3>1, <3>2, <3>3, <3>4, <3>5 DEF CountIn, TotalIn
  <2>2. CASE ~ \E p \in SQLPaths : at[p] = r /\ q \in QueriesOf(p)
    <3>1. q \notin DOMAIN rows[r].sql
      BY <1>11, <2>2
    <3>2. \A i \in 1 .. n : to[i] = r => ms[i].query # q
      <4>1. \A i \in 1 .. n : to[i] = at[ms[i].path] /\ ms[i].path \in SQLPaths /\ ms[i].query \in QueriesOf(ms[i].path)
        BY <1>3, <1>12 DEF to, QueriesOf, ms
      <4> QED BY <2>2, <4>1
    <3>3. \A i \in 1 .. n : Group(n, ones, to, r)[i] = 0 /\ Group(n, times, to, r)[i] = 0
      BY <1>3, <1>7, <3>2 DEF Group, Ones, Total, ones, times
    <3>4. Sum(Group(n, ones, to, r)) = 0 /\ Sum(Group(n, times, to, r)) = 0
      BY <1>3, <2>0, <3>3, SumType
    <3> QED
      BY <3>1, <3>4 DEF CountIn, TotalIn
  <2> QED
    BY <2>1, <2>2
<1>16. /\ [i \in DOMAIN rows |-> CountIn(rows[i], q)] = GroupSums(n, ones, to, g)
       /\ [i \in DOMAIN rows |-> TotalIn(rows[i], q)] = GroupSums(n, times, to, g)
  BY <1>10, <1>15 DEF GroupSums
<1>17. Sum(GroupSums(n, ones, to, g)) = Sum(ones) /\ Sum(GroupSums(n, times, to, g)) = Sum(times)
  BY <1>3, <1>10, <1>13, SumOfGroups
<1>18. Sum(ones) = Cardinality(having)
  BY <1>3, <1>7, CardinalityIsSum DEF ones
<1> QED
  BY <1>6, <1>16, <1>17, <1>18

\* Every SQL call is counted in one row, so the rows add up to the part about SQL
\* (trace.go:276).
THEOREM RowsAddUpHolds == StatsSpec => []RowsAddUp
<1>1. StatsInv => RowsAddUp
  BY DoneAddsUp DEF RowsAddUp
<1> QED
  BY <1>1, StatsInductive, PTL
=============================================================================
