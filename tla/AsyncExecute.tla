---------------------------- MODULE AsyncExecute ----------------------------
(***************************************************************************)
(* library/asyncexecute: Set appends data to a slice under a mutex; one    *)
(* goroutine takes the slice, hands it to exec, and waits for the ticker.  *)
(*                                                                         *)
(* Each element of Sets is one call of Set, with Size[c] data.  The arrays *)
(* behind the slices are modelled, because exec reads its slice while      *)
(* later calls append to another: if the two shared an array, exec would   *)
(* see its batch change.                                                   *)
(***************************************************************************)
EXTENDS Integers, Sequences, SequencesExt

CONSTANTS
  Sets,      \* the calls of Set
  MaxSize,   \* bound on the data of one call
  Cap        \* the capacity of the first array (the argument cap of New)

ASSUME CapAssumption == Cap \in Nat
ASSUME MaxSizeAssumption == MaxSize \in Nat \ {0}

\* A slice refers to an array, and at most two slices are in use: a third array
\* is one that nothing refers to, which is as good as one just allocated.
Arrays == 1 .. 3

VARIABLES
  arrays,   \* arrays[a]: the data written in array a
  data,     \* aq.data: its array and length; slices start where arrays do
  capacity, \* capacity[a]: the capacity of array a
  todo,     \* calls of Set yet to come
  size,     \* size[c]: how many data the call c of Set has
  pc,       \* the goroutine: "get", "exec" or "wait"
  batch,    \* its local data: an array and a length
  tick,     \* whether the ticker's channel, of capacity 1, holds a tick
  log,      \* history: the data in the order of the calls of Set
  seen      \* history: the data exec has read

vars == <<arrays, data, capacity, todo, size, pc, batch, tick, log, seen>>

Slice == [array : Arrays, len : Nat]
Fresh == CHOOSE a \in Arrays : a \notin {data.array, batch.array}
Datum == Sets \X Nat
Written(c) == [i \in 1 .. size[c] |-> <<c, i>>]

Init ==
  /\ arrays = [a \in Arrays |-> <<>>]
  /\ capacity = [a \in Arrays |-> Cap]
  /\ data = [array |-> 1, len |-> 0]
  /\ todo = Sets
  /\ size \in [Sets -> 0 .. MaxSize]
  /\ pc = "get"
  /\ batch = [array |-> 1, len |-> 0]
  /\ tick = FALSE
  /\ log = <<>>
  /\ seen = <<>>

\* append writes in place when there is room; otherwise it copies the slice to
\* a new array, of some larger capacity.
AppendTo(slice, new) ==
  LET old == SubSeq(arrays[slice.array], 1, slice.len)
      len == slice.len + Len(new)
  IN  \/ /\ len <= capacity[slice.array]
         /\ data' = [slice EXCEPT !.len = len]
         /\ arrays' = [arrays EXCEPT ![slice.array] = old \o new \o SubSeq(@, len + 1, Len(@))]
         /\ UNCHANGED capacity
      \/ /\ len > capacity[slice.array]
         /\ data' = [array |-> Fresh, len |-> len]
         /\ arrays' = [arrays EXCEPT ![Fresh] = old \o new]
         /\ \E larger \in len .. len + 1 : capacity' = [capacity EXCEPT ![Fresh] = larger]

\* Set: append under the mutex.
Set(c) ==
  /\ c \in todo
  /\ todo' = todo \ {c}
  /\ AppendTo(data, Written(c))
  /\ log' = log \o Written(c)
  /\ UNCHANGED <<size, pc, batch, tick, seen>>

Retain == UNCHANGED <<data, arrays, capacity>>

ResetInPlace ==
  /\ data' = [data EXCEPT !.len = 0]
  /\ UNCHANGED <<arrays, capacity>>

\* aq.data = make([]V, 0, cap(data))
Renew ==
  /\ data' = [array |-> Fresh, len |-> 0]
  /\ arrays' = [arrays EXCEPT ![Fresh] = <<>>]
  /\ capacity' = [capacity EXCEPT ![Fresh] = capacity[data.array]]

\* get, under the mutex; exec is called only with data.
Get ==
  /\ pc = "get"
  /\ batch' = data
  /\ Renew
  /\ pc' = IF data.len > 0 THEN "exec" ELSE "wait"
  /\ UNCHANGED <<todo, size, tick, log, seen>>

\* exec has read its batch, at any time before it returns.
ExecReturns ==
  /\ pc = "exec"
  /\ seen' = seen \o SubSeq(arrays[batch.array], 1, batch.len)
  /\ pc' = "wait"
  /\ UNCHANGED <<arrays, data, capacity, todo, size, batch, tick, log>>

\* The ticker drops a tick that nobody has taken when the next is due.
Tick ==
  /\ tick' = TRUE
  /\ UNCHANGED <<arrays, data, capacity, todo, size, pc, batch, log, seen>>

AwaitTick ==
  /\ pc = "wait"
  /\ tick
  /\ tick' = FALSE
  /\ pc' = "get"
  /\ UNCHANGED <<arrays, data, capacity, todo, size, batch, log, seen>>

Loop == Get \/ ExecReturns \/ AwaitTick

Next == Loop \/ Tick \/ \E c \in Sets : Set(c)

Spec == Init /\ [][Next]_vars

\* The goroutine runs when it can and exec returns; the ticker keeps ticking.
FairSpec == Spec /\ WF_vars(Loop) /\ WF_vars(Tick)

----------------------------------------------------------------------------
Content(slice) == SubSeq(arrays[slice.array], 1, slice.len)

\* What exec has, or is about to, read, and what is still waiting.
InExec == IF pc = "exec" THEN Content(batch) ELSE <<>>

TypeOK ==
  /\ arrays \in [Arrays -> Seq(Datum)]
  /\ capacity \in [Arrays -> Nat]
  /\ data \in Slice /\ batch \in Slice
  /\ \A a \in DOMAIN arrays : Len(arrays[a]) <= capacity[a]
  /\ todo \subseteq Sets
  /\ size \in [Sets -> 0 .. MaxSize]
  /\ pc \in {"get", "exec", "wait"}
  /\ tick \in BOOLEAN
  /\ log \in Seq(Datum) /\ seen \in Seq(Datum)

\* asyncexecute_test.go:48 counts the data stored: what was set is executed in
\* the order of the calls, none lost, repeated, or overwritten by an append
\* while exec works on it.
InOrder == log = seen \o InExec \o Content(data)

\* The data of one call of Set reach exec in the same batch.
NotSplit ==
  pc = "exec" =>
    \A i \in 1 .. batch.len :
      LET c == Content(batch)[i][1] IN Written(c) \in SubSeqs(Content(batch))

\* Everything set is executed in the end, however long exec takes and however
\* many ticks are dropped meanwhile.
AllExecuted == \A c \in Sets : c \notin todo ~> \A i \in 1 .. size[c] : <<c, i>> \in Range(seen)

\* exec reads what was set: all, in order, unchanged, each call's data together.
QueueInv == TypeOK /\ InOrder /\ NotSplit
=============================================================================
