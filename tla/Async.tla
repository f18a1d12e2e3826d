------------------------------- MODULE Async -------------------------------
(***************************************************************************)
(* library/async: Go runs fn in a goroutine, which sends what fn returned  *)
(* into a channel of capacity one and closes it; Await receives from it.   *)
(*                                                                         *)
(* The result of a future is known by the future, the zero result is Zero. *)
(***************************************************************************)
EXTENDS Naturals, Sequences

CONSTANTS
  Futures,   \* the calls of Go
  Awaits,    \* the calls of Await
  Zero       \* the zero value of the results, none of the futures

VARIABLES
  chan,     \* chan[f]: what the channel of f holds
  closed,   \* the futures whose channel is closed
  running,  \* running[f]: "no", "fn", "send", "close", "exited"
  future,   \* future[a]: the Result the call a awaits
  got       \* got[a]: what the call a has returned, a set of at most one result

vars == <<chan, closed, running, future, got>>

Init ==
  /\ chan = [f \in Futures |-> <<>>]
  /\ closed = {}
  /\ running = [f \in Futures |-> "no"]
  /\ future \in [Awaits -> Futures]
  /\ got = [a \in Awaits |-> {}]

Becomes(f, label) == running' = [running EXCEPT ![f] = label]

Go(f) ==
  /\ running[f] = "no"
  /\ Becomes(f, "fn")
  /\ UNCHANGED <<chan, closed, future, got>>

ClosesEarly(f) ==
  /\ running[f] = "fn"
  /\ closed' = closed \cup {f}
  /\ Becomes(f, "send")
  /\ UNCHANGED <<chan, future, got>>

FnReturns(f) ==
  /\ running[f] = "fn"
  /\ Becomes(f, "send")
  /\ UNCHANGED <<chan, closed, future, got>>

\* The send blocks while the buffer is full.
Unbuffered(f) == \E a \in Awaits : future[a] = f /\ got[a] = {}
HasRoom(f) == Len(chan[f]) < 1

Send(f) ==
  /\ running[f] = "send"
  /\ HasRoom(f)
  /\ chan' = [chan EXCEPT ![f] = Append(@, f)]
  /\ Becomes(f, "close")
  /\ UNCHANGED <<closed, future, got>>

Close(f) ==
  /\ running[f] = "close"
  /\ closed' = closed \cup {f}
  /\ Becomes(f, "exited")
  /\ UNCHANGED <<chan, future, got>>

\* Await: the receive takes what is buffered, or the zero result of a channel
\* that is closed and drained.
Await(a) ==
  LET f == future[a]
  IN  /\ running[f] # "no" /\ got[a] = {}
      /\ \/ /\ chan[f] # <<>>
            /\ got' = [got EXCEPT ![a] = {Head(chan[f])}]
            /\ chan' = [chan EXCEPT ![f] = Tail(@)]
         \/ /\ chan[f] = <<>> /\ f \in closed
            /\ got' = [got EXCEPT ![a] = {Zero}]
            /\ UNCHANGED chan
      /\ UNCHANGED <<closed, running, future>>

Finish(f) == FnReturns(f) \/ Send(f) \/ Close(f)

Next == (\E f \in Futures : Go(f) \/ Finish(f)) \/ (\E a \in Awaits : Await(a))

Spec == Init /\ [][Next]_vars

\* Goroutines that can run do, and fn returns.
FairSpec ==
  /\ Spec
  /\ \A f \in Futures : WF_vars(Finish(f))
  /\ \A a \in Awaits : WF_vars(Await(a))

----------------------------------------------------------------------------
TypeOK ==
  /\ chan \in [Futures -> Seq(Futures)]
  /\ closed \subseteq Futures
  /\ running \in [Futures -> {"no", "fn", "send", "close", "exited"}]
  /\ future \in [Awaits -> Futures]
  /\ got \in [Awaits -> SUBSET (Futures \cup {Zero})]

\* The result reaches one Await, and the one that receives it is the first to
\* return: the zero result, which reads as success, is never returned while the
\* true one is still in the channel or on its way.
DeliveredFirst ==
  \A f \in Futures :
    LET of == {a \in Awaits : future[a] = f}
    IN  /\ \A a, b \in of : got[a] = {f} /\ got[b] = {f} => a = b
        /\ (\E a \in of : got[a] = {Zero}) => \E a \in of : got[a] = {f}

\* Nobody who awaits a future waits for ever, nor does its goroutine, even when
\* nobody awaits it.
EveryoneReturns ==
  /\ \A a \in Awaits : running[future[a]] = "fn" ~> got[a] # {}
  /\ \A f \in Futures : running[f] = "fn" ~> running[f] = "exited"

\* The result is delivered once, and first.
FutureInv == TypeOK /\ DeliveredFirst
=============================================================================
