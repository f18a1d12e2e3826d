---------------------------- MODULE MCBackground ----------------------------
(***************************************************************************)
(* Work in the background: the queue of AsyncExecute, or the futures of    *)
(* Async.  The two do not interact, and a behaviour is one of either; with *)
(* liveness among the properties there is no symmetry.                     *)
(***************************************************************************)
EXTENDS AsyncExecute

CONSTANTS Futures, Awaits, Zero

ASSUME ZeroAssumption == Zero \notin Futures

VARIABLES part, chan, closed, running, future, got

futureVars == <<chan, closed, running, future, got>>
allVars    == <<part, vars, futureVars>>

F == INSTANCE Async

InQueue(A)   == part = "queue" /\ A /\ UNCHANGED <<part, futureVars>>
InFutures(A) == part = "futures" /\ A /\ UNCHANGED <<part, vars>>

\* The queue starts empty in a behaviour of futures, of which it is no part.
MCInit ==
  /\ part \in {"queue", "futures"}
  /\ Init /\ F!Init
  /\ part = "queue" => future \in {CHOOSE f \in [Awaits -> Futures] : TRUE}
  /\ part = "futures" => size = [c \in Sets |-> 0]

MCNext == InQueue(Next) \/ InFutures(F!Next)

\* The fairness of AsyncExecute.FairSpec and of Async.FairSpec.
MCSpec ==
  /\ MCInit /\ [][MCNext]_allVars
  /\ WF_allVars(InQueue(Loop)) /\ WF_allVars(InQueue(Tick))
  /\ \A f \in Futures : WF_allVars(InFutures(F!Finish(f)))
  /\ \A a \in Awaits : WF_allVars(InFutures(F!Await(a)))

----------------------------------------------------------------------------
\* Those of the futures, as Async states them.
FutureInv       == F!FutureInv
EveryoneReturns == F!EveryoneReturns
=============================================================================
