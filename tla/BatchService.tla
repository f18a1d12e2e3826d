--------------------------- MODULE BatchService ----------------------------
(***************************************************************************)
(* What bulkexecute promises its users, without slots, channels or locks:  *)
(* submitted calls wait; everything that waits is executed as one batch;   *)
(* each call is answered with the result of the batch that contained it.   *)
(* A batch is the set of its calls, and an answer is the batch it is from. *)
(***************************************************************************)
CONSTANT Calls

VARIABLES
  waiting,   \* calls submitted and not yet executed
  batches,   \* the batches executed
  answer     \* answer[c] is the batch c is answered from, {} before

vars == <<waiting, batches, answer>>

Init ==
  /\ waiting = {}
  /\ batches = {}
  /\ answer = [c \in Calls |-> {}]

Submit(c) ==
  /\ c \notin waiting \cup UNION batches
  /\ waiting' = waiting \cup {c}
  /\ UNCHANGED <<batches, answer>>

Run ==
  /\ waiting # {}
  /\ batches' = batches \cup {waiting}
  /\ waiting' = {}
  /\ UNCHANGED answer

Answer(c) ==
  /\ answer[c] = {}
  /\ \E b \in batches : c \in b /\ answer' = [answer EXCEPT ![c] = b]
  /\ UNCHANGED <<waiting, batches>>

Next == Run \/ \E c \in Calls : Submit(c) \/ Answer(c)

Spec == Init /\ [][Next]_vars
=============================================================================
