----------------------------- MODULE KeyedLocks -----------------------------
(***************************************************************************)
(* What mutexmap promises: one readers-writer lock per key, independent of *)
(* each other, with no trace of how the locks come into being.             *)
(***************************************************************************)
CONSTANTS Procs, Keys

VARIABLES
  writers,   \* writers[k]: who has k for writing
  sharers    \* sharers[k]: who has k for reading

vars == <<writers, sharers>>

Init ==
  /\ writers = [k \in Keys |-> {}]
  /\ sharers = [k \in Keys |-> {}]

Free(p) == \A k \in Keys : p \notin writers[k] \cup sharers[k]

Lock(p, k) ==
  /\ Free(p) /\ writers[k] = {} /\ sharers[k] = {}
  /\ writers' = [writers EXCEPT ![k] = {p}]
  /\ UNCHANGED sharers

RLock(p, k) ==
  /\ Free(p) /\ writers[k] = {}
  /\ sharers' = [sharers EXCEPT ![k] = @ \cup {p}]
  /\ UNCHANGED writers

RUnlock(p, k) ==
  /\ p \in sharers[k]
  /\ sharers' = [sharers EXCEPT ![k] = @ \ {p}]
  /\ UNCHANGED writers

\* Readers that waited for the writer are let in as it leaves.
Unlock(p, k) ==
  /\ p \in writers[k]
  /\ writers' = [writers EXCEPT ![k] = {}]
  /\ \E next \in SUBSET {q \in Procs : Free(q)} :
       sharers' = [sharers EXCEPT ![k] = next]

Next == \E p \in Procs, k \in Keys :
          Lock(p, k) \/ RLock(p, k) \/ Unlock(p, k) \/ RUnlock(p, k)

Spec == Init /\ [][Next]_vars
=============================================================================
