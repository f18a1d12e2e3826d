----------------------------- MODULE CacheAside -----------------------------
(***************************************************************************)
(* The cache in front of a table, as a web application uses it: readers    *)
(* fill the cache with GetOrSetLock, whose fn queries the table; writers   *)
(* change a row and then Delete its entry.  The table and the order of the *)
(* writer's two steps are the application's.                               *)
(***************************************************************************)
EXTENDS Cache, Naturals

VARIABLES
  table,   \* table[k]: how often row k has been written
  wrote,   \* the writers that have written and have yet to Delete, or have
  read     \* read[t]: the version fn has read for t, None before

\* What stands for nothing read is not a version.
ASSUME NothingReadAssumption == None \notin Nat

asideVars == <<vars, table, wrote, read>>

AsideInit ==
  /\ Init
  /\ table = [k \in Keys |-> 0]
  /\ wrote = {}
  /\ read = [t \in Threads |-> None]

WriteRow(t) ==
  /\ At(t, "Delete", "start") /\ t \notin wrote
  /\ table' = [table EXCEPT ![key[t]] = @ + 1]
  /\ wrote' = wrote \cup {t}
  /\ UNCHANGED <<vars, read>>

\* fn of the operations that fill the cache.
Querying(t) == At(t, "GetOrSetLock", "fn") \/ At(t, "GetOrSet", "compute")

Query(t) ==
  /\ Querying(t) /\ read[t] = None
  /\ read' = [read EXCEPT ![t] = table[key[t]]]
  /\ UNCHANGED <<vars, table, wrote>>

CacheStep(t) ==
  /\ op[t] = "Delete" => t \in wrote
  /\ Querying(t) => read[t] # None
  /\ Step(t)
  /\ UNCHANGED <<table, wrote, read>>

AsideStep(t) == WriteRow(t) \/ Query(t) \/ CacheStep(t)

AsideNext == \E t \in Threads : AsideStep(t)

AsideSpec == AsideInit /\ [][AsideNext]_asideVars

\* Goroutines that can run do.
AsideFairSpec == AsideSpec /\ \A t \in Threads : WF_asideVars(AsideStep(t))

\* A stale entry does not last: when what is cached is not what the table holds,
\* a writer has still to delete it.  A query that read the old row cannot store
\* it after the writer's Delete, for it runs with the cache locked.  This is of
\* keys that are filled by GetOrSetLock alone.
FilledByLock(k) ==
  \A t \in Threads : key[t] = k => op[t] \in {"Get", "GetOrSetLock", "Delete"}
YetToDelete(k) == \E t \in wrote : key[t] = k /\ pc[t] = "start"

\* No entry of such a key is stale with nobody about to delete it.
NoLastingStale ==
  \A k \in Keys :
    valueMap[k] # None /\ read[valueMap[k].by] # table[k] /\ FilledByLock(k) => YetToDelete(k)
=============================================================================
