---------------------------- MODULE CacheProofs ----------------------------
(***************************************************************************)
(* Proofs about Cache and CacheAside, for any number of threads and keys,  *)
(* whichever operations the threads may perform and whether their          *)
(* callbacks panic or not.                                                 *)
(***************************************************************************)
EXTENDS CacheAside, TLAPS

\* A callback that runs with the cache locked runs for the owner of the lock,
\* and was given what the map holds; GetOrSetLock calls it for an absent key.
OwnerRuns ==
  \A t \in Threads : pc[t] = "fn" =>
    /\ owner = t
    /\ op[t] \in {"Update", "UpdateOrSet", "GetOrSetLock"}
    /\ valueMap[key[t]] = val[t]
    /\ op[t] = "GetOrSetLock" => val[t] = None

\* The steps of GetOrSet and GetOrSetLock that others do not take.
OwnSteps ==
  \A t \in Threads :
    /\ pc[t] \in {"compute", "store"} => op[t] = "GetOrSet"
    /\ pc[t] = "store" => val[t] # None
    /\ pc[t] = "again" => op[t] = "GetOrSetLock"

\* Nothing is set on key k or removed from it, but for GetOrSetLock and updates.
OnlyGrows(k) ==
  \A w \in Threads : key[w] = k => op[w] \notin {"Set", "Delete", "GetOrSet"}

\* What GetOrSetLock has returned is still there, updated or not.
ComputedKept ==
  \A t \in Threads : At(t, "GetOrSetLock", "done") /\ OnlyGrows(key[t]) =>
    valueMap[key[t]] # None /\ val[t] # None /\ valueMap[key[t]].by = val[t].by

LockInv == TypeOK /\ OwnerRuns /\ OwnSteps /\ ComputedKept

----------------------------------------------------------------------------
(* Type correctness. *)

\* The values that the operations make are values.
LEMMA MadeIsValue ==
  ASSUME NEW t \in Threads
  PROVE  Made(t) \in Value /\ Made(t) # None /\ Made(t).by = t
BY NoneAssumption DEF Made, Value

\* An update keeps who made the value, and every update before it.
LEMMA UpdatedIsValue ==
  ASSUME NEW t \in Threads, NEW v \in Value
  PROVE  /\ Updated(v, t) \in Value /\ Updated(v, t) # None
         /\ Updated(v, t).by = v.by /\ v.ups \subseteq Updated(v, t).ups
BY NoneAssumption DEF Updated, Value

\* The first state is well typed.
LEMMA TypeInit == Init => TypeOK
BY DEF Init, TypeOK

\* Every step keeps the state well typed.
LEMMA TypeNext == TypeOK /\ [Next]_vars => TypeOK'
<1> SUFFICES ASSUME TypeOK, [Next]_vars PROVE TypeOK'
  OBVIOUS
<1> USE DEF TypeOK, Goto, Hold, Put, Here, At
<1>1. ASSUME NEW t \in Threads, Set(t) PROVE TypeOK'
  BY <1>1, MadeIsValue DEF Set
<1>2. ASSUME NEW t \in Threads, Get(t) PROVE TypeOK'
  BY <1>2 DEF Get
<1>3. ASSUME NEW t \in Threads, Delete(t) PROVE TypeOK'
  BY <1>3 DEF Delete
<1>4. ASSUME NEW t \in Threads, Lock(t) PROVE TypeOK'
  BY <1>4 DEF Lock, Keep
<1>5. ASSUME NEW t \in Threads, Store(t) PROVE TypeOK'
  <2> DEFINE v == IF val[t] # None /\ op[t] \in {"Update", "UpdateOrSet"}
                  THEN Updated(val[t], t) ELSE Made(t)
  <2>1. v \in Value
    BY MadeIsValue, UpdatedIsValue
  <2> HIDE DEF v
  <2> QED
    BY <1>5, <2>1 DEF Store, v
<1>6. ASSUME NEW t \in Threads, Fail(t) PROVE TypeOK'
  BY <1>6 DEF Fail
<1>7. ASSUME NEW t \in Threads, Compute(t) PROVE TypeOK'
  BY <1>7, MadeIsValue DEF Compute
<1>8. ASSUME NEW t \in Threads, Panic(t) PROVE TypeOK'
  BY <1>8 DEF Panic
<1>9. CASE UNCHANGED vars
  BY <1>9 DEF vars
<1> QED
  BY <1>1, <1>2, <1>3, <1>4, <1>5, <1>6, <1>7, <1>8, <1>9 DEF Next, Step

----------------------------------------------------------------------------
(* Callbacks with the cache locked. *)

\* What Store puts in the map: the entry that fn was given, updated; or, where
\* there was none, a value of the thread's own.
LEMMA StoreGrows ==
  ASSUME LockInv, NEW t \in Threads, Store(t)
  PROVE  /\ valueMap[key[t]] = val[t]
         /\ \E v \in Value : /\ valueMap' = [valueMap EXCEPT ![key[t]] = v]
                             /\ val' = [val EXCEPT ![t] = v]
                             /\ v # None
                             /\ val[t] = None => v.by = t
                             /\ val[t] # None => v.by = val[t].by /\ val[t].ups \subseteq v.ups
<1> DEFINE v == IF val[t] # None /\ op[t] \in {"Update", "UpdateOrSet"}
                THEN Updated(val[t], t) ELSE Made(t)
<1>1. pc[t] = "fn" /\ valueMap' = [valueMap EXCEPT ![key[t]] = v] /\ val' = [val EXCEPT ![t] = v]
  BY DEF Store, Put, Hold
<1>2. valueMap[key[t]] = val[t] /\ (val[t] # None => op[t] \in {"Update", "UpdateOrSet"})
  BY <1>1 DEF LockInv, OwnerRuns
<1>3. CASE val[t] = None
  <2>1. v = Made(t)
    BY <1>3
  <2> QED
    BY <1>1, <1>2, <1>3, <2>1, MadeIsValue
<1>4. CASE val[t] # None
  <2>1. v = Updated(val[t], t) /\ val[t] \in Value
    BY <1>2, <1>4 DEF LockInv, TypeOK
  <2> QED
    BY <1>1, <1>2, <1>4, <2>1, UpdatedIsValue
<1> QED
  BY <1>3, <1>4

\* Nobody runs a callback with the cache locked when it is not.
LEMMA FreeMeansNoCallback ==
  ASSUME LockInv, owner = None
  PROVE  \A t \in Threads : pc[t] # "fn"
BY NoneAssumption DEF LockInv, OwnerRuns

\* In the first state no operation has begun.
LEMMA LockInit == Init => LockInv
BY TypeInit DEF Init, LockInv, OwnerRuns, OwnSteps, ComputedKept, At

\* Every step keeps the invariant.
LEMMA LockNext == LockInv /\ [Next]_vars => LockInv'
<1> SUFFICES ASSUME LockInv, [Next]_vars PROVE LockInv'
  OBVIOUS
<1> USE DEF Goto, Hold, Put, Here, At
<1>0. TypeOK /\ TypeOK'
  BY TypeNext DEF LockInv
<1>1. ASSUME NEW t \in Threads, Set(t) PROVE LockInv'
  <2>1. \A u \in Threads : pc[u] # "fn"
    BY <1>1, FreeMeansNoCallback DEF Set
  <2>2. OwnerRuns' /\ OwnSteps'
    BY <1>0, <1>1, <2>1 DEF Set, TypeOK, LockInv, OwnerRuns, OwnSteps
  <2>3. op[t] \in {"Set", "GetOrSet"} /\ op' = op /\ key' = key
    BY <1>1 DEF Set
  <2>4. \A k \in Keys : k # key[t] => valueMap'[k] = valueMap[k]
    BY <1>0, <1>1 DEF Set, TypeOK
  <2>5. \A u \in Threads : u # t => pc'[u] = pc[u] /\ val'[u] = val[u]
    BY <1>0, <1>1 DEF Set, TypeOK
  <2>6. ComputedKept'
    BY <1>0, <2>3, <2>4, <2>5 DEF LockInv, TypeOK, ComputedKept, OnlyGrows
  <2> QED
    BY <1>0, <2>2, <2>6 DEF LockInv
<1>2. ASSUME NEW t \in Threads, Get(t) PROVE LockInv'
  BY <1>0, <1>2 DEF Get, TypeOK, LockInv, OwnerRuns, OwnSteps, ComputedKept, OnlyGrows
<1>3. ASSUME NEW t \in Threads, Delete(t) PROVE LockInv'
  <2>1. \A u \in Threads : pc[u] # "fn"
    BY <1>3, FreeMeansNoCallback DEF Delete
  <2> QED
    BY <1>0, <1>3, <2>1 DEF Delete, TypeOK, LockInv, OwnerRuns, OwnSteps, ComputedKept, OnlyGrows
<1>4. ASSUME NEW t \in Threads, Lock(t) PROVE LockInv'
  <2>1. \A u \in Threads : pc[u] # "fn"
    BY <1>4, FreeMeansNoCallback DEF Lock
  <2> QED
    BY <1>0, <1>4, <2>1 DEF Lock, Keep, NothingToDo, TypeOK, LockInv, OwnerRuns, OwnSteps,
                            ComputedKept, OnlyGrows
<1>5. ASSUME NEW t \in Threads, Store(t) PROVE LockInv'
  <2>1. PICK v \in Value : /\ valueMap' = [valueMap EXCEPT ![key[t]] = v]
                           /\ val' = [val EXCEPT ![t] = v]
                           /\ v # None
                           /\ val[t] # None => v.by = val[t].by
    BY <1>5, StoreGrows
  <2>2. pc[t] = "fn" /\ pc' = [pc EXCEPT ![t] = "done"] /\ op' = op /\ key' = key
    BY <1>5 DEF Store
  <2>3. valueMap[key[t]] = val[t] /\ \A u \in Threads : pc[u] = "fn" => u = t
    BY <1>0, <2>2 DEF LockInv, OwnerRuns
  <2>4. OwnerRuns' /\ OwnSteps'
    BY <1>0, <2>1, <2>2, <2>3 DEF TypeOK, LockInv, OwnerRuns, OwnSteps
  <2>5. ComputedKept'
    BY <1>0, <2>1, <2>2, <2>3 DEF TypeOK, LockInv, ComputedKept, OnlyGrows
  <2> QED
    BY <1>0, <2>4, <2>5 DEF LockInv
<1>6. ASSUME NEW t \in Threads, Fail(t) PROVE LockInv'
  BY <1>0, <1>6 DEF Fail, TypeOK, LockInv, OwnerRuns, OwnSteps, ComputedKept, OnlyGrows
<1>7. ASSUME NEW t \in Threads, Compute(t) PROVE LockInv'
  BY <1>0, <1>7, MadeIsValue
     DEF Compute, TypeOK, LockInv, OwnerRuns, OwnSteps, ComputedKept, OnlyGrows
<1>8. ASSUME NEW t \in Threads, Panic(t) PROVE LockInv'
  BY <1>0, <1>8 DEF Panic, TypeOK, LockInv, OwnerRuns, OwnSteps, ComputedKept, OnlyGrows
<1>9. CASE UNCHANGED vars
  BY <1>0, <1>9 DEF vars, LockInv, OwnerRuns, OwnSteps, ComputedKept, OnlyGrows
<1> QED
  BY <1>1, <1>2, <1>3, <1>4, <1>5, <1>6, <1>7, <1>8, <1>9 DEF Next, Step

\* The invariant holds in every execution.
LEMMA LockCorrect == Spec => []LockInv
BY LockInit, LockNext, PTL DEF Spec

\* Callbacks under the lock run one by one, and are given what is there; what
\* GetOrSetLock has computed is what its other callers get.
THEOREM CacheCorrect == Spec => []CacheInv
<1>1. LockInv => CallbackAlone
  BY DEF LockInv, OwnerRuns, CallbackAlone
<1>2. LockInv => ComputedOnce
  BY DEF LockInv, ComputedKept, OnlyGrows, ComputedOnce, At
<1>3. LockInv => CacheInv
  BY <1>1, <1>2 DEF LockInv, CacheInv
<1> QED
  BY <1>3, LockCorrect, PTL

\* No step discards what another thread has stored, except those of the
\* operations that are there to replace or remove it.
THEOREM NothingIsLost == Spec => NoLostUpdate
<1>1. ASSUME LockInv, [Next]_vars PROVE [NothingLost]_vars
  <2> USE DEF Goto, Hold, Put, Here, At
  <2>0. TypeOK
    BY <1>1 DEF LockInv
  <2>1. ASSUME NEW t \in Threads, Set(t) PROVE NothingLost
    <3>1. pc[t] # pc'[t] /\ op[t] \in {"Set", "GetOrSet"}
      BY <2>0, <2>1 DEF Set, TypeOK
    <3>2. \A k \in Keys : k # key[t] => valueMap'[k] = valueMap[k]
      BY <2>0, <2>1 DEF Set, TypeOK
    <3> QED
      BY <3>1, <3>2 DEF NothingLost
  <2>2. ASSUME NEW t \in Threads, Delete(t) PROVE NothingLost
    BY <2>0, <2>2 DEF Delete, TypeOK, NothingLost
  <2>3. ASSUME NEW t \in Threads, Store(t) PROVE NothingLost
    <3>1. PICK v \in Value :
            /\ valueMap' = [valueMap EXCEPT ![key[t]] = v] /\ v # None
            /\ val[t] # None => v.by = val[t].by /\ val[t].ups \subseteq v.ups
      BY <1>1, <2>3, StoreGrows
    <3>2. valueMap[key[t]] = val[t]
      BY <1>1, <2>3, StoreGrows
    <3> QED
      BY <2>0, <3>1, <3>2 DEF TypeOK, NothingLost
  <2>4. ASSUME valueMap' = valueMap PROVE NothingLost
    BY <2>4 DEF NothingLost
  <2>5. ASSUME NEW t \in Threads, Get(t) \/ Lock(t) \/ Fail(t) \/ Compute(t) \/ Panic(t)
        PROVE  valueMap' = valueMap
    BY <2>5 DEF Get, Lock, Fail, Compute, Panic
  <2> QED
    BY <1>1, <2>1, <2>2, <2>3, <2>4, <2>5 DEF Next, Step
<1> QED
  BY <1>1, LockCorrect, PTL DEF Spec, NoLostUpdate

----------------------------------------------------------------------------
(* In front of a table. *)

AsideTypeOK ==
  /\ table \in [Keys -> Nat]
  /\ wrote \subseteq Threads
  /\ read \in [Threads -> Nat \cup {None}]

\* Only writers have a row to write, and fn queries once it has been called.
AsideSteps ==
  \A t \in Threads :
    /\ t \in wrote => op[t] = "Delete"
    /\ pc[t] \in {"start", "again"} => read[t] = None

\* What fn has read with the cache locked is what the table holds, or else a
\* writer, who waits for the lock, is about to delete what fn will store.
QueryCurrent ==
  \A t \in Threads :
    /\ At(t, "GetOrSetLock", "fn") /\ FilledByLock(key[t])
    /\ read[t] # None /\ read[t] # table[key[t]]
    => YetToDelete(key[t])

\* So it is with an entry, which some fn has computed.
EntryCurrent ==
  \A k \in Keys : valueMap[k] # None /\ FilledByLock(k) =>
    LET b == valueMap[k].by
    IN  /\ key[b] = k /\ At(b, "GetOrSetLock", "done")
        /\ read[b] # table[k] => YetToDelete(k)

AsideInv == LockInv /\ AsideTypeOK /\ AsideSteps /\ QueryCurrent /\ EntryCurrent

\* The cache's own variables behave as those of Cache.
THEOREM AsideIsCache == AsideSpec => Spec
<1>1. AsideInit => Init
  BY DEF AsideInit
<1>2. [AsideNext]_asideVars => [Next]_vars
  BY DEF AsideNext, AsideStep, WriteRow, Query, CacheStep, Next, asideVars
<1> QED
  BY <1>1, <1>2, PTL DEF AsideSpec, Spec

\* At first there is no entry, and nobody has read or written anything.
LEMMA AsideInitInv == AsideInit => AsideInv
BY LockInit DEF AsideInit, Init, AsideInv, AsideTypeOK, AsideSteps, QueryCurrent, EntryCurrent, At

\* A writer who has changed a row has its entry yet to delete.
LEMMA WriteRowKeeps ==
  ASSUME AsideInv, LockInv', NEW t \in Threads, WriteRow(t)
  PROVE  AsideInv'
<1>0. TypeOK /\ AsideTypeOK
  BY DEF AsideInv, LockInv
<1>1. UNCHANGED <<vars, read>>
  BY DEF WriteRow
<1>2. AsideTypeOK' /\ AsideSteps'
  BY <1>0, <1>1 DEF WriteRow, vars, TypeOK, AsideTypeOK, AsideInv, AsideSteps, At
<1>3. YetToDelete(key[t])'
  BY <1>1 DEF WriteRow, vars, YetToDelete, At
<1>4. ASSUME NEW k \in Keys
      PROVE  YetToDelete(k) => YetToDelete(k)'
  BY <1>1 DEF WriteRow, vars, YetToDelete
<1>5. \A k \in Keys : k # key[t] => table'[k] = table[k]
  BY <1>0 DEF WriteRow, AsideTypeOK
<1>6. QueryCurrent'
  BY <1>0, <1>1, <1>3, <1>4, <1>5
     DEF vars, TypeOK, AsideInv, QueryCurrent, FilledByLock, At
<1>7. EntryCurrent'
  BY <1>0, <1>1, <1>3, <1>4, <1>5
     DEF vars, TypeOK, AsideInv, EntryCurrent, FilledByLock, At
<1> QED
  BY <1>2, <1>6, <1>7 DEF AsideInv

\* What a query reads is current.
LEMMA QueryKeeps ==
  ASSUME AsideInv, LockInv', NEW t \in Threads, Query(t)
  PROVE  AsideInv'
<1>0. TypeOK /\ AsideTypeOK
  BY DEF AsideInv, LockInv
<1>1. UNCHANGED <<vars, table, wrote>> /\ read' = [read EXCEPT ![t] = table[key[t]]]
  BY DEF Query
<1>2. pc[t] \in {"fn", "compute"} /\ table[key[t]] \in Nat
  BY <1>0 DEF Query, Querying, At, TypeOK, AsideTypeOK
<1>3. AsideTypeOK' /\ AsideSteps'
  BY <1>0, <1>1, <1>2 DEF vars, TypeOK, AsideTypeOK, AsideInv, AsideSteps
<1>4. QueryCurrent'
  BY <1>0, <1>1 DEF vars, AsideTypeOK, AsideInv, QueryCurrent, FilledByLock, YetToDelete, At
<1>5. EntryCurrent'
  BY <1>0, <1>1, <1>2
     DEF vars, AsideTypeOK, AsideInv, EntryCurrent, FilledByLock, YetToDelete, At
<1> QED
  BY <1>3, <1>4, <1>5 DEF AsideInv

\* A writer has yet to delete until he does.
LEMMA PendingUntilDelete ==
  ASSUME AsideInv, NEW t \in Threads, CacheStep(t), NEW k \in Keys, YetToDelete(k),
         ~(Delete(t) /\ key[t] = k)
  PROVE  YetToDelete(k)'
<1>0. TypeOK
  BY DEF AsideInv, LockInv
<1>1. PICK u \in wrote : key[u] = k /\ pc[u] = "start"
  BY DEF YetToDelete
<1>2. u \in Threads /\ op[u] = "Delete"
  BY <1>1 DEF AsideInv, AsideTypeOK, AsideSteps
<1>3. wrote' = wrote /\ key' = key
  BY DEF CacheStep, Step, Set, Get, Delete, Lock, Store, Fail, Compute, Panic
<1>4. CASE u = t
  BY <1>1, <1>2, <1>4
     DEF CacheStep, Step, Set, Get, Delete, Lock, Store, Fail, Compute, Panic, At
<1>5. CASE u # t
  <2>1. pc'[u] = pc[u]
    BY <1>0, <1>2, <1>5
       DEF CacheStep, Step, Set, Get, Delete, Lock, Store, Fail, Compute, Panic, Goto, TypeOK
  <2> QED
    BY <1>1, <1>3, <2>1 DEF YetToDelete
<1> QED
  BY <1>4, <1>5

\* A step of the cache keeps what is known of the table.
LEMMA CacheStepKeeps ==
  ASSUME AsideInv, LockInv', NEW t \in Threads, CacheStep(t)
  PROVE  AsideInv'
<1>0. TypeOK /\ TypeOK' /\ AsideTypeOK
  BY DEF AsideInv, LockInv
<1>1. UNCHANGED <<table, wrote, read>> /\ op' = op /\ key' = key
  BY DEF CacheStep, Step, Set, Get, Delete, Lock, Store, Fail, Compute, Panic
<1>2. \A u \in Threads : u # t => pc'[u] = pc[u]
  BY <1>0 DEF CacheStep, Step, Set, Get, Delete, Lock, Store, Fail, Compute, Panic, Goto, TypeOK
<1>3. /\ pc'[t] # "start"
      /\ pc'[t] \in {"again", "fn"} => pc[t] \in {"start", "again"}
      /\ pc[t] # "done"
  BY <1>0 DEF CacheStep, Step, Set, Get, Delete, Lock, Store, Fail, Compute, Panic, Goto, At, TypeOK
<1>4. AsideTypeOK' /\ AsideSteps'
  BY <1>0, <1>1, <1>2, <1>3 DEF AsideTypeOK, AsideInv, AsideSteps
<1>5. QueryCurrent'
  <2> SUFFICES ASSUME NEW u \in Threads, At(u, "GetOrSetLock", "fn")', FilledByLock(key[u])',
                      read[u] # None, read[u] # table[key[u]]
               PROVE  YetToDelete(key[u])'
    BY <1>1 DEF QueryCurrent
  <2>1. u # t
    BY <1>3 DEF AsideInv, AsideSteps, At
  <2>2. At(u, "GetOrSetLock", "fn") /\ FilledByLock(key[u])
    BY <1>1, <1>2, <2>1 DEF At, FilledByLock
  <2>3. YetToDelete(key[u]) /\ key[u] \in Keys
    BY <1>0, <2>2 DEF AsideInv, QueryCurrent, TypeOK
  <2>4. ~Delete(t)
    BY <2>2, FreeMeansNoCallback DEF Delete, AsideInv, At
  <2> QED
    BY <2>3, <2>4, <1>1, PendingUntilDelete
<1>6. EntryCurrent'
  <2> SUFFICES ASSUME NEW k \in Keys, valueMap'[k] # None, FilledByLock(k)'
               PROVE  LET b == valueMap'[k].by
                      IN  /\ key[b] = k /\ op[b] = "GetOrSetLock" /\ pc'[b] = "done"
                          /\ read[b] # table[k] => YetToDelete(k)'
    BY <1>1 DEF EntryCurrent, At
  <2>0. FilledByLock(k)
    BY <1>1 DEF FilledByLock
  <2>1. CASE Store(t) /\ key[t] = k
    <3>1. pc[t] = "fn" /\ pc'[t] = "done" /\ op[t] = "GetOrSetLock"
      BY <1>0, <2>0, <2>1 DEF Store, Goto, TypeOK, FilledByLock, AsideInv, LockInv, OwnerRuns
    <3>2. val[t] = None
      BY <3>1 DEF AsideInv, LockInv, OwnerRuns
    <3>3. valueMap'[k].by = t
      BY <1>0, <2>1, <3>2, StoreGrows DEF TypeOK, AsideInv
    <3>4. read[t] # None
      BY <3>1 DEF CacheStep, Querying, At
    <3>5. read[t] # table[k] => YetToDelete(k)
      BY <2>0, <2>1, <3>1, <3>4 DEF AsideInv, QueryCurrent, At
    <3>6. read[t] # table[k] => YetToDelete(k)'
      BY <2>1, <3>1, <3>5, PendingUntilDelete DEF Delete, At
    <3> QED
      BY <1>1, <2>1, <3>1, <3>3, <3>6 DEF At
  <2>2. CASE ~(Store(t) /\ key[t] = k)
    <3>1. ~(Delete(t) /\ key[t] = k)
      BY <1>0 DEF Delete, Put, TypeOK
    <3>2. valueMap'[k] = valueMap[k]
      BY <1>0, <2>0, <2>2, <3>1
         DEF CacheStep, Step, Set, Get, Delete, Lock, Store, Fail, Compute, Panic, Put, At,
             TypeOK, FilledByLock
    <3>3. LET b == valueMap[k].by
          IN  /\ key[b] = k /\ At(b, "GetOrSetLock", "done")
              /\ read[b] # table[k] => YetToDelete(k)
      BY <2>0, <3>2 DEF AsideInv, EntryCurrent
    <3>4. valueMap[k].by \in Threads
      BY <1>0, <3>2 DEF TypeOK, Value
    <3> QED
      BY <1>1, <1>2, <1>3, <3>1, <3>2, <3>3, <3>4, PendingUntilDelete DEF At
  <2> QED
    BY <2>1, <2>2
<1> QED
  BY <1>4, <1>5, <1>6 DEF AsideInv

\* Every step keeps the invariant.
LEMMA AsideNextInv == AsideInv /\ [AsideNext]_asideVars => AsideInv'
<1> SUFFICES ASSUME AsideInv, [AsideNext]_asideVars PROVE AsideInv'
  OBVIOUS
<1>1. LockInv'
  <2>1. [Next]_vars
    BY DEF AsideNext, AsideStep, WriteRow, Query, CacheStep, Next, asideVars
  <2> QED
    BY <2>1, LockNext DEF AsideInv
<1>2. ASSUME NEW t \in Threads, AsideStep(t) PROVE AsideInv'
  BY <1>1, <1>2, WriteRowKeeps, QueryKeeps, CacheStepKeeps DEF AsideStep
<1>3. CASE UNCHANGED asideVars
  BY <1>1, <1>3 DEF asideVars, vars, AsideInv, AsideTypeOK, AsideSteps, QueryCurrent, EntryCurrent,
                    FilledByLock, YetToDelete, At
<1> QED
  BY <1>2, <1>3 DEF AsideNext

\* An entry that GetOrSetLock alone fills is never stale for good.
THEOREM StaleEntriesGo == AsideSpec => []NoLastingStale
<1>1. AsideInv => NoLastingStale
  BY DEF AsideInv, EntryCurrent, NoLastingStale
<1> QED
  BY <1>1, AsideInitInv, AsideNextInv, PTL DEF AsideSpec
=============================================================================
