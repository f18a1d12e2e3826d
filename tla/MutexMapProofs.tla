--------------------------- MODULE MutexMapProofs ---------------------------
(***************************************************************************)
(* Proofs about MutexMap, for any number of goroutines and keys, and for   *)
(* MutexMap and RWMutexMap alike (any Modes).                              *)
(***************************************************************************)
EXTENDS MutexMap, TLAPS

Found(p) == pc[p] \in {"acquire", "drain", "parked", "held", "unlock"}

\* A call that has found a lock has found the one its key has now.
FoundCurrent ==
  \A p \in Procs : Found(p) =>
    mutexMap[key[p]] \in 1 .. made /\ mutex[p] = mutexMap[key[p]]

\* Who holds or drains a lock for writing is its writer; once he holds it there
\* are no readers, for those that come park.
WriterHasIt ==
  \A p \in Procs :
    /\ pc[p] = "drain" => mode[p] = "w"
    /\ pc[p] = "parked" => mode[p] = "r"
    /\ pc[p] = "drain" \/ (Working(p) /\ mode[p] = "w") => writer[mutex[p]] = p
    /\ Working(p) /\ mode[p] = "w" => readers[mutex[p]] = {}

\* Who holds a lock for reading is among its readers.
ReaderHasIt ==
  \A p \in Procs : Working(p) /\ mode[p] = "r" => p \in readers[mutex[p]]

HolderInv == TypeOK /\ FoundCurrent /\ WriterHasIt /\ ReaderHasIt

----------------------------------------------------------------------------
(* Type correctness. *)

\* The first state is well typed.
LEMMA TypeInit == Init => TypeOK
BY DEF Init, TypeOK, PCs

\* Creating a lock keeps the state well typed.
LEMMA TypeCreate ==
  ASSUME TypeOK, NEW p \in Procs, Create(p)
  PROVE  /\ made' \in Nat /\ made' = made + 1
         /\ mutexMap' \in [Keys -> 1 .. made' \cup {None}]
         /\ writer' \in [1 .. made' -> Procs \cup {None}]
         /\ readers' \in [1 .. made' -> SUBSET Procs]
         /\ mutex' \in [Procs -> 1 .. made' \cup {None}]
<1>1. made' \in Nat /\ made' = made + 1 /\ made' \in 1 .. made'
  BY DEF TypeOK, Create
<1>2. 1 .. made \subseteq 1 .. made'
  BY <1>1 DEF TypeOK
<1>3. mutexMap' \in [Keys -> 1 .. made' \cup {None}]
  BY <1>1, <1>2 DEF TypeOK, Create
<1>4. mutex' \in [Procs -> 1 .. made' \cup {None}]
  BY <1>1, <1>2 DEF TypeOK, Create
<1>5. writer' \in [1 .. made' -> Procs \cup {None}]
  BY <1>1 DEF TypeOK, Create
<1>6. readers' \in [1 .. made' -> SUBSET Procs]
  BY <1>1 DEF TypeOK, Create
<1> QED
  BY <1>1, <1>3, <1>4, <1>5, <1>6

\* Every step keeps the state well typed.
LEMMA TypeNext == TypeOK /\ [Next]_vars => TypeOK'
<1> SUFFICES ASSUME TypeOK, [Next]_vars PROVE TypeOK'
  OBVIOUS
<1> USE DEF PCs, Goto, mapVars, lockVars, callVars
<1>1. ASSUME NEW p \in Procs, Call(p) PROVE TypeOK'
  BY <1>1 DEF TypeOK, Call
<1>2. ASSUME NEW p \in Procs, Look(p) PROVE TypeOK'
  BY <1>2 DEF TypeOK, Look
<1>3. ASSUME NEW p \in Procs, Insert(p) PROVE TypeOK'
  <2>1. CASE Create(p)
    <3>1. pc' \in [Procs -> PCs] /\ key' = key /\ mode' = mode
      BY <1>3 DEF TypeOK, Insert
    <3> QED
      BY <2>1, <3>1, TypeCreate DEF TypeOK
  <2>2. CASE ~Create(p)
    BY <1>3, <2>2 DEF TypeOK, Insert
  <2> QED
    BY <2>1, <2>2
<1>4. ASSUME NEW p \in Procs, Announce(p) PROVE TypeOK'
  BY <1>4 DEF TypeOK, Announce
<1>5. ASSUME NEW p \in Procs, Drain(p) PROVE TypeOK'
  BY <1>5 DEF TypeOK, Drain
<1>6. ASSUME NEW p \in Procs, AcquireRead(p) PROVE TypeOK'
  BY <1>6 DEF TypeOK, AcquireRead
<1>7. ASSUME NEW p \in Procs, Find(p) PROVE TypeOK'
  BY <1>7 DEF TypeOK, Find
<1>8. ASSUME NEW p \in Procs, Unlock(p) PROVE TypeOK'
  BY <1>8 DEF TypeOK, Unlock
<1>9. ASSUME NEW p \in Procs, RUnlock(p) PROVE TypeOK'
  BY <1>9 DEF TypeOK, RUnlock
<1>10. CASE UNCHANGED vars
  BY <1>10 DEF TypeOK, vars
<1> QED
  BY <1>1, <1>2, <1>3, <1>4, <1>5, <1>6, <1>7, <1>8, <1>9, <1>10
     DEF Next, Locking, Unlocking

\* Every variable keeps its type in every execution.
THEOREM TypeCorrect == Spec => []TypeOK
BY TypeInit, TypeNext, PTL DEF Spec

----------------------------------------------------------------------------
(* Who holds what. *)

\* Nobody has found or holds a lock.
LEMMA HolderInit == Init => HolderInv
BY TypeInit DEF Init, HolderInv, FoundCurrent, WriterHasIt, ReaderHasIt, Found, Working

\* Creating the lock of a key changes nothing for those who have found locks,
\* because nobody has found that of this key.
LEMMA HolderInsert ==
  ASSUME HolderInv, TypeOK', NEW p \in Procs, Insert(p)
  PROVE  HolderInv'
<1> USE DEF Goto, mapVars, lockVars
<1>0. TypeOK /\ None \notin Nat
  BY NoneAssumption DEF HolderInv
<1>1. pc[p] = "insert" /\ pc' = [pc EXCEPT ![p] = "acquire"] /\ key' = key /\ mode' = mode
  BY DEF Insert
<1>2. mutexMap'[key[p]] \in 1 .. made' /\ mutex'[p] = mutexMap'[key[p]]
  <2>1. CASE mutexMap[key[p]] # None
    BY <1>0, <2>1 DEF Insert, Create, TypeOK
  <2>2. CASE mutexMap[key[p]] = None
    BY <1>0, <2>2 DEF Insert, Create, TypeOK
  <2> QED
    BY <2>1, <2>2
<1>3. ASSUME NEW q \in Procs, q # p, Found(q)
      PROVE  /\ mutexMap'[key[q]] = mutexMap[key[q]] /\ mutex'[q] = mutex[q]
             /\ mutex[q] \in 1 .. made /\ mutex[q] \in 1 .. made'
             /\ writer'[mutex[q]] = writer[mutex[q]]
             /\ readers'[mutex[q]] = readers[mutex[q]]
  <2>1. mutexMap[key[q]] \in 1 .. made /\ mutex[q] = mutexMap[key[q]] /\ made \in Nat
    BY <1>0, <1>3 DEF HolderInv, FoundCurrent, TypeOK
  <2>2. CASE mutexMap[key[p]] # None
    BY <1>0, <1>3, <2>1, <2>2 DEF Insert, Create, TypeOK
  <2>3. CASE mutexMap[key[p]] = None
    <3>1. key[q] # key[p]
      BY <1>0, <2>1, <2>3
    <3>2. /\ made' = made + 1 /\ mutexMap' = [mutexMap EXCEPT ![key[p]] = made + 1]
          /\ mutex' = [mutex EXCEPT ![p] = made + 1]
      BY <2>3 DEF Insert, Create
    <3>3. mutex[q] \in 1 .. made' /\ mutex[q] < made + 1
      BY <2>1, <3>2
    <3>4. /\ writer'[mutex[q]] = writer[mutex[q]]
          /\ readers'[mutex[q]] = readers[mutex[q]]
      BY <2>1, <2>3, <3>3, <3>2 DEF Insert, Create
    <3> QED
      BY <1>0, <1>3, <2>1, <3>1, <3>2, <3>3, <3>4 DEF TypeOK
  <2> QED
    BY <2>2, <2>3
<1>4. pc'[p] = "acquire" /\ \A q \in Procs : q # p => pc'[q] = pc[q]
  BY <1>0, <1>1 DEF TypeOK
<1>5. FoundCurrent'
  BY <1>0, <1>1, <1>2, <1>3, <1>4 DEF HolderInv, FoundCurrent, Found
<1>6. WriterHasIt' /\ ReaderHasIt'
  BY <1>1, <1>3, <1>4 DEF HolderInv, WriterHasIt, ReaderHasIt, Found, Working
<1> QED
  BY <1>5, <1>6 DEF HolderInv

\* The writer who unlocks lets in the readers that parked; nobody else held his
\* lock.
LEMMA HolderUnlock ==
  ASSUME HolderInv, TypeOK', NEW p \in Procs, Unlock(p)
  PROVE  HolderInv'
<1> DEFINE parked == {q \in Procs : pc[q] = "parked" /\ mutex[q] = mutex[p]}
<1>0. TypeOK
  BY DEF HolderInv
<1>1. /\ pc[p] = "unlock" /\ mode[p] = "w"
      /\ readers' = [readers EXCEPT ![mutex[p]] = @ \cup parked]
      /\ writer' = [writer EXCEPT ![mutex[p]] = None]
      /\ pc' = [q \in Procs |->
                  IF q = p THEN "idle" ELSE IF q \in parked THEN "held" ELSE pc[q]]
      /\ UNCHANGED <<mutexMap, made, key, mode, mutex>>
  BY DEF Unlock, mapVars, callVars
<1>2. writer[mutex[p]] = p /\ readers[mutex[p]] = {} /\ mutex[p] \in 1 .. made
  BY <1>1 DEF HolderInv, WriterHasIt, FoundCurrent, Found, Working
<1>3. ASSUME NEW q \in Procs, q # p, Found(q), q \notin parked
      PROVE  /\ pc'[q] = pc[q] /\ mutex[q] \in 1 .. made
             /\ mutex[q] = mutex[p] => pc[q] = "acquire"
  <2>1. pc'[q] = pc[q] /\ mutex[q] \in 1 .. made
    BY <1>1, <1>3 DEF HolderInv, FoundCurrent
  <2>2. CASE mutex[q] = mutex[p] /\ mode[q] = "w"
    <3>1. writer[mutex[q]] # q
      BY <1>2, <1>3, <2>2
    <3>2. pc[q] \notin {"drain", "held", "unlock"} /\ pc[q] # "parked"
      BY <2>2, <3>1 DEF HolderInv, WriterHasIt, Working
    <3> QED
      BY <1>3, <2>1, <3>2 DEF Found
  <2>3. CASE mutex[q] = mutex[p] /\ mode[q] = "r"
    <3>1. readers[mutex[q]] = {} /\ pc[q] # "parked"
      BY <1>2, <1>3, <2>3
    <3>2. pc[q] \notin {"drain", "held", "unlock"}
      BY <2>3, <3>1 DEF HolderInv, WriterHasIt, ReaderHasIt, Working
    <3> QED
      BY <1>3, <2>1, <3>1, <3>2 DEF Found
  <2>4. mode[q] \in {"w", "r"}
    BY <1>0, ModesAssumption DEF TypeOK
  <2> QED
    BY <2>1, <2>2, <2>3, <2>4
<1>4. FoundCurrent'
  BY <1>1 DEF HolderInv, FoundCurrent, Found
<1>5. ASSUME NEW q \in Procs
      PROVE  /\ pc'[q] = "drain" => mode[q] = "w"
             /\ pc'[q] = "parked" => mode[q] = "r"
             /\ pc'[q] = "drain" \/ (Working(q)' /\ mode[q] = "w") => writer'[mutex[q]] = q
             /\ Working(q)' /\ mode[q] = "w" => readers'[mutex[q]] = {}
             /\ Working(q)' /\ mode[q] = "r" => q \in readers'[mutex[q]]
  <2>1. CASE q = p
    BY <1>1, <2>1 DEF Working
  <2>2. CASE q # p /\ q \in parked
    <3>1. pc'[q] = "held" /\ mode[q] = "r" /\ mutex[q] = mutex[p]
      BY <1>1, <2>2 DEF HolderInv, WriterHasIt
    <3>2. q \in readers'[mutex[q]]
      BY <1>0, <1>1, <1>2, <2>2, <3>1 DEF TypeOK
    <3> QED
      BY <3>1, <3>2 DEF Working
  <2>3. CASE q # p /\ q \notin parked /\ Found(q)
    <3>1. CASE mutex[q] = mutex[p]
      BY <1>3, <2>3, <3>1 DEF Working
    <3>2. CASE mutex[q] # mutex[p]
      <4>1. writer'[mutex[q]] = writer[mutex[q]] /\ readers'[mutex[q]] = readers[mutex[q]]
        BY <1>0, <1>1, <1>3, <2>3, <3>2 DEF TypeOK
      <4> QED
        BY <1>3, <2>3, <4>1 DEF HolderInv, WriterHasIt, ReaderHasIt, Working
    <3> QED
      BY <3>1, <3>2
  <2>4. CASE q # p /\ q \notin parked /\ ~Found(q)
    BY <1>1, <2>4 DEF Found, Working
  <2> QED
    BY <2>1, <2>2, <2>3, <2>4
<1>6. WriterHasIt' /\ ReaderHasIt'
  BY <1>1, <1>5 DEF WriterHasIt, ReaderHasIt, Working
<1> QED
  BY <1>4, <1>6 DEF HolderInv

\* Every step keeps the holders' invariant.
LEMMA HolderNext == HolderInv /\ [Next]_vars => HolderInv'
<1> SUFFICES ASSUME HolderInv, [Next]_vars PROVE HolderInv'
  OBVIOUS
<1> USE DEF Goto, mapVars, lockVars, callVars
<1>0. TypeOK /\ TypeOK' /\ None \notin Procs \cup Nat
  BY TypeNext, NoneAssumption DEF HolderInv
<1>1. ASSUME NEW p \in Procs, Call(p) PROVE HolderInv'
  BY <1>0, <1>1 DEF HolderInv, TypeOK, Call, FoundCurrent, WriterHasIt, ReaderHasIt,
                    Found, Working
<1>2. ASSUME NEW p \in Procs, Look(p) PROVE HolderInv'
  BY <1>0, <1>2 DEF HolderInv, TypeOK, Look, FoundCurrent, WriterHasIt, ReaderHasIt,
                    Found, Working
<1>3. ASSUME NEW p \in Procs, Insert(p) PROVE HolderInv'
  BY <1>0, <1>3, HolderInsert
<1>4. ASSUME NEW p \in Procs, Announce(p) PROVE HolderInv'
  BY <1>0, <1>4 DEF HolderInv, TypeOK, Announce, FoundCurrent, WriterHasIt, ReaderHasIt,
                    Found, Working
<1>5. ASSUME NEW p \in Procs, Drain(p) PROVE HolderInv'
  BY <1>0, <1>5 DEF HolderInv, TypeOK, Drain, FoundCurrent, WriterHasIt, ReaderHasIt,
                    Found, Working
<1>6. ASSUME NEW p \in Procs, AcquireRead(p) PROVE HolderInv'
  <2>1. CASE writer[mutex[p]] = None
    <3>1. /\ pc[p] = "acquire" /\ mode[p] = "r" /\ mutex[p] \in 1 .. made
          /\ pc' = [pc EXCEPT ![p] = "held"]
          /\ readers' = [readers EXCEPT ![mutex[p]] = @ \cup {p}]
          /\ UNCHANGED <<mutexMap, made, writer, key, mode, mutex>>
      BY <1>6, <2>1 DEF AcquireRead, HolderInv, FoundCurrent, Found
    <3>2. FoundCurrent' /\ ReaderHasIt'
      BY <1>0, <3>1 DEF HolderInv, TypeOK, FoundCurrent, ReaderHasIt, Found, Working
    <3>3. \A q \in Procs : Working(q) /\ mode[q] = "w" => mutex[q] # mutex[p]
      BY <1>0, <2>1 DEF HolderInv, WriterHasIt
    <3>4. WriterHasIt'
      BY <1>0, <3>1, <3>3 DEF HolderInv, TypeOK, WriterHasIt, FoundCurrent, Found, Working
    <3> QED
      BY <1>0, <3>2, <3>4 DEF HolderInv
  <2>2. CASE writer[mutex[p]] # None
    BY <1>0, <1>6, <2>2 DEF HolderInv, TypeOK, AcquireRead, FoundCurrent, WriterHasIt,
                            ReaderHasIt, Found, Working
  <2> QED
    BY <2>1, <2>2
<1>7. ASSUME NEW p \in Procs, Find(p) PROVE HolderInv'
  BY <1>0, <1>7 DEF HolderInv, TypeOK, Find, FoundCurrent, WriterHasIt, ReaderHasIt,
                    Found, Working
<1>8. ASSUME NEW p \in Procs, Unlock(p) PROVE HolderInv'
  BY <1>0, <1>8, HolderUnlock
<1>9. ASSUME NEW p \in Procs, RUnlock(p) PROVE HolderInv'
  BY <1>0, <1>9 DEF HolderInv, TypeOK, RUnlock, FoundCurrent, WriterHasIt, ReaderHasIt,
                    Found, Working
<1>10. CASE UNCHANGED vars
  BY <1>0, <1>10 DEF HolderInv, vars, FoundCurrent, WriterHasIt, ReaderHasIt, Found, Working
<1> QED
  BY <1>1, <1>2, <1>3, <1>4, <1>5, <1>6, <1>7, <1>8, <1>9, <1>10
     DEF Next, Locking, Unlocking

\* The holders' invariant holds in every execution.
THEOREM HolderCorrect == Spec => []HolderInv
BY HolderInit, HolderNext, PTL DEF Spec

\* A writer is alone with its key.
THEOREM ExclusionHolds == Spec => []Exclusion
<1>1. HolderInv => Exclusion
  <2> SUFFICES ASSUME HolderInv, NEW p \in Procs, NEW q \in Procs, p # q,
                      Working(p), Working(q), key[p] = key[q], mode[p] # "r"
               PROVE  FALSE
    BY DEF Exclusion
  <2>1. mode[p] = "w" /\ mode[q] \in {"w", "r"} /\ mutex[p] = mutex[q]
    BY ModesAssumption DEF HolderInv, TypeOK, FoundCurrent, Found, Working
  <2> QED
    BY <2>1 DEF HolderInv, WriterHasIt, ReaderHasIt
<1> QED
  BY <1>1, HolderCorrect, PTL

\* Unlock frees the lock that its caller holds.
THEOREM UnlockFreesOwnHolds == Spec => []UnlockFreesOwn
<1>1. HolderInv => UnlockFreesOwn
  BY ModesAssumption
     DEF HolderInv, TypeOK, WriterHasIt, ReaderHasIt, UnlockFreesOwn, Working
<1> QED
  BY <1>1, HolderCorrect, PTL

----------------------------------------------------------------------------
(* The map of locks implements a lock per key. *)

\* No two keys share a lock.
OneLockPerKey ==
  \A k, l \in Keys : mutexMap[k] # None /\ mutexMap[k] = mutexMap[l] => k = l

RefinementInv == HolderInv /\ OneLockPerKey

\* Every step keeps the locks of the keys apart: a lock that is made is new.
LEMMA RefinementInvNext == RefinementInv /\ [Next]_vars => RefinementInv'
<1> SUFFICES ASSUME RefinementInv, [Next]_vars PROVE RefinementInv'
  OBVIOUS
<1>0. TypeOK /\ HolderInv' /\ None \notin Nat
  BY HolderNext, NoneAssumption DEF RefinementInv, HolderInv
<1>1. CASE mutexMap' = mutexMap
  BY <1>0, <1>1 DEF RefinementInv, OneLockPerKey
<1>2. CASE \E p \in Procs : Insert(p) /\ Create(p)
  <2>1. PICK p \in Procs : Insert(p) /\ Create(p)
    BY <1>2
  <2>2. mutexMap' = [mutexMap EXCEPT ![key[p]] = made + 1] /\ made \in Nat
    BY <1>0, <2>1 DEF Create, TypeOK
  <2>3. \A k \in Keys : mutexMap[k] # made + 1
    BY <1>0 DEF TypeOK
  <2> QED
    BY <1>0, <2>2, <2>3 DEF RefinementInv, OneLockPerKey, TypeOK
<1>3. mutexMap' = mutexMap \/ \E p \in Procs : Insert(p) /\ Create(p)
  BY DEF Next, Locking, Unlocking, Call, Look, Insert, Announce, Drain, AcquireRead, Find,
         Unlock, RUnlock, mapVars, vars
<1> QED
  BY <1>1, <1>2, <1>3

\* Who holds what is the same when nobody begins or ceases to hold a lock.
LEMMA SameHolders ==
  ASSUME \A q \in Procs : /\ Working(q)' <=> Working(q)
                          /\ Working(q) => key'[q] = key[q] /\ mode'[q] = mode[q]
  PROVE  UNCHANGED KeyLocks!vars
<1>1. \A k, m : Holders(k, m)' = Holders(k, m)
  BY DEF Holders
<1> QED
  BY <1>1 DEF KeyLocks!vars

\* A thread that holds nothing in the map holds nothing of any key.
LEMMA IdleIsFree ==
  ASSUME NEW p \in Procs, ~Working(p)
  PROVE  KeyLocks!Free(p)
BY DEF KeyLocks!Free, Holders

\* The writer of a key holds it alone, and so does who is about to.
LEMMA WriterAlone ==
  ASSUME HolderInv, NEW p \in Procs, Found(p), mode[p] = "w",
         writer[mutex[p]] = p, readers[mutex[p]] = {}
  PROVE  Holders(key[p], "w") \subseteq {p} /\ Holders(key[p], "r") = {}
<1>1. ASSUME NEW q \in Procs, Working(q), key[q] = key[p] PROVE mutex[q] = mutex[p]
  BY <1>1 DEF HolderInv, FoundCurrent, Found, Working
<1>2. ASSUME NEW q \in Procs, Working(q), key[q] = key[p], mode[q] = "w" PROVE q = p
  BY <1>1, <1>2 DEF HolderInv, WriterHasIt
<1>3. ASSUME NEW q \in Procs, Working(q), key[q] = key[p], mode[q] = "r" PROVE FALSE
  BY <1>1, <1>3 DEF HolderInv, ReaderHasIt
<1> QED
  BY <1>2, <1>3 DEF Holders

\* A writer has the lock once the readers have left: it is the abstract Lock.
LEMMA DrainLocks ==
  ASSUME RefinementInv, NEW p \in Procs, Drain(p)
  PROVE  KeyLocks!Lock(p, key[p])
<1>0. TypeOK /\ HolderInv
  BY DEF RefinementInv, HolderInv
<1>1. /\ pc[p] = "drain" /\ readers[mutex[p]] = {} /\ pc' = [pc EXCEPT ![p] = "held"]
      /\ UNCHANGED <<key, mode>>
  BY DEF Drain, Goto, callVars
<1>2. mode[p] = "w" /\ writer[mutex[p]] = p /\ Found(p) /\ ~Working(p)
  BY <1>0, <1>1 DEF HolderInv, WriterHasIt, Found, Working
<1>3. Holders(key[p], "w") = {} /\ Holders(key[p], "r") = {}
  BY <1>0, <1>1, <1>2, WriterAlone DEF Holders
<1>4. \A q \in Procs : Working(q)' <=> Working(q) \/ q = p
  BY <1>0, <1>1 DEF TypeOK, Working
<1>5. \A k, m : Holders(k, m)' = IF k = key[p] /\ m = "w" THEN Holders(k, m) \cup {p}
                                  ELSE Holders(k, m)
  BY <1>1, <1>2, <1>4 DEF Holders
<1>6. key[p] \in Keys /\ KeyLocks!Free(p)
  BY <1>0, <1>2, IdleIsFree DEF TypeOK
<1> QED
  BY <1>3, <1>5, <1>6 DEF KeyLocks!Lock

\* A reader who meets no writer has the lock: it is the abstract RLock.
LEMMA ReadLocks ==
  ASSUME RefinementInv, NEW p \in Procs, AcquireRead(p), writer[mutex[p]] = None
  PROVE  KeyLocks!RLock(p, key[p])
<1>0. TypeOK /\ HolderInv
  BY DEF RefinementInv, HolderInv
<1>1. /\ pc[p] = "acquire" /\ mode[p] = "r" /\ pc' = [pc EXCEPT ![p] = "held"]
      /\ UNCHANGED <<key, mode>>
  BY DEF AcquireRead, Goto, callVars
<1>2. Found(p) /\ ~Working(p)
  BY <1>1 DEF Found, Working
<1>3. Holders(key[p], "w") = {}
  <2>1. ASSUME NEW q \in Procs, Working(q), key[q] = key[p], mode[q] = "w" PROVE FALSE
    BY <1>0, <1>2, <2>1, NoneAssumption
       DEF HolderInv, FoundCurrent, WriterHasIt, Found, Working
  <2> QED
    BY <2>1 DEF Holders
<1>4. \A q \in Procs : Working(q)' <=> Working(q) \/ q = p
  BY <1>0, <1>1 DEF TypeOK, Working
<1>5. \A k, m : Holders(k, m)' = IF k = key[p] /\ m = "r" THEN Holders(k, m) \cup {p}
                                  ELSE Holders(k, m)
  BY <1>1, <1>2, <1>4 DEF Holders
<1>6. key[p] \in Keys /\ KeyLocks!Free(p)
  BY <1>0, <1>2, IdleIsFree DEF TypeOK
<1> QED
  BY <1>3, <1>5, <1>6 DEF KeyLocks!RLock

\* The writer who leaves lets in the readers that parked, all of them readers
\* of his key: it is the abstract Unlock.
LEMMA UnlockUnlocks ==
  ASSUME RefinementInv, NEW p \in Procs, Unlock(p)
  PROVE  KeyLocks!Unlock(p, key[p])
<1> DEFINE parked == {q \in Procs : pc[q] = "parked" /\ mutex[q] = mutex[p]}
<1>0. TypeOK /\ HolderInv /\ None \notin Nat
  BY NoneAssumption DEF RefinementInv, HolderInv
<1>1. /\ pc[p] = "unlock" /\ mode[p] = "w"
      /\ pc' = [q \in Procs |->
                  IF q = p THEN "idle" ELSE IF q \in parked THEN "held" ELSE pc[q]]
      /\ UNCHANGED <<key, mode>>
  BY DEF Unlock, callVars
<1>2. Found(p) /\ Working(p) /\ writer[mutex[p]] = p /\ readers[mutex[p]] = {}
  BY <1>0, <1>1 DEF HolderInv, WriterHasIt, Found, Working
<1>3. Holders(key[p], "w") = {p} /\ Holders(key[p], "r") = {}
  BY <1>0, <1>1, <1>2, WriterAlone DEF Holders
<1>4. \A q \in parked : mode[q] = "r" /\ key[q] = key[p] /\ ~Working(q)
  <2> TAKE q \in parked
  <2>1. Found(q) /\ mode[q] = "r" /\ ~Working(q)
    BY <1>0 DEF HolderInv, WriterHasIt, Found, Working
  <2>2. mutexMap[key[q]] = mutexMap[key[p]] /\ mutexMap[key[q]] # None
    BY <1>0, <1>2, <2>1 DEF HolderInv, FoundCurrent
  <2> QED
    BY <1>0, <2>1, <2>2 DEF RefinementInv, OneLockPerKey, TypeOK
<1>5. \A q \in Procs : Working(q)' <=> q # p /\ (Working(q) \/ q \in parked)
  BY <1>1 DEF Working
<1> HIDE DEF parked
<1>6. \A k, m : Holders(k, m)' = IF k = key[p] /\ m = "r" THEN Holders(k, m) \cup parked
                                  ELSE Holders(k, m) \ {p}
  <2>1. parked \subseteq Procs /\ p \notin parked
    BY <1>1 DEF parked
  <2> QED
    BY <1>1, <1>4, <1>5, <2>1 DEF Holders
<1>7. parked \in SUBSET {q \in Procs : KeyLocks!Free(q)}
  BY <1>4, IdleIsFree DEF parked
<1>8. key[p] \in Keys
  BY <1>0 DEF TypeOK
<1>9. /\ [k \in Keys |-> Holders(k, "w")]'
           = [[k \in Keys |-> Holders(k, "w")] EXCEPT ![key[p]] = {}]
      /\ [k \in Keys |-> Holders(k, "r")]'
           = [[k \in Keys |-> Holders(k, "r")] EXCEPT ![key[p]] = parked]
  <2>1. \A k \in Keys : k # key[p] => p \notin Holders(k, "w")
    BY DEF Holders
  <2>2. \A k \in Keys : p \notin Holders(k, "r")
    BY <1>1 DEF Holders
  <2>3. \A k \in Keys : /\ Holders(k, "w")' = Holders(k, "w") \ {p}
                        /\ k # key[p] => Holders(k, "r")' = Holders(k, "r") \ {p}
    BY <1>6
  <2>4. ASSUME NEW k \in Keys, k = key[p]
        PROVE  Holders(k, "r")' = parked /\ Holders(k, "w")' = {}
    BY <1>3, <1>6, <2>4
  <2>5. \A k \in Keys :
          /\ Holders(k, "w")' = IF k = key[p] THEN {} ELSE Holders(k, "w")
          /\ Holders(k, "r")' = IF k = key[p] THEN parked ELSE Holders(k, "r")
    <3> TAKE k \in Keys
    <3>1. CASE k = key[p]
      BY <2>4, <3>1
    <3>2. CASE k # key[p]
      BY <2>1, <2>2, <2>3, <3>2
    <3> QED
      BY <3>1, <3>2
  <2> QED
    BY <1>8, <2>5
<1> QED
  BY <1>3, <1>7, <1>8, <1>9 DEF KeyLocks!Unlock

\* A reader who leaves is the abstract RUnlock.
LEMMA RUnlockUnlocks ==
  ASSUME RefinementInv, NEW p \in Procs, RUnlock(p)
  PROVE  KeyLocks!RUnlock(p, key[p])
<1>0. TypeOK
  BY DEF RefinementInv, HolderInv
<1>1. /\ pc[p] = "unlock" /\ mode[p] = "r" /\ pc' = [pc EXCEPT ![p] = "idle"]
      /\ UNCHANGED <<key, mode>> /\ Working(p) /\ key[p] \in Keys
  BY <1>0 DEF RUnlock, Goto, callVars, Working, TypeOK
<1>2. \A q \in Procs : Working(q)' <=> Working(q) /\ q # p
  BY <1>0, <1>1 DEF TypeOK, Working
<1>3. \A k, m : Holders(k, m)' = IF k = key[p] /\ m = "r" THEN Holders(k, m) \ {p}
                                  ELSE Holders(k, m)
  BY <1>1, <1>2 DEF Holders
<1>4. p \in Holders(key[p], "r")
  BY <1>1 DEF Holders
<1> QED
  BY <1>1, <1>3, <1>4 DEF KeyLocks!RUnlock

\* Every step is a step of the abstract locks or leaves them alone.
LEMMA StepRefines ==
  RefinementInv /\ [Next]_vars => [KeyLocks!Next]_(KeyLocks!vars)
<1> SUFFICES ASSUME RefinementInv, [Next]_vars PROVE [KeyLocks!Next]_(KeyLocks!vars)
  OBVIOUS
<1>0. TypeOK /\ None \notin Nat
  BY NoneAssumption DEF RefinementInv, HolderInv
<1> USE DEF Goto, Working
<1>1. ASSUME NEW p \in Procs, Drain(p) \/ Unlock(p) \/ RUnlock(p) PROVE KeyLocks!Next
  BY <1>0, <1>1, DrainLocks, UnlockUnlocks, RUnlockUnlocks DEF KeyLocks!Next, TypeOK
<1>2. ASSUME NEW p \in Procs, AcquireRead(p) PROVE [KeyLocks!Next]_(KeyLocks!vars)
  <2>1. CASE writer[mutex[p]] = None
    BY <1>0, <1>2, <2>1, ReadLocks DEF KeyLocks!Next, TypeOK
  <2>2. CASE writer[mutex[p]] # None
    BY <1>0, <1>2, <2>2, SameHolders DEF AcquireRead, callVars, TypeOK
  <2> QED
    BY <2>1, <2>2
<1>3. ASSUME NEW p \in Procs, Call(p) \/ Look(p) \/ Insert(p) \/ Announce(p)
      PROVE  UNCHANGED KeyLocks!vars
  BY <1>0, <1>3, SameHolders DEF Call, Look, Insert, Announce, callVars, TypeOK
<1>4. ASSUME NEW p \in Procs, Find(p) PROVE UNCHANGED KeyLocks!vars
  <2>1. mutexMap[key[p]] # None
    BY <1>0, <1>4 DEF Find, RefinementInv, HolderInv, FoundCurrent, Found
  <2> QED
    BY <1>0, <1>4, <2>1, SameHolders DEF Find, TypeOK
<1>5. CASE UNCHANGED vars
  BY <1>5, SameHolders DEF vars, callVars
<1> QED
  BY <1>1, <1>2, <1>3, <1>4, <1>5 DEF Next, Locking, Unlocking

\* Created on demand and found again by key, the locks are as good as one lock
\* for each key that was there from the start.
THEOREM LocksPerKeyImplemented == Spec => ImplementsKeyedLocks
<1>1. Init => RefinementInv
  BY HolderInit DEF Init, RefinementInv, OneLockPerKey
<1>2. Init => KeyLocks!Init
  BY DEF Init, KeyLocks!Init, Holders, Working
<1> QED
  BY <1>1, <1>2, RefinementInvNext, StepRefines, PTL
     DEF Spec, ImplementsKeyedLocks, KeyLocks!Spec
=============================================================================
