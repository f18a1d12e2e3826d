------------------------------ MODULE MutexMap ------------------------------
(***************************************************************************)
(* library/mutexmap: a lock per key, created when the key is first locked. *)
(*                                                                         *)
(* MutexMap and RWMutexMap differ only in the locks they hold: with        *)
(* Modes = {"w"} this is MutexMap, with Modes = {"w", "r"} RWMutexMap.     *)
(* The sections under mm.m do not block, so each is one action; between    *)
(* them, and between finding a lock and taking it, others may run.         *)
(***************************************************************************)
EXTENDS Naturals

CONSTANTS
  Procs,   \* goroutines; each locks one key at a time, again and again
  Keys,
  Modes,   \* "w" for Lock and Unlock, "r" for RLock and RUnlock
  None

ASSUME NoneAssumption == None \notin Procs \cup Nat
ASSUME ModesAssumption == Modes \subseteq {"w", "r"}

VARIABLES
  mutexMap,   \* the lock of each key, None before it is created
  made,       \* how many locks have been created; they are numbered from 1
  writer,     \* writer[m]: who has announced a Lock of m, or has it
  readers,    \* readers[m]: who has m for reading
  pc,
  key, mode,  \* the arguments of the call in progress
  mutex       \* local variable m: the lock found

mapVars  == <<mutexMap, made>>
lockVars == <<writer, readers>>
callVars == <<key, mode, mutex>>
vars     == <<mapVars, lockVars, pc, callVars>>

PCs == {"idle", "look", "insert", "acquire", "drain", "parked", "held", "unlock"}

Goto(p, label) == pc' = [pc EXCEPT ![p] = label]

Init ==
  /\ mutexMap = [k \in Keys |-> None]
  /\ made = 0
  /\ writer = [m \in {} |-> None]
  /\ readers = [m \in {} |-> {}]
  /\ pc = [p \in Procs |-> "idle"]
  /\ key \in [Procs -> Keys]
  /\ mode \in [Procs -> Modes]
  /\ mutex = [p \in Procs |-> None]

----------------------------------------------------------------------------
(* Lock(key), RLock(key) *)

Call(p) ==
  /\ pc[p] = "idle"
  /\ \E k \in Keys, w \in Modes :
       /\ key' = [key EXCEPT ![p] = k]
       /\ mode' = [mode EXCEPT ![p] = w]
  /\ Goto(p, "look")
  /\ UNCHANGED <<mapVars, lockVars, mutex>>

\* getOrSet: the look-up under the read lock.
Look(p) ==
  /\ pc[p] = "look"
  /\ mutex' = [mutex EXCEPT ![p] = mutexMap[key[p]]]
  /\ Goto(p, IF mutexMap[key[p]] = None THEN "insert" ELSE "acquire")
  /\ UNCHANGED <<mapVars, lockVars, key, mode>>

CreateUnstored(p) ==
  /\ made' = made + 1
  /\ writer' = [i \in 1 .. made + 1 |-> IF i <= made THEN writer[i] ELSE None]
  /\ readers' = [i \in 1 .. made + 1 |-> IF i <= made THEN readers[i] ELSE {}]
  /\ mutex' = [mutex EXCEPT ![p] = made + 1]
  /\ UNCHANGED mutexMap

Create(p) ==
  LET m == made + 1
  IN  /\ made' = m
      /\ mutexMap' = [mutexMap EXCEPT ![key[p]] = m]
      /\ writer' = [i \in 1 .. m |-> IF i < m THEN writer[i] ELSE None]
      /\ readers' = [i \in 1 .. m |-> IF i < m THEN readers[i] ELSE {}]
      /\ mutex' = [mutex EXCEPT ![p] = m]

InsertUnchecked(p) ==
  /\ pc[p] = "insert"
  /\ Create(p)
  /\ Goto(p, "acquire")
  /\ UNCHANGED <<key, mode>>

\* getOrSet: look again under the write lock, and create the lock of the key
\* unless another call has.
Insert(p) ==
  /\ pc[p] = "insert"
  /\ \/ /\ mutexMap[key[p]] # None
        /\ mutex' = [mutex EXCEPT ![p] = mutexMap[key[p]]]
        /\ UNCHANGED <<mapVars, lockVars>>
     \/ /\ mutexMap[key[p]] = None
        /\ Create(p)
  /\ Goto(p, "acquire")
  /\ UNCHANGED <<key, mode>>

\* sync: a Lock first keeps other writers out and new readers waiting ...
Announce(p) ==
  /\ pc[p] = "acquire" /\ mode[p] = "w"
  /\ writer[mutex[p]] = None
  /\ writer' = [writer EXCEPT ![mutex[p]] = p]
  /\ Goto(p, "drain")
  /\ UNCHANGED <<mapVars, readers, callVars>>

\* ... and has the lock once the readers that were there have left.
Drain(p) ==
  /\ pc[p] = "drain"
  /\ readers[mutex[p]] = {}
  /\ Goto(p, "held")
  /\ UNCHANGED <<mapVars, lockVars, callVars>>

\* sync: an RLock succeeds at once unless a writer has announced itself.
AcquireRead(p) ==
  /\ pc[p] = "acquire" /\ mode[p] = "r"
  /\ \/ /\ writer[mutex[p]] = None
        /\ readers' = [readers EXCEPT ![mutex[p]] = @ \cup {p}]
        /\ Goto(p, "held")
     \/ /\ writer[mutex[p]] # None
        /\ Goto(p, "parked")
        /\ UNCHANGED readers
  /\ UNCHANGED <<mapVars, writer, callVars>>

----------------------------------------------------------------------------
(* Unlock(key), RUnlock(key) *)

\* get: the lock is looked up again.
Find(p) ==
  /\ pc[p] = "held"
  /\ mutex' = [mutex EXCEPT ![p] = mutexMap[key[p]]]
  /\ Goto(p, IF mutexMap[key[p]] = None THEN "idle" ELSE "unlock")
  /\ UNCHANGED <<mapVars, lockVars, key, mode>>

\* sync: an Unlock lets in every reader that parked meanwhile.
Unlock(p) ==
  /\ pc[p] = "unlock" /\ mode[p] = "w"
  /\ LET parked == {q \in Procs : pc[q] = "parked" /\ mutex[q] = mutex[p]}
     IN  /\ readers' = [readers EXCEPT ![mutex[p]] = @ \cup parked]
         /\ pc' = [q \in Procs |->
                     IF q = p THEN "idle" ELSE IF q \in parked THEN "held" ELSE pc[q]]
  /\ writer' = [writer EXCEPT ![mutex[p]] = None]
  /\ UNCHANGED <<mapVars, callVars>>

RUnlock(p) ==
  /\ pc[p] = "unlock" /\ mode[p] = "r"
  /\ readers' = [readers EXCEPT ![mutex[p]] = @ \ {p}]
  /\ Goto(p, "idle")
  /\ UNCHANGED <<mapVars, writer, callVars>>

Locking(p) == Look(p) \/ Insert(p) \/ Announce(p) \/ Drain(p) \/ AcquireRead(p)
Unlocking(p) == Unlock(p) \/ RUnlock(p)

Next == \E p \in Procs : Call(p) \/ Locking(p) \/ Find(p) \/ Unlocking(p)

Spec == Init /\ [][Next]_vars

\* Goroutines that can run do.  Nobody is obliged to call, nor to unlock.
Fairness == \A p \in Procs : WF_vars(Locking(p)) /\ WF_vars(Unlocking(p))

FairSpec == Spec /\ Fairness

----------------------------------------------------------------------------
Working(p) == pc[p] \in {"held", "unlock"}
Waiting(p) == pc[p] \in {"look", "insert", "acquire", "drain", "parked"}

TypeOK ==
  /\ made \in Nat
  /\ mutexMap \in [Keys -> 1 .. made \cup {None}]
  /\ writer \in [1 .. made -> Procs \cup {None}]
  /\ readers \in [1 .. made -> SUBSET Procs]
  /\ pc \in [Procs -> PCs]
  /\ key \in [Procs -> Keys]
  /\ mode \in [Procs -> Modes]
  /\ mutex \in [Procs -> 1 .. made \cup {None}]

\* mutexmap_test.go counts on it: whoever has locked a key for writing is alone
\* with it, however many calls created the key's lock at the same time.
Exclusion ==
  \A p, q \in Procs :
    p # q /\ Working(p) /\ Working(q) /\ key[p] = key[q] =>
      mode[p] = "r" /\ mode[q] = "r"

\* Unlock frees what Lock took: the lock found again is held by the caller, so
\* sync never reports an unlock of an unlocked mutex and no lock stays taken.
UnlockFreesOwn ==
  \A p \in Procs : pc[p] = "unlock" =>
    IF mode[p] = "w" THEN writer[mutex[p]] = p ELSE p \in readers[mutex[p]]

\* Keys are independent: a call waits for ever only if somebody holds, and does
\* not unlock, the very key it asked for.
Independence ==
  \A p \in Procs :
    Waiting(p) ~> (~Waiting(p) \/ \E q \in Procs : pc[q] = "held" /\ key[q] = key[p])

----------------------------------------------------------------------------
(* What the users of the map see: a set of holders per key. *)

Holders(k, m) == {p \in Procs : Working(p) /\ key[p] = k /\ mode[p] = m}

KeyLocks == INSTANCE KeyedLocks WITH
  writers <- [k \in Keys |-> Holders(k, "w")],
  sharers <- [k \in Keys |-> Holders(k, "r")]

\* The map of locks implements a lock per key that exists from the start.
ImplementsKeyedLocks == KeyLocks!Spec
=============================================================================
