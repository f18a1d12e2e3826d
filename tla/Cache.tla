------------------------------- MODULE Cache -------------------------------
(***************************************************************************)
(* library/cache: a map behind a readers-writer lock, some of whose        *)
(* operations call a function of their caller, with the lock or without.   *)
(*                                                                         *)
(* Each thread performs one operation.  A value is known by the thread     *)
(* that made it and those that have updated it since.  A critical section  *)
(* that calls nothing is one action, possible when no callback runs with   *)
(* the lock; one that calls fn is two, and owner has the lock in between.  *)
(***************************************************************************)
EXTENDS FiniteSets

CONSTANTS
  Threads, Keys,
  Ops,          \* the operations the threads may perform
  FnMayPanic,   \* whether callbacks may panic (and a caller recover)
  None

ASSUME OpsAssumption ==
  Ops \subseteq {"Set", "Get", "Update", "UpdateOrSet", "GetOrSet", "GetOrSetLock", "Delete"}
ASSUME FnMayPanicAssumption == FnMayPanic \in BOOLEAN

VARIABLES
  valueMap,   \* None where a key is absent
  owner,      \* the thread whose callback runs with c.m locked
  pc, op, key,
  val         \* the local variables v and current; the value returned in the end

vars == <<valueMap, owner, pc, op, key, val>>

Value == [by : Threads, ups : SUBSET Threads]

\* What stands for no value and for no thread is neither.
ASSUME NoneAssumption == None \notin Threads \cup Value

Made(t) == [by |-> t, ups |-> {}]
Updated(v, t) == [v EXCEPT !.ups = @ \cup {t}]

Here(t) == valueMap[key[t]]
Put(t, v) == valueMap' = [valueMap EXCEPT ![key[t]] = v]
Goto(t, label) == pc' = [pc EXCEPT ![t] = label]
Hold(t, v) == val' = [val EXCEPT ![t] = v]

Init ==
  /\ valueMap = [k \in Keys |-> None]
  /\ owner = None
  /\ pc = [t \in Threads |-> "start"]
  /\ op \in [Threads -> Ops]
  /\ key \in [Threads -> Keys]
  /\ val = [t \in Threads |-> None]

\* Thread t is at this place of this operation.
At(t, name, label) == op[t] = name /\ pc[t] = label

\* Set, called by users and by GetOrSet.
Set(t) ==
  /\ owner = None
  /\ \/ At(t, "Set", "start") /\ Put(t, Made(t)) /\ Hold(t, Made(t))
     \/ At(t, "GetOrSet", "store") /\ Put(t, val[t]) /\ UNCHANGED val
  /\ Goto(t, "done")
  /\ UNCHANGED <<owner, op, key>>

\* Get, and the look-up under the read lock that GetOrSet and GetOrSetLock
\* begin with.
Get(t) ==
  /\ op[t] \in {"Get", "GetOrSet", "GetOrSetLock"} /\ pc[t] = "start"
  /\ owner = None
  /\ Hold(t, Here(t))
  /\ Goto(t, IF Here(t) # None \/ op[t] = "Get" THEN "done"
             ELSE IF op[t] = "GetOrSet" THEN "compute" ELSE "again")
  /\ UNCHANGED <<valueMap, owner, op, key>>

Delete(t) ==
  /\ At(t, "Delete", "start")
  /\ owner = None
  /\ Hold(t, Here(t))
  /\ Put(t, None)
  /\ Goto(t, "done")
  /\ UNCHANGED <<owner, op, key>>

\* Looking again under the lock leaves nothing to compute or to update.
NotLookedAgain(t) == op[t] = "Update" /\ Here(t) = None
NothingToDo(t) ==
  \/ op[t] = "Update" /\ Here(t) = None
  \/ op[t] = "GetOrSetLock" /\ Here(t) # None

ReleaseEarly(t) == UNCHANGED owner
Keep(t) == owner' = t

\* Lock and look the key up; return, or keep the lock and call fn.
Lock(t) ==
  /\ At(t, "Update", "start") \/ At(t, "UpdateOrSet", "start") \/ At(t, "GetOrSetLock", "again")
  /\ owner = None
  /\ Hold(t, Here(t))
  /\ \/ NothingToDo(t) /\ Goto(t, "done") /\ UNCHANGED owner
     \/ ~NothingToDo(t) /\ Goto(t, "fn") /\ Keep(t)
  /\ UNCHANGED <<valueMap, op, key>>

\* fn has returned a value: store it and unlock.
Store(t) ==
  /\ pc[t] = "fn"
  /\ LET v == IF val[t] # None /\ op[t] \in {"Update", "UpdateOrSet"}
              THEN Updated(val[t], t) ELSE Made(t)
     IN  Put(t, v) /\ Hold(t, v)
  /\ owner' = None
  /\ Goto(t, "done")
  /\ UNCHANGED <<op, key>>

FailLocked(t) ==
  /\ pc[t] = "fn" /\ op[t] = "GetOrSetLock"
  /\ Goto(t, "failed")
  /\ UNCHANGED <<valueMap, owner, op, key, val>>

\* fn has returned an error to GetOrSetLock: unlock and return it.
Fail(t) ==
  /\ pc[t] = "fn" /\ op[t] = "GetOrSetLock"
  /\ owner' = None
  /\ Goto(t, "failed")
  /\ UNCHANGED <<valueMap, op, key, val>>

\* GetOrSet calls fn without the lock.
Compute(t) ==
  /\ pc[t] = "compute"
  /\ \/ Hold(t, Made(t)) /\ Goto(t, "store")
     \/ UNCHANGED val /\ Goto(t, "failed")
  /\ UNCHANGED <<valueMap, owner, op, key>>

\* fn panics.  No Unlock is deferred, so the cache stays locked if it was.
Panic(t) ==
  /\ FnMayPanic
  /\ pc[t] \in {"fn", "compute"}
  /\ Goto(t, "panicked")
  /\ UNCHANGED <<valueMap, owner, op, key, val>>

Step(t) ==
  \/ Set(t) \/ Get(t) \/ Delete(t) \/ Lock(t) \/ Store(t) \/ Fail(t) \/ Compute(t)
  \/ Panic(t)

Next == \E t \in Threads : Step(t)

Spec == Init /\ [][Next]_vars

----------------------------------------------------------------------------
TypeOK ==
  /\ valueMap \in [Keys -> Value \cup {None}]
  /\ owner \in Threads \cup {None}
  /\ pc \in [Threads -> {"start", "again", "fn", "compute", "store", "done", "failed",
                         "panicked"}]
  /\ op \in [Threads -> Ops]
  /\ key \in [Threads -> Keys]
  /\ val \in [Threads -> Value \cup {None}]

\* "c is locked while fn runs" (cache.go:62): callbacks under the lock run one
\* at a time, and the entry they were given does not change meanwhile.
CallbackAlone ==
  \A t \in Threads : pc[t] = "fn" =>
    /\ valueMap[key[t]] = val[t]
    /\ \A u \in Threads : pc[u] = "fn" => u = t

\* No update is lost: an entry only grows, except by the operations that are
\* there to replace or remove it.  Neither Update nor UpdateOrSet nor
\* GetOrSetLock discards what another thread has stored.
NothingLost ==
  \A k \in Keys :
    \/ valueMap[k] = None
    \/ valueMap'[k] # None /\ valueMap'[k].by = valueMap[k].by
                           /\ valueMap[k].ups \subseteq valueMap'[k].ups
    \/ \E t \in Threads : /\ key[t] = k /\ pc[t] # pc'[t]
                          /\ op[t] \in {"Set", "Delete", "GetOrSet"}

\* NothingLost of every step.
NoLostUpdate == [][NothingLost]_vars

\* All the callers of GetOrSetLock get the one value that was computed, as long
\* as nobody removes or replaces it; a failed computation is tried again.
ComputedOnce ==
  \A t, u \in Threads :
    /\ At(t, "GetOrSetLock", "done") /\ At(u, "GetOrSetLock", "done")
    /\ key[t] = key[u]
    /\ \A w \in Threads : key[w] = key[t] => op[w] \notin {"Set", "Delete", "GetOrSet"}
    => val[t].by = val[u].by

\* Every operation returns, whatever the callbacks return; only a panic of one
\* leaves others waiting.
EveryOpReturns ==
  <>(\A t \in Threads : pc[t] \in {"done", "failed"} \/ \E u \in Threads : pc[u] = "panicked")

\* Under the lock callbacks run one by one, and what is there is not computed again.
CacheInv == TypeOK /\ CallbackAlone /\ ComputedOnce
=============================================================================
