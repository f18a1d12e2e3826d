----------------------------- MODULE BTreeMutex -----------------------------
(***************************************************************************)
(* library/btreemutex: a map of B-trees, each behind a readers-writer lock *)
(* and filled by initFunc when its key is first asked for.                 *)
(*                                                                         *)
(* Each thread calls GetOrInit for a key and, given a tree, performs one   *)
(* operation on it.  Sections that do not call their caller's code are one *)
(* action; initFunc, a bulk insertion and a scan take a step per item.     *)
(***************************************************************************)
EXTENDS Integers, Sequences, FiniteSets

CONSTANTS
  Threads, Keys,
  Items,         \* the items, ordered as integers by less
  InitItems,     \* what initFunc inserts
  InitMayFail,   \* whether initFunc may return an error
  None

ASSUME ItemsAssumption == Items \subseteq Int /\ IsFiniteSet(Items)
ASSUME InitItemsAssumption == InitItems \subseteq Items
ASSUME InitMayFailAssumption == InitMayFail \in BOOLEAN
ASSUME NoneAssumption == None \notin Threads /\ \A S \in SUBSET Items : None # S

VARIABLES
  treeMap,   \* the tree of each key: 0 before it is made
  made,      \* trees are numbered from 1
  content,   \* content[m]: the items of tree m, None while its bTree is nil
  writer,    \* writer[m]: the thread in a long section under m's write lock
  readers,   \* readers[m]: the threads scanning under m's read lock
  pc, key,
  tree,      \* the tree a thread has found
  todo,      \* the items initFunc or a bulk insertion has yet to insert
  scan,      \* the range of a scan and its direction
  visited,   \* the items passed to the iterator
  removed,   \* history: the items users have deleted, by tree and item
  inits      \* history: how often initFunc has been called for each key

mapVars  == <<treeMap, made>>
treeVars == <<content, writer, readers, removed, inits>>
locals   == <<tree, todo, scan, visited>>
vars     == <<mapVars, treeVars, pc, key, locals>>

Goto(t, label) == pc' = [pc EXCEPT ![t] = label]

Scans == [items : {{i \in Items : lo <= i /\ i <= hi} : lo, hi \in Items}, up : BOOLEAN]

Init ==
  /\ treeMap = [k \in Keys |-> 0]
  /\ made = 0
  /\ content = <<>> /\ writer = <<>> /\ readers = <<>> /\ removed = {}
  /\ inits = [k \in Keys |-> 0]
  /\ pc = [t \in Threads |-> "look"]
  /\ key \in [Threads -> Keys]
  /\ tree = [t \in Threads |-> 0]
  /\ todo = [t \in Threads |-> {}]
  /\ scan = [t \in Threads |-> [items |-> {}, up |-> TRUE]]
  /\ visited = [t \in Threads |-> <<>>]

Of(t) == tree[t]
Free(t) == writer[Of(t)] = None
Alone(t) == Free(t) /\ readers[Of(t)] = {}
\* A long section keeps the write lock until its Unlock.
NoWriteLock(t) == UNCHANGED writer
KeepWriteLock(t) == writer' = [writer EXCEPT ![Of(t)] = t]
Fill(t, S) == content' = [content EXCEPT ![Of(t)] = S]

----------------------------------------------------------------------------
(* GetOrInit *)

\* getOrSet: look up under the read lock of the map.
Look(t) ==
  /\ pc[t] = "look"
  /\ tree' = [tree EXCEPT ![t] = treeMap[key[t]]]
  /\ Goto(t, IF treeMap[key[t]] = 0 THEN "insert" ELSE "enter")
  /\ UNCHANGED <<mapVars, treeVars, key, todo, scan, visited>>

NotLookedAgain(t) == FALSE
Present(t) == treeMap[key[t]] # 0

NewTree == made + 1
WithNew(f, e) == [m \in 1 .. NewTree |-> IF m = NewTree THEN e ELSE f[m]]

\* getOrSet: look again under the write lock, and make the tree unless present.
Insert(t) ==
  /\ pc[t] = "insert"
  /\ \/ /\ Present(t)
        /\ tree' = [tree EXCEPT ![t] = treeMap[key[t]]]
        /\ UNCHANGED <<mapVars, treeVars>>
     \/ /\ ~Present(t)
        /\ made' = NewTree
        /\ treeMap' = [treeMap EXCEPT ![key[t]] = made']
        /\ tree' = [tree EXCEPT ![t] = made']
        /\ content' = WithNew(content, None)
        /\ writer' = WithNew(writer, None)
        /\ readers' = WithNew(readers, {})
        /\ UNCHANGED <<removed, inits>>
  /\ Goto(t, "enter")
  /\ UNCHANGED <<key, todo, scan, visited>>

\* Lock the tree; when its bTree is nil, make it and call initFunc.
Enter(t) ==
  /\ pc[t] = "enter"
  /\ Alone(t)
  /\ \/ /\ content[Of(t)] # None
        /\ Goto(t, "ready")
        /\ UNCHANGED <<content, writer, todo, inits>>
     \/ /\ content[Of(t)] = None
        /\ Fill(t, {})
        /\ KeepWriteLock(t)
        /\ todo' = [todo EXCEPT ![t] = InitItems]
        /\ inits' = [inits EXCEPT ![key[t]] = @ + 1]
        /\ Goto(t, "init")
  /\ UNCHANGED <<mapVars, readers, removed, key, tree, scan, visited>>

\* One item of initFunc or of BulkReplaceOrInsert.
InsertNext(t) ==
  /\ pc[t] \in {"init", "bulk"}
  /\ \E i \in todo[t] :
       /\ todo' = [todo EXCEPT ![t] = @ \ {i}]
       /\ Fill(t, content[Of(t)] \cup {i})
  /\ UNCHANGED <<mapVars, writer, readers, removed, inits, pc, key, tree, scan, visited>>

\* The last item is in: unlock.
Unlock(t) ==
  /\ pc[t] \in {"init", "bulk"}
  /\ todo[t] = {}
  /\ writer' = [writer EXCEPT ![Of(t)] = None]
  /\ Goto(t, IF pc[t] = "init" THEN "ready" ELSE "done")
  /\ UNCHANGED <<mapVars, content, readers, removed, inits, key, locals>>

\* initFunc returns an error: unlock and return it.  The tree stays as it is.
InitFails(t) ==
  /\ InitMayFail
  /\ pc[t] = "init"
  /\ writer' = [writer EXCEPT ![Of(t)] = None]
  /\ Goto(t, "failed")
  /\ UNCHANGED <<mapVars, content, readers, removed, inits, key, locals>>

----------------------------------------------------------------------------
(* Operations on a tree. *)

\* Get and ReplaceOrInsert
Get(t) ==
  /\ pc[t] = "ready"
  /\ Free(t)
  /\ Goto(t, "done")
  /\ UNCHANGED <<mapVars, treeVars, key, locals>>

ReplaceOrInsert(t) ==
  /\ pc[t] = "ready"
  /\ Alone(t)
  /\ \E i \in Items : Fill(t, content[Of(t)] \cup {i})
  /\ Goto(t, "done")
  /\ UNCHANGED <<mapVars, writer, readers, removed, inits, key, locals>>

Delete(t) ==
  /\ pc[t] = "ready"
  /\ Alone(t)
  /\ \E i \in content[Of(t)] :
       /\ Fill(t, content[Of(t)] \ {i})
       /\ removed' = removed \cup {<<Of(t), i>>}
  /\ Goto(t, "done")
  /\ UNCHANGED <<mapVars, writer, readers, inits, key, locals>>

\* BulkReplaceOrInsert takes the lock once for all its items.
BulkReplaceOrInsert(t) ==
  /\ pc[t] = "ready"
  /\ Alone(t)
  /\ \E S \in SUBSET Items : Cardinality(S) = 2 /\ todo' = [todo EXCEPT ![t] = S]
  /\ KeepWriteLock(t)
  /\ Goto(t, "bulk")
  /\ UNCHANGED <<mapVars, content, readers, removed, inits, key, tree, scan, visited>>

\* Ascend, AscendRange, Descend, DescendRange
Scan(t) ==
  /\ pc[t] = "ready"
  /\ Free(t)
  /\ readers' = [readers EXCEPT ![Of(t)] = @ \cup {t}]
  /\ \E s \in Scans : scan' = [scan EXCEPT ![t] = s]
  /\ Goto(t, "scan")
  /\ UNCHANGED <<mapVars, content, writer, removed, inits, key, tree, todo, visited>>

InRange(t) == content[Of(t)] \cap scan[t].items
Before(t, i, j) == IF scan[t].up THEN i < j ELSE j < i

\* What the scan has yet to come to: the items after those it has visited.
Ahead(t) ==
  {i \in InRange(t) : \A n \in 1 .. Len(visited[t]) : Before(t, visited[t][n], i)}

\* The iterator is passed the next item in order.
Visit(t) ==
  /\ pc[t] = "scan"
  /\ \E i \in Ahead(t) :
       /\ \A j \in Ahead(t) : ~Before(t, j, i)
       /\ visited' = [visited EXCEPT ![t] = Append(@, i)]
  /\ UNCHANGED <<mapVars, treeVars, pc, key, tree, todo, scan>>

\* The iterator has asked to stop, or the range is exhausted: unlock.
StopScan(t) ==
  /\ pc[t] = "scan"
  /\ readers' = [readers EXCEPT ![Of(t)] = @ \ {t}]
  /\ Goto(t, "done")
  /\ UNCHANGED <<mapVars, content, writer, removed, inits, key, locals>>

Step(t) ==
  \/ Look(t) \/ Insert(t) \/ Enter(t) \/ InsertNext(t) \/ Unlock(t) \/ InitFails(t)
  \/ Get(t) \/ ReplaceOrInsert(t) \/ Delete(t) \/ BulkReplaceOrInsert(t)
  \/ Scan(t) \/ Visit(t) \/ StopScan(t)

Next == \E t \in Threads : Step(t)

Spec == Init /\ [][Next]_vars

----------------------------------------------------------------------------
TypeOK ==
  /\ made \in Nat
  /\ treeMap \in [Keys -> 0 .. made]
  /\ content \in [1 .. made -> {None} \cup SUBSET Items]
  /\ writer \in [1 .. made -> Threads \cup {None}]
  /\ readers \in [1 .. made -> SUBSET Threads]
  /\ removed \subseteq (1 .. made) \X Items
  /\ inits \in [Keys -> Nat]
  /\ pc \in [Threads -> {"look", "insert", "enter", "init", "ready", "bulk", "scan", "done",
                         "failed"}]
  /\ key \in [Threads -> Keys]
  /\ tree \in [Threads -> 0 .. made]
  /\ todo \in [Threads -> SUBSET Items]
  /\ scan \in [Threads -> [items : SUBSET Items, up : BOOLEAN]]
  /\ visited \in [Threads -> Seq(Items)]

\* btreemutex_test.go:55: initFunc is called once for a key, however many
\* callers ask for it first at the same time.
InitOnce == \A k \in Keys : inits[k] <= 1

\* Every caller works on the one tree of its key: what it inserts is not lost in
\* a tree that nobody will find again.
OneTree == \A t \in Threads : pc[t] \notin {"look", "insert"} => tree[t] = treeMap[key[t]]

\* What a scan has visited so far is the beginning of what the tree holds, in
\* order and with nothing left out: nothing is inserted or removed behind its
\* back, and no scan runs in the middle of an initialisation or a bulk insertion.
Beginning(t) ==
  LET Passed == DOMAIN visited[t]
  IN  /\ \A n \in Passed : visited[t][n] \in InRange(t)
      /\ \A m, n \in Passed : m < n => Before(t, visited[t][m], visited[t][n])
      /\ \A i \in InRange(t) : \/ \E n \in Passed : visited[t][n] = i
                              \/ \A n \in Passed : Before(t, visited[t][n], i)

\* So it is with every scan.
ScanIsSnapshot ==
  \A t \in Threads : pc[t] = "scan" =>
    /\ Beginning(t)
    /\ \A u \in Threads : pc[u] \in {"init", "bulk"} => tree[u] # tree[t]

\* btreemutex_test.go:63-66: a tree that GetOrInit returns without an error holds
\* the items of initFunc, but for those deleted since.
HoldsInitItems ==
  \A t \in Threads : pc[t] = "ready" =>
    \A i \in InitItems : i \in content[Of(t)] \/ <<Of(t), i>> \in removed

\* One tree for each key, filled once, whoever asks first.
TreesInv == TypeOK /\ InitOnce /\ OneTree
=============================================================================
