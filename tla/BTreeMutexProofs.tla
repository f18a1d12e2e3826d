-------------------------- MODULE BTreeMutexProofs --------------------------
(***************************************************************************)
(* Proofs about BTreeMutex, for any number of threads, keys and items, and *)
(* whether initFunc may fail or not.                                       *)
(***************************************************************************)
EXTENDS BTreeMutex, SequenceTheorems, TLAPS

Found(t) == pc[t] \notin {"look", "insert"}

\* A thread that has found a tree has found the tree that its key has now.
TreeFound ==
  \A t \in Threads : Found(t) => tree[t] \in 1 .. made /\ tree[t] = treeMap[key[t]]

\* Whoever works on a tree works on one that has been made; initFunc has not
\* been called for a key without a tree, or whose tree's bTree is nil.
TreesFilled ==
  /\ \A t \in Threads : pc[t] \in {"init", "ready", "bulk", "scan"} => content[tree[t]] # None
  /\ \A k \in Keys : treeMap[k] = 0 \/ content[treeMap[k]] = None => inits[k] = 0

\* Who is in a long section has the lock it takes, and writers exclude readers.
LongSections ==
  /\ \A t \in Threads : /\ pc[t] \in {"init", "bulk"} => writer[tree[t]] = t
                        /\ pc[t] = "scan" => t \in readers[tree[t]]
  /\ \A m \in 1 .. made : writer[m] # None => readers[m] = {}

\* Scans have visited a beginning of what their tree holds, and nothing at first.
ScansBegin ==
  \A t \in Threads : /\ pc[t] = "scan" => Beginning(t)
                     /\ pc[t] \notin {"scan", "done"} => visited[t] = <<>>

TreesIInv ==
  TypeOK /\ InitOnce /\ TreeFound /\ TreesFilled /\ LongSections /\ ScansBegin

----------------------------------------------------------------------------
(* Trees and their variables. *)

\* In the first state there are no trees.
LEMMA TreesInit == Init => TreesIInv
<1> SUFFICES ASSUME Init PROVE TreesIInv
  OBVIOUS
<1>1. TypeOK
  BY DEF Init, TypeOK
<1> QED
  BY <1>1 DEF Init, TreesIInv, InitOnce, TreeFound, Found, TreesFilled, LongSections, ScansBegin

\* The new tree of a key is empty, unlocked and nobody else's.
LEMMA MakeTree ==
  ASSUME TreesIInv, NEW t \in Threads, Insert(t), ~Present(t)
  PROVE  /\ TypeOK'
         /\ made' = made + 1 /\ made \in Nat
         /\ \A m \in 1 .. made : /\ content'[m] = content[m] /\ writer'[m] = writer[m]
                                 /\ readers'[m] = readers[m]
         /\ content'[made'] = None /\ writer'[made'] = None /\ readers'[made'] = {}
<1>0. TypeOK
  BY DEF TreesIInv
<1>1. /\ made' = made + 1 /\ made \in Nat
      /\ treeMap' = [treeMap EXCEPT ![key[t]] = made'] /\ tree' = [tree EXCEPT ![t] = made']
      /\ content' = WithNew(content, None) /\ writer' = WithNew(writer, None)
      /\ readers' = WithNew(readers, {})
      /\ pc' = [pc EXCEPT ![t] = "enter"]
      /\ UNCHANGED <<removed, inits, key, todo, scan, visited>>
  BY <1>0 DEF Insert, TypeOK, Present, NewTree, mapVars, treeVars, Goto
<1>2. /\ content' \in [1 .. made' -> {None} \cup SUBSET Items]
      /\ \A m \in 1 .. made : content'[m] = content[m]
      /\ content'[made'] = None
  BY <1>0, <1>1 DEF TypeOK, WithNew, NewTree
<1>3. /\ writer' \in [1 .. made' -> Threads \cup {None}]
      /\ \A m \in 1 .. made : writer'[m] = writer[m]
      /\ writer'[made'] = None
  BY <1>0, <1>1 DEF TypeOK, WithNew, NewTree
<1>4. /\ readers' \in [1 .. made' -> SUBSET Threads]
      /\ \A m \in 1 .. made : readers'[m] = readers[m]
      /\ readers'[made'] = {}
  BY <1>0, <1>1 DEF TypeOK, WithNew, NewTree
<1>5. 1 .. made \subseteq 1 .. made' /\ 0 .. made \subseteq 0 .. made' /\ made' \in 0 .. made'
  BY <1>1
<1>6. treeMap' \in [Keys -> 0 .. made'] /\ tree' \in [Threads -> 0 .. made']
  BY <1>0, <1>1, <1>5 DEF TypeOK
<1>7. removed' \subseteq (1 .. made') \X Items
  BY <1>0, <1>1, <1>5 DEF TypeOK
<1>8. TypeOK'
  BY <1>0, <1>1, <1>2, <1>3, <1>4, <1>6, <1>7 DEF TypeOK
<1> QED
  BY <1>1, <1>2, <1>3, <1>4, <1>8

\* Who inserts or deletes an item does so in a tree that has been made.
LEMMA FillsItems ==
  ASSUME TreesIInv, NEW t \in Threads, InsertNext(t) \/ ReplaceOrInsert(t) \/ Delete(t)
  PROVE  /\ tree[t] \in 1 .. made
         /\ \E S \in SUBSET Items : content' = [content EXCEPT ![tree[t]] = S]
<1>0. TypeOK
  BY DEF TreesIInv
<1>1. pc[t] \in {"init", "ready", "bulk"}
  BY DEF InsertNext, ReplaceOrInsert, Delete
<1>2. tree[t] \in 1 .. made /\ content[tree[t]] \subseteq Items
  BY <1>0, <1>1 DEF TypeOK, TreesIInv, TreeFound, TreesFilled, Found
<1>3. todo[t] \subseteq Items
  BY <1>0 DEF TypeOK
<1>4. \/ \E i \in Items : content' = [content EXCEPT ![tree[t]] = content[tree[t]] \cup {i}]
      \/ \E i \in Items : content' = [content EXCEPT ![tree[t]] = content[tree[t]] \ {i}]
  BY <1>2, <1>3 DEF InsertNext, ReplaceOrInsert, Delete, Fill, Of
<1> QED
  BY <1>2, <1>4

\* A scan's next item extends what it has visited.
LEMMA VisitAppends ==
  ASSUME TypeOK, NEW t \in Threads, NEW i \in Items
  PROVE  /\ Append(visited[t], i) \in Seq(Items)
         /\ Len(Append(visited[t], i)) = Len(visited[t]) + 1 /\ Len(visited[t]) \in Nat
         /\ \A n \in 1 .. Len(visited[t]) : Append(visited[t], i)[n] = visited[t][n]
         /\ Append(visited[t], i)[Len(visited[t]) + 1] = i
<1>1. visited[t] \in Seq(Items)
  BY DEF TypeOK
<1> QED
  BY <1>1, AppendProperties

\* Every step keeps the types.
LEMMA TypeNext == TreesIInv /\ [Next]_vars => TypeOK'
<1> SUFFICES ASSUME TreesIInv, [Next]_vars PROVE TypeOK'
  OBVIOUS
<1>0. TypeOK
  BY DEF TreesIInv
<1> USE DEF Goto, Fill, Of, KeepWriteLock, mapVars, treeVars, locals
<1>1. ASSUME NEW t \in Threads, Look(t) PROVE TypeOK'
  BY <1>0, <1>1 DEF TypeOK, Look
<1>2. ASSUME NEW t \in Threads, Insert(t) PROVE TypeOK'
  <2>1. CASE Present(t)
    BY <1>0, <1>2, <2>1 DEF TypeOK, Insert
  <2> QED
    BY <1>2, <2>1, MakeTree
<1>3. ASSUME NEW t \in Threads, Enter(t) PROVE TypeOK'
  <2>1. CASE content[tree[t]] # None
    BY ZenonT(120), <1>0, <1>3, <2>1 DEF TypeOK, Enter
  <2>2. CASE content[tree[t]] = None
    <3>1. /\ content' = [content EXCEPT ![tree[t]] = {}]
          /\ writer' = [writer EXCEPT ![tree[t]] = t]
          /\ todo' = [todo EXCEPT ![t] = InitItems]
          /\ inits' = [inits EXCEPT ![key[t]] = @ + 1]
          /\ pc' = [pc EXCEPT ![t] = "init"]
          /\ UNCHANGED <<treeMap, made, readers, removed, key, tree, scan, visited>>
      BY <1>3, <2>2 DEF Enter
    <3>2. /\ content' \in [1 .. made -> {None} \cup SUBSET Items]
          /\ writer' \in [1 .. made -> Threads \cup {None}]
      BY <1>0, <3>1 DEF TypeOK
    <3>3. todo' \in [Threads -> SUBSET Items] /\ inits' \in [Keys -> Nat]
      BY <1>0, <3>1, InitItemsAssumption DEF TypeOK
    <3> QED
      BY <1>0, <3>1, <3>2, <3>3 DEF TypeOK
  <2> QED
    BY <2>1, <2>2
<1>4. ASSUME NEW t \in Threads, InsertNext(t) PROVE TypeOK'
  <2>1. PICK S \in SUBSET Items : content' = [content EXCEPT ![tree[t]] = S]
    BY <1>4, FillsItems
  <2>2. PICK i \in todo[t] : todo' = [todo EXCEPT ![t] = @ \ {i}]
    BY <1>4 DEF InsertNext
  <2>3. /\ content' \in [1 .. made -> {None} \cup SUBSET Items]
        /\ todo' \in [Threads -> SUBSET Items]
    BY <1>0, <2>1, <2>2 DEF TypeOK
  <2> QED
    BY <1>0, <1>4, <2>3 DEF TypeOK, InsertNext
<1>5. ASSUME NEW t \in Threads, Unlock(t) PROVE TypeOK'
  BY <1>0, <1>5 DEF TypeOK, Unlock
<1>6. ASSUME NEW t \in Threads, InitFails(t) PROVE TypeOK'
  BY <1>0, <1>6 DEF TypeOK, InitFails
<1>7. ASSUME NEW t \in Threads, Get(t) PROVE TypeOK'
  BY <1>0, <1>7 DEF TypeOK, Get
<1>8. ASSUME NEW t \in Threads, ReplaceOrInsert(t) PROVE TypeOK'
  <2>1. PICK S \in SUBSET Items : content' = [content EXCEPT ![tree[t]] = S]
    BY <1>8, FillsItems
  <2>2. content' \in [1 .. made -> {None} \cup SUBSET Items]
    BY <1>0, <2>1 DEF TypeOK
  <2> QED
    BY <1>0, <1>8, <2>2 DEF TypeOK, ReplaceOrInsert
<1>9. ASSUME NEW t \in Threads, Delete(t) PROVE TypeOK'
  <2>1. PICK S \in SUBSET Items : content' = [content EXCEPT ![tree[t]] = S]
    BY <1>9, FillsItems
  <2>2. content' \in [1 .. made -> {None} \cup SUBSET Items]
    BY <1>0, <2>1 DEF TypeOK
  <2>3. PICK i \in content[tree[t]] : removed' = removed \cup {<<tree[t], i>>}
    BY <1>9 DEF Delete
  <2>4. content[tree[t]] \subseteq Items /\ tree[t] \in 1 .. made
    BY <1>0, <1>9, FillsItems DEF TypeOK, Delete, TreesIInv, TreesFilled
  <2>5. removed' \subseteq (1 .. made) \X Items
    BY <1>0, <2>3, <2>4 DEF TypeOK
  <2> QED
    BY <1>0, <1>9, <2>2, <2>5 DEF TypeOK, Delete
<1>10. ASSUME NEW t \in Threads, BulkReplaceOrInsert(t) PROVE TypeOK'
  <2>1. PICK S \in SUBSET Items : todo' = [todo EXCEPT ![t] = S]
    BY <1>10 DEF BulkReplaceOrInsert
  <2>2. /\ writer' = [writer EXCEPT ![tree[t]] = t] /\ pc' = [pc EXCEPT ![t] = "bulk"]
        /\ UNCHANGED <<mapVars, content, readers, removed, inits, key, tree, scan, visited>>
    BY <1>10 DEF BulkReplaceOrInsert
  <2> QED
    BY <1>0, <2>1, <2>2 DEF TypeOK
<1>11. ASSUME NEW t \in Threads, Scan(t) PROVE TypeOK'
  <2>1. Scans \subseteq [items : SUBSET Items, up : BOOLEAN]
    BY DEF Scans
  <2>2. PICK s \in Scans : scan' = [scan EXCEPT ![t] = s]
    BY <1>11 DEF Scan
  <2>3. scan' \in [Threads -> [items : SUBSET Items, up : BOOLEAN]]
    BY <1>0, <2>1, <2>2 DEF TypeOK
  <2>4. /\ readers' = [readers EXCEPT ![tree[t]] = @ \cup {t}] /\ pc' = [pc EXCEPT ![t] = "scan"]
        /\ UNCHANGED <<mapVars, content, writer, removed, inits, key, tree, todo, visited>>
    BY <1>11 DEF Scan
  <2> QED
    BY <1>0, <2>3, <2>4 DEF TypeOK
<1>12. ASSUME NEW t \in Threads, Visit(t) PROVE TypeOK'
  <2>1. PICK i \in Ahead(t) : visited' = [visited EXCEPT ![t] = Append(visited[t], i)]
    BY <1>12 DEF Visit
  <2>2. i \in Items
    BY <1>0 DEF Ahead, InRange, TypeOK
  <2> QED
    BY <1>0, <1>12, <2>1, <2>2, VisitAppends DEF TypeOK, Visit
<1>13. ASSUME NEW t \in Threads, StopScan(t) PROVE TypeOK'
  BY <1>0, <1>13 DEF TypeOK, StopScan
<1>14. CASE UNCHANGED vars
  BY <1>0, <1>14 DEF TypeOK, vars
<1> QED
  BY <1>1, <1>2, <1>3, <1>4, <1>5, <1>6, <1>7, <1>8, <1>9, <1>10, <1>11, <1>12, <1>13, <1>14
     DEF Next, Step

----------------------------------------------------------------------------
(* One tree for each key, filled once. *)

\* Every step keeps the trees where they are: a thread that looks a key up finds
\* its tree, and one that makes a tree does so for a key that has none.
LEMMA TreeFoundNext == TreesIInv /\ [Next]_vars => TreeFound'
<1> SUFFICES ASSUME TreesIInv, [Next]_vars PROVE TreeFound'
  OBVIOUS
<1>0. TypeOK /\ TreeFound
  BY DEF TreesIInv
<1> USE DEF Goto, mapVars, treeVars, locals, TreeFound, Found
<1>1. ASSUME NEW t \in Threads, Look(t) PROVE TreeFound'
  BY <1>0, <1>1 DEF TypeOK, Look
<1>2. ASSUME NEW t \in Threads, Insert(t) PROVE TreeFound'
  <2>1. CASE Present(t)
    BY <1>0, <1>2, <2>1 DEF TypeOK, Insert, Present
  <2>2. CASE ~Present(t)
    <3>1. made' = made + 1 /\ made \in Nat /\ treeMap[key[t]] = 0
      BY <1>2, <2>2, MakeTree DEF Present
    <3>2. /\ treeMap' = [treeMap EXCEPT ![key[t]] = made']
          /\ tree' = [tree EXCEPT ![t] = made']
          /\ pc' = [pc EXCEPT ![t] = "enter"] /\ key' = key
      BY <1>2, <2>2 DEF Insert
    <3>3. \A u \in Threads : u # t /\ Found(u) => key[u] # key[t]
      BY <1>0, <3>1
    <3> QED
      BY <1>0, <3>1, <3>2, <3>3 DEF TypeOK
  <2> QED
    BY <2>1, <2>2
<1>3. ASSUME NEW t \in Threads, ~Look(t), ~Insert(t), Step(t) PROVE TreeFound'
  <2>1. UNCHANGED <<treeMap, made, tree, key>>
    BY <1>3 DEF Step, Enter, InsertNext, Unlock, InitFails, Get, ReplaceOrInsert, Delete,
                BulkReplaceOrInsert, Scan, Visit, StopScan
  <2>2. \A u \in Threads : Found(u)' => Found(u)
    BY <1>0, <1>3 DEF TypeOK, Step, Enter, InsertNext, Unlock, InitFails, Get, ReplaceOrInsert,
                      Delete, BulkReplaceOrInsert, Scan, Visit, StopScan
  <2> QED
    BY <1>0, <2>1, <2>2
<1>4. CASE UNCHANGED vars
  BY <1>0, <1>4 DEF vars
<1> QED
  BY <1>1, <1>2, <1>3, <1>4 DEF Next

\* Every step keeps the count of initialisations: only who finds a tree's bTree
\* nil calls initFunc, and leaves it filled.
LEMMA TreesFilledNext ==
  TreesIInv /\ TypeOK' /\ [Next]_vars => InitOnce' /\ TreesFilled'
<1> SUFFICES ASSUME TreesIInv, TypeOK', [Next]_vars PROVE InitOnce' /\ TreesFilled'
  OBVIOUS
<1>0. TypeOK /\ TypeOK' /\ TreeFound /\ TreesFilled /\ InitOnce
  BY DEF TreesIInv
<1> USE DEF Goto, Fill, Of, mapVars, treeVars, locals, InitOnce, TreesFilled
<1>1. ASSUME NEW t \in Threads, Look(t) PROVE InitOnce' /\ TreesFilled'
  BY <1>0, <1>1 DEF TypeOK, Look
<1>2. ASSUME NEW t \in Threads, Insert(t) PROVE InitOnce' /\ TreesFilled'
  <2>1. CASE Present(t)
    BY <1>0, <1>2, <2>1 DEF TypeOK, Insert
  <2>2. CASE ~Present(t)
    <3>1. /\ made' = made + 1 /\ made \in Nat /\ treeMap[key[t]] = 0
          /\ \A m \in 1 .. made : content'[m] = content[m]
      BY <1>2, <2>2, MakeTree DEF Present
    <3>2. /\ treeMap' = [treeMap EXCEPT ![key[t]] = made']
          /\ tree' = [tree EXCEPT ![t] = made']
          /\ pc' = [pc EXCEPT ![t] = "enter"] /\ UNCHANGED <<key, inits>>
      BY <1>2, <2>2 DEF Insert
    <3>3. ASSUME NEW u \in Threads, pc'[u] \in {"init", "ready", "bulk", "scan"}
          PROVE  content'[tree'[u]] # None
      <4>1. u # t /\ pc'[u] = pc[u] /\ tree'[u] = tree[u]
        BY <1>0, <3>2, <3>3 DEF TypeOK
      <4>2. tree[u] \in 1 .. made
        BY <1>0, <3>3, <4>1 DEF TreeFound, Found
      <4> QED
        BY <1>0, <3>1, <3>3, <4>1, <4>2
    <3>4. ASSUME NEW k \in Keys, treeMap'[k] = 0 \/ content'[treeMap'[k]] = None
          PROVE  inits'[k] = 0
      <4>1. CASE k = key[t]
        BY <1>0, <3>1, <3>2, <4>1
      <4>2. CASE k # key[t]
        <5>1. treeMap'[k] = treeMap[k] /\ treeMap[k] \in 0 .. made
          BY <1>0, <3>2, <4>2 DEF TypeOK
        <5> QED
          BY <1>0, <3>1, <3>2, <3>4, <5>1
      <4> QED
        BY <4>1, <4>2
    <3> QED
      BY <1>0, <3>2, <3>3, <3>4
  <2> QED
    BY <2>1, <2>2
<1>3. ASSUME NEW t \in Threads, Enter(t) PROVE InitOnce' /\ TreesFilled'
  <2>1. CASE content[tree[t]] # None
    BY <1>0, <1>3, <2>1 DEF TypeOK, Enter
  <2>2. CASE content[tree[t]] = None
    <3>1. /\ content' = [content EXCEPT ![tree[t]] = {}]
          /\ inits' = [inits EXCEPT ![key[t]] = @ + 1]
          /\ pc' = [pc EXCEPT ![t] = "init"] /\ pc[t] = "enter"
          /\ UNCHANGED <<treeMap, made, tree, key>>
      BY <1>3, <2>2 DEF Enter
    <3>2. /\ tree[t] \in 1 .. made /\ treeMap[key[t]] = tree[t] /\ inits[key[t]] = 0
          /\ made \in Nat /\ {} # None
      BY <1>0, <2>2, <3>1, NoneAssumption DEF TypeOK, TreeFound, Found
    <3>3. content'[tree[t]] = {} /\ \A m : m # tree[t] => content'[m] = content[m]
      BY <1>0, <3>1, <3>2 DEF TypeOK
    <3> QED
      BY <1>0, <3>1, <3>2, <3>3 DEF TypeOK
  <2> QED
    BY <2>1, <2>2
<1>4. ASSUME UNCHANGED <<treeMap, tree, inits>>,
             \A u \in Threads : pc'[u] \in {"init", "ready", "bulk", "scan"}
                                => pc[u] \in {"init", "ready", "bulk", "scan"},
             \/ content' = content
             \/ \E m \in 1 .. made, S \in SUBSET Items : content' = [content EXCEPT ![m] = S]
      PROVE  InitOnce' /\ TreesFilled'
  <2>1. \A m \in 1 .. made : content[m] # None => content'[m] # None
    BY <1>0, <1>4, NoneAssumption DEF TypeOK
  <2>2. \A u \in Threads : pc[u] \in {"init", "ready", "bulk", "scan"} => tree[u] \in 1 .. made
    BY <1>0 DEF TreeFound, Found
  <2>3. \A k \in Keys : treeMap[k] = 0 \/ treeMap[k] \in 1 .. made
    BY <1>0 DEF TypeOK
  <2> QED
    BY <1>0, <1>4, <2>1, <2>2, <2>3
<1>5. ASSUME NEW t \in Threads, ~Look(t), ~Insert(t), ~Enter(t), Step(t)
      PROVE InitOnce' /\ TreesFilled'
  <2>1. UNCHANGED <<treeMap, made, tree, inits>>
    BY <1>5 DEF Step, InsertNext, Unlock, InitFails, Get, ReplaceOrInsert, Delete,
                BulkReplaceOrInsert, Scan, Visit, StopScan
  <2>2. \A u \in Threads : pc'[u] \in {"init", "ready", "bulk", "scan"}
                           => pc[u] \in {"init", "ready", "bulk", "scan"}
    BY <1>0, <1>5 DEF TypeOK, Step, InsertNext, Unlock, InitFails, Get, ReplaceOrInsert,
                      Delete, BulkReplaceOrInsert, Scan, Visit, StopScan
  <2>3. \/ content' = content
        \/ \E m \in 1 .. made, S \in SUBSET Items : content' = [content EXCEPT ![m] = S]
    <3>1. CASE InsertNext(t) \/ ReplaceOrInsert(t) \/ Delete(t)
      BY <3>1, FillsItems
    <3>2. CASE ~(InsertNext(t) \/ ReplaceOrInsert(t) \/ Delete(t))
      BY <1>5, <3>2 DEF Step, Unlock, InitFails, Get, BulkReplaceOrInsert, Scan, Visit, StopScan
    <3> QED
      BY <3>1, <3>2
  <2> QED
    BY <1>4, <2>1, <2>2, <2>3
<1>6. CASE UNCHANGED vars
  BY <1>0, <1>6 DEF vars
<1> QED
  BY <1>1, <1>2, <1>3, <1>5, <1>6 DEF Next

----------------------------------------------------------------------------
(* Long sections and scans. *)

\* Every step keeps the locks to those who are in long sections.
LEMMA LongSectionsNext == TreesIInv /\ [Next]_vars => LongSections'
<1> SUFFICES ASSUME TreesIInv, [Next]_vars PROVE LongSections'
  OBVIOUS
<1>0. /\ TypeOK /\ TreeFound /\ LongSections
      /\ \A u \in Threads : None # u
      /\ \A u \in Threads : Found(u) => tree[u] \in 1 .. made
  BY NoneAssumption DEF TreesIInv, TreeFound
<1> USE DEF Goto, Of, Free, Alone, KeepWriteLock, mapVars, treeVars, locals, LongSections, Found
<1>1. ASSUME NEW t \in Threads, Insert(t) PROVE LongSections'
  <2>1. CASE Present(t)
    BY <1>0, <1>1, <2>1 DEF TypeOK, Insert
  <2>2. CASE ~Present(t)
    <3>1. /\ made' = made + 1 /\ made \in Nat
          /\ \A m \in 1 .. made : writer'[m] = writer[m] /\ readers'[m] = readers[m]
          /\ writer'[made'] = None /\ readers'[made'] = {}
      BY <1>1, <2>2, MakeTree
    <3>2. tree' = [tree EXCEPT ![t] = made'] /\ pc' = [pc EXCEPT ![t] = "enter"]
      BY <1>1, <2>2 DEF Insert
    <3>3. \A m \in 1 .. made' : m \in 1 .. made \/ m = made'
      BY <3>1
    <3>4. \A u \in Threads : pc'[u] \in {"init", "bulk", "scan"} =>
            u # t /\ pc'[u] = pc[u] /\ tree'[u] = tree[u] /\ tree[u] \in 1 .. made
      BY <1>0, <3>2 DEF TypeOK
    <3> QED
      BY <1>0, <3>1, <3>3, <3>4
  <2> QED
    BY <2>1, <2>2
<1>2. ASSUME NEW t \in Threads, pc'[t] \in {"init", "bulk"}, tree[t] \in 1 .. made,
             Alone(t), writer' = [writer EXCEPT ![tree[t]] = t],
             pc' = [pc EXCEPT ![t] = pc'[t]], UNCHANGED <<made, readers, tree>>
      PROVE  LongSections'
  <2>1. \A u \in Threads : u # t /\ pc[u] \in {"init", "bulk"} => tree[u] # tree[t]
    BY <1>0, <1>2
  <2> QED
    BY <1>0, <1>2, <2>1 DEF TypeOK
<1>3. ASSUME NEW t \in Threads, pc[t] \in {"init", "bulk"}, pc'[t] \in {"ready", "done", "failed"},
             tree[t] \in 1 .. made, writer' = [writer EXCEPT ![tree[t]] = None],
             pc' = [pc EXCEPT ![t] = pc'[t]], UNCHANGED <<made, readers, tree>>
      PROVE  LongSections'
  <2>1. \A u \in Threads : u # t /\ pc[u] \in {"init", "bulk"} => tree[u] # tree[t]
    BY <1>0, <1>3
  <2> QED
    BY <1>0, <1>3, <2>1 DEF TypeOK
<1>4. ASSUME NEW t \in Threads, Scan(t) PROVE LongSections'
  <2>1. /\ readers' = [readers EXCEPT ![tree[t]] = @ \cup {t}] /\ writer[tree[t]] = None
        /\ pc' = [pc EXCEPT ![t] = "scan"] /\ UNCHANGED <<made, writer, tree>>
        /\ tree[t] \in 1 .. made
    BY <1>0, <1>4 DEF Scan
  <2> QED
    BY <1>0, <2>1 DEF TypeOK
<1>5. ASSUME NEW t \in Threads, StopScan(t) PROVE LongSections'
  BY <1>0, <1>5 DEF TypeOK, StopScan
<1>6. ASSUME NEW t \in Threads, UNCHANGED <<made, writer, readers>>,
             \A u \in Threads : pc'[u] \in {"init", "bulk", "scan"} =>
                               pc'[u] = pc[u] /\ tree'[u] = tree[u]
      PROVE  LongSections'
  BY <1>0, <1>6
<1>7. ASSUME NEW t \in Threads, Enter(t) PROVE LongSections'
  <2>1. CASE content[tree[t]] # None
    BY SMTT(60), <1>0, <1>6, <1>7, <2>1 DEF TypeOK, Enter
  <2>2. CASE content[tree[t]] = None
    <3>1. /\ writer' = [writer EXCEPT ![tree[t]] = t] /\ pc' = [pc EXCEPT ![t] = "init"]
          /\ Alone(t) /\ tree[t] \in 1 .. made /\ UNCHANGED <<made, readers, tree>>
      BY <1>0, <1>7, <2>2 DEF Enter
    <3>2. pc'[t] = "init" /\ pc' = [pc EXCEPT ![t] = pc'[t]]
      BY <1>0, <3>1 DEF TypeOK
    <3> QED
      BY <1>2, <3>1, <3>2
  <2> QED
    BY <2>1, <2>2
<1>8. ASSUME NEW t \in Threads, BulkReplaceOrInsert(t) PROVE LongSections'
  <2>1. /\ writer' = [writer EXCEPT ![tree[t]] = t] /\ pc' = [pc EXCEPT ![t] = "bulk"]
        /\ Alone(t) /\ tree[t] \in 1 .. made /\ UNCHANGED <<made, readers, tree>>
    BY <1>0, <1>8 DEF BulkReplaceOrInsert
  <2>2. pc'[t] = "bulk" /\ pc' = [pc EXCEPT ![t] = pc'[t]]
    BY <1>0, <2>1 DEF TypeOK
  <2> QED
    BY <1>2, <2>1, <2>2
<1>9. ASSUME NEW t \in Threads, Unlock(t) PROVE LongSections'
  BY <1>0, <1>3, <1>9 DEF TypeOK, Unlock
<1>10. ASSUME NEW t \in Threads, InitFails(t) PROVE LongSections'
  BY <1>0, <1>3, <1>10 DEF TypeOK, InitFails
<1>11. ASSUME NEW t \in Threads,
              Look(t) \/ InsertNext(t) \/ Get(t) \/ ReplaceOrInsert(t) \/ Delete(t) \/ Visit(t)
       PROVE  LongSections'
  <2>1. /\ UNCHANGED <<made, writer, readers>>
        /\ pc'[t] \in {"init", "bulk", "scan"} => pc' = pc /\ tree' = tree
        /\ \A u \in Threads : u # t => pc'[u] = pc[u] /\ tree'[u] = tree[u]
    BY <1>0, <1>11 DEF TypeOK, Look, InsertNext, Get, ReplaceOrInsert, Delete, Visit
  <2> QED
    BY <1>6, <2>1
<1>12. CASE UNCHANGED vars
  BY <1>0, <1>12 DEF vars
<1> QED
  BY <1>1, <1>4, <1>5, <1>7, <1>8, <1>9, <1>10, <1>11, <1>12 DEF Next, Step

\* A step changes a tree that nobody scans.
LEMMA ScannedUnchanged ==
  ASSUME TreesIInv, NEW t \in Threads, Step(t), NEW u \in Threads, pc[u] = "scan"
  PROVE  content'[tree[u]] = content[tree[u]]
<1>0. /\ TypeOK /\ tree[u] \in 1 .. made /\ u \in readers[tree[u]]
      /\ writer[tree[u]] = None
  BY DEF TreesIInv, TreeFound, Found, LongSections
<1>1. CASE Insert(t)
  BY <1>0, <1>1, MakeTree DEF Insert, treeVars
<1>2. CASE Enter(t) \/ ReplaceOrInsert(t) \/ Delete(t)
  <2>1. tree[t] # tree[u]
    BY <1>0, <1>2 DEF Enter, ReplaceOrInsert, Delete, Alone, Of
  <2> QED
    BY <1>0, <1>2, <2>1 DEF Enter, ReplaceOrInsert, Delete, Fill, Of, TypeOK
<1>3. CASE InsertNext(t)
  <2>1. writer[tree[t]] = t /\ t # None
    BY <1>3, NoneAssumption DEF InsertNext, TreesIInv, LongSections
  <2>2. tree[t] # tree[u]
    BY <1>0, <2>1
  <2> QED
    BY <1>0, <1>3, <2>2 DEF InsertNext, Fill, Of, TypeOK
<1>4. CASE ~(Insert(t) \/ Enter(t) \/ ReplaceOrInsert(t) \/ Delete(t) \/ InsertNext(t))
  BY <1>4 DEF Step, Look, Unlock, InitFails, Get, BulkReplaceOrInsert, Scan, Visit, StopScan,
              treeVars
<1> QED
  BY <1>1, <1>2, <1>3, <1>4

\* A scan that passes the least item ahead has still visited a beginning.
LEMMA VisitBegins ==
  ASSUME TreesIInv, NEW t \in Threads, Visit(t)
  PROVE  Beginning(t)'
<1> DEFINE v == visited[t]
           n == Len(visited[t])
<1>0. TypeOK /\ v \in Seq(Items) /\ n \in Nat /\ DOMAIN v = 1 .. n /\ Beginning(t)
  BY DEF TreesIInv, TypeOK, ScansBegin, Visit
<1>1. PICK i \in Ahead(t) : /\ \A j \in Ahead(t) : ~Before(t, j, i)
                           /\ visited' = [visited EXCEPT ![t] = Append(v, i)]
  BY DEF Visit
<1>2. /\ i \in Items /\ Items \subseteq Int /\ InRange(t) \subseteq Items
      /\ i \in InRange(t) /\ \A m \in 1 .. n : Before(t, v[m], i)
  BY <1>0, ItemsAssumption DEF Ahead, InRange, TypeOK
<1>3. /\ visited'[t] \in Seq(Items) /\ Len(visited'[t]) = n + 1
      /\ \A m \in 1 .. n : visited'[t][m] = v[m]
      /\ visited'[t][n + 1] = i
  BY <1>0, <1>1, <1>2, VisitAppends DEF TypeOK
<1>4. DOMAIN visited'[t] = 1 .. n + 1
  BY <1>0, <1>3
<1>5. /\ InRange(t)' = InRange(t)
      /\ \A a, b : Before(t, a, b)' <=> Before(t, a, b)
  BY DEF Visit, InRange, Before, Of, treeVars
<1> HIDE DEF n, v
<1>6. \A m \in 1 .. n + 1 : m \in 1 .. n \/ m = n + 1
  BY <1>0
<1>7. \A m \in 1 .. n + 1 : visited'[t][m] \in InRange(t)
  BY <1>0, <1>2, <1>3, <1>6 DEF Beginning, v
<1>8. ASSUME NEW l \in 1 .. n + 1, NEW m \in 1 .. n + 1, l < m
      PROVE  Before(t, visited'[t][l], visited'[t][m])
  <2>1. l \in 1 .. n
    BY <1>0, <1>8
  <2>2. CASE m \in 1 .. n
    BY <1>0, <1>3, <1>8, <2>1, <2>2 DEF Beginning, v
  <2>3. CASE m = n + 1
    BY <1>2, <1>3, <2>1, <2>3
  <2> QED
    BY <1>6, <2>2, <2>3
<1>9. ASSUME NEW j \in InRange(t)
      PROVE  \/ \E m \in 1 .. n + 1 : visited'[t][m] = j
             \/ \A m \in 1 .. n + 1 : Before(t, visited'[t][m], j)
  <2>1. CASE \E m \in 1 .. n : v[m] = j
    BY <1>0, <1>3, <2>1
  <2>2. CASE \A m \in 1 .. n : Before(t, v[m], j)
    <3>1. j \in Ahead(t)
      BY <1>0, <2>2 DEF Ahead, n, v
    <3>2. j = i \/ Before(t, i, j)
      BY <1>1, <1>2, <3>1 DEF Before
    <3>3. CASE j = i
      BY <1>0, <1>3, <3>3
    <3>4. CASE Before(t, i, j)
      BY <1>3, <1>6, <2>2, <3>4
    <3> QED
      BY <3>2, <3>3, <3>4
  <2> QED
    BY <1>0, <2>1, <2>2 DEF Beginning, v
<1> QED
  BY <1>4, <1>5, <1>7, <1>8, <1>9 DEF Beginning

\* Every step keeps what scans have visited a beginning.
LEMMA ScansBeginNext == TreesIInv /\ [Next]_vars => ScansBegin'
<1> SUFFICES ASSUME TreesIInv, [Next]_vars PROVE ScansBegin'
  OBVIOUS
<1>0. TypeOK /\ ScansBegin
  BY DEF TreesIInv
<1>1. ASSUME NEW t \in Threads, Step(t), NEW u \in Threads
      PROVE  /\ pc'[u] = "scan" => Beginning(u)'
             /\ pc'[u] \notin {"scan", "done"} => visited'[u] = <<>>
  <2>1. CASE Visit(t) /\ u = t
    BY <2>1, VisitBegins DEF Visit
  <2>2. CASE ~(Visit(t) /\ u = t)
    <3>1. visited'[u] = visited[u]
      BY <1>0, <1>1, <2>2 DEF Step, Look, Insert, Enter, InsertNext, Unlock, InitFails, Get,
         ReplaceOrInsert, Delete, BulkReplaceOrInsert, Scan, Visit, StopScan, locals, TypeOK
    <3>2. pc'[u] \notin {"scan", "done"} => pc[u] \notin {"scan", "done"}
      BY <1>0, <1>1 DEF Step, Look, Insert, Enter, InsertNext, Unlock, InitFails, Get,
         ReplaceOrInsert, Delete, BulkReplaceOrInsert, Scan, Visit, StopScan, Goto, TypeOK
    <3>3. CASE pc'[u] = "scan" /\ pc[u] = "scan"
      <4>1. tree'[u] = tree[u] /\ scan'[u] = scan[u]
        BY <1>0, <1>1, <3>3 DEF Step, Look, Insert, Enter, InsertNext, Unlock, InitFails, Get,
           ReplaceOrInsert, Delete, BulkReplaceOrInsert, Scan, Visit, StopScan, locals, TypeOK
      <4>2. content'[tree'[u]] = content[tree[u]]
        BY <1>1, <3>3, <4>1, ScannedUnchanged
      <4>3. Beginning(u)
        BY <1>0, <3>3 DEF ScansBegin
      <4>4. InRange(u)' = InRange(u) /\ \A a, b : Before(u, a, b)' <=> Before(u, a, b)
        BY <4>1, <4>2 DEF InRange, Before, Of
      <4> QED
        BY <3>1, <3>3, <4>3, <4>4 DEF Beginning
    <3>4. CASE pc'[u] = "scan" /\ pc[u] # "scan"
      <4>1. visited[u] = <<>>
        BY <1>0, <1>1, <3>4 DEF ScansBegin, Step, Look, Insert, Enter, InsertNext, Unlock,
           InitFails, Get, ReplaceOrInsert, Delete, BulkReplaceOrInsert, Scan, Visit, StopScan,
           Goto, TypeOK
      <4>2. DOMAIN visited'[u] = {}
        BY <3>1, <4>1
      <4> QED
        BY <3>4, <4>2 DEF Beginning
    <3> QED
      BY <1>0, <3>1, <3>2, <3>3, <3>4 DEF ScansBegin
  <2> QED
    BY <2>1, <2>2
<1>2. CASE UNCHANGED vars
  BY <1>0, <1>2 DEF vars, mapVars, treeVars, locals, ScansBegin, Beginning, InRange, Before, Of
<1> QED
  BY <1>1, <1>2 DEF Next, ScansBegin

----------------------------------------------------------------------------
(* The theorems. *)

\* The invariant holds in every execution.
LEMMA TreesIInvCorrect == Spec => []TreesIInv
<1>1. TreesIInv /\ [Next]_vars => TreesIInv'
  BY TypeNext, TreeFoundNext, TreesFilledNext, LongSectionsNext, ScansBeginNext DEF TreesIInv
<1> QED
  BY <1>1, TreesInit, PTL DEF Spec

\* However many threads ask for it first, a key has one tree, filled once.
THEOREM TreesCorrect == Spec => []TreesInv
<1>1. TreesIInv => TreesInv
  BY DEF TreesIInv, TreesInv, TreeFound, Found, OneTree
<1> QED
  BY <1>1, TreesIInvCorrect, PTL

\* Scans see a tree as it is between the changes of others.
THEOREM ScansSeeSnapshots == Spec => []ScanIsSnapshot
<1>1. TreesIInv => ScanIsSnapshot
  <2> SUFFICES ASSUME TreesIInv, NEW t \in Threads, pc[t] = "scan"
               PROVE  /\ Beginning(t)
                      /\ \A u \in Threads : pc[u] \in {"init", "bulk"} => tree[u] # tree[t]
    BY DEF ScanIsSnapshot
  <2>1. Beginning(t)
    BY DEF TreesIInv, ScansBegin
  <2>2. tree[t] \in 1 .. made /\ t \in readers[tree[t]]
    BY DEF TreesIInv, TreeFound, Found, LongSections
  <2>3. writer[tree[t]] = None
    BY <2>2 DEF TreesIInv, LongSections
  <2>4. \A u \in Threads : pc[u] \in {"init", "bulk"} => writer[tree[u]] = u /\ u # None
    BY NoneAssumption DEF TreesIInv, LongSections
  <2> QED
    BY <2>1, <2>3, <2>4
<1> QED
  BY <1>1, TreesIInvCorrect, PTL

----------------------------------------------------------------------------
(* When initFunc does not fail. *)

\* The items of initFunc are in a tree, deleted, or yet to be inserted by who is
\* initialising it, to whom nobody's GetOrInit has come before.
InitItemsInv ==
  /\ \A m \in 1 .. made : content[m] # None =>
       \A i \in InitItems :
         \/ i \in content[m] \/ <<m, i>> \in removed
         \/ \E u \in Threads : pc[u] = "init" /\ tree[u] = m /\ i \in todo[u]
  /\ \A t, u \in Threads : pc[t] = "ready" /\ pc[u] = "init" => tree[t] # tree[u]

\* Steps that keep trees and the work of initFunc as they are, and after which nobody
\* else is ready.
LEMMA InitItemsQuiet ==
  ASSUME InitItemsInv, UNCHANGED <<made, content, removed>>,
         \A u \in Threads : /\ pc[u] = "init" <=> pc'[u] = "init"
                            /\ pc[u] = "init" => tree'[u] = tree[u] /\ todo'[u] = todo[u]
                            /\ pc'[u] = "ready" => pc[u] = "ready" /\ tree'[u] = tree[u]
  PROVE  InitItemsInv'
BY DEF InitItemsInv

\* Every step keeps the items of initFunc, unless it fails.
LEMMA InitItemsNext ==
  ~InitMayFail /\ TreesIInv /\ InitItemsInv /\ [Next]_vars => InitItemsInv'
<1> SUFFICES ASSUME ~InitMayFail, TreesIInv, InitItemsInv, [Next]_vars PROVE InitItemsInv'
  OBVIOUS
<1>0. /\ TypeOK /\ TreeFound /\ TreesFilled /\ InitItemsInv /\ None \notin Threads
      /\ \A u \in Threads : pc[u] = "init" => writer[tree[u]] = u
  BY NoneAssumption DEF TreesIInv, LongSections
<1> USE DEF Goto, Fill, Of, mapVars, treeVars, locals
<1>1. ASSUME NEW t \in Threads,
             Look(t) \/ (Insert(t) /\ Present(t)) \/ Get(t) \/ BulkReplaceOrInsert(t) \/ Scan(t)
             \/ Visit(t) \/ StopScan(t)
      PROVE  InitItemsInv'
  BY <1>0, <1>1, InitItemsQuiet
     DEF TypeOK, Look, Insert, Present, Get, BulkReplaceOrInsert, Scan, Visit, StopScan
<1>2. ASSUME NEW t \in Threads, Insert(t), ~Present(t) PROVE InitItemsInv'
  <2>1. /\ made' = made + 1 /\ made \in Nat /\ content'[made'] = None
        /\ \A m \in 1 .. made : content'[m] = content[m]
    BY <1>2, MakeTree
  <2>2. /\ UNCHANGED <<removed, todo>> /\ tree' = [tree EXCEPT ![t] = made']
        /\ pc' = [pc EXCEPT ![t] = "enter"] /\ pc[t] = "insert"
    BY <1>2 DEF Insert
  <2> QED
    BY SMTT(60), <1>0, <2>1, <2>2 DEF TypeOK, InitItemsInv
<1>3. ASSUME NEW t \in Threads, Enter(t) PROVE InitItemsInv'
  <2>1. CASE content[tree[t]] # None
    <3>1. /\ pc' = [pc EXCEPT ![t] = "ready"] /\ pc[t] = "enter" /\ writer[tree[t]] = None
          /\ UNCHANGED <<made, content, removed, tree, todo>>
      BY <1>3, <2>1 DEF Enter, Alone, Free
    <3>2. pc'[t] = "ready" /\ \A u \in Threads : u # t => pc'[u] = pc[u]
      BY <1>0, <3>1 DEF TypeOK
    <3>3. \A u \in Threads : pc[u] = "init" => tree[u] # tree[t]
      BY <1>0, <3>1
    <3> QED
      BY <1>0, <3>1, <3>2, <3>3 DEF InitItemsInv
  <2>2. CASE content[tree[t]] = None
    <3>1. /\ content' = [content EXCEPT ![tree[t]] = {}] /\ todo' = [todo EXCEPT ![t] = InitItems]
          /\ pc' = [pc EXCEPT ![t] = "init"] /\ pc[t] = "enter"
          /\ UNCHANGED <<made, removed, tree>>
      BY <1>3, <2>2 DEF Enter
    <3>2. /\ pc'[t] = "init" /\ todo'[t] = InitItems
          /\ \A u \in Threads : u # t => pc'[u] = pc[u] /\ todo'[u] = todo[u]
          /\ \A m \in 1 .. made : m # tree[t] => content'[m] = content[m]
      BY <1>0, <3>1 DEF TypeOK
    <3>3. \A u \in Threads : pc[u] = "ready" => tree[u] # tree[t]
      BY <1>0, <2>2 DEF TreesFilled
    <3> QED
      BY <1>0, <3>1, <3>2, <3>3 DEF InitItemsInv
  <2> QED
    BY <2>1, <2>2
<1>4. ASSUME NEW t \in Threads, InsertNext(t) PROVE InitItemsInv'
  <2>1. PICK i \in todo[t] : /\ todo' = [todo EXCEPT ![t] = @ \ {i}]
                             /\ content' = [content EXCEPT ![tree[t]] = content[tree[t]] \cup {i}]
    BY <1>4 DEF InsertNext
  <2>2. /\ UNCHANGED <<made, removed, tree, pc>> /\ tree[t] \in 1 .. made /\ content[tree[t]] # None
    BY <1>0, <1>4 DEF InsertNext, TreeFound, Found, TreesFilled
  <2>3. /\ content'[tree[t]] = content[tree[t]] \cup {i}
        /\ \A m \in 1 .. made : m # tree[t] => content'[m] = content[m]
        /\ todo'[t] = todo[t] \ {i} /\ \A u \in Threads : u # t => todo'[u] = todo[u]
    BY <1>0, <2>1, <2>2 DEF TypeOK
  <2> QED
    BY <2>2, <2>3, <1>0 DEF InitItemsInv
<1>5. ASSUME NEW t \in Threads, Unlock(t) PROVE InitItemsInv'
  <2>1. /\ todo[t] = {} /\ UNCHANGED <<made, content, removed, tree, todo>>
        /\ pc[t] \in {"init", "bulk"} /\ (pc'[t] = "ready" => pc[t] = "init") /\ pc'[t] # "init"
        /\ \A u \in Threads : u # t => pc'[u] = pc[u]
    BY <1>0, <1>5 DEF TypeOK, Unlock
  <2>2. \A u \in Threads : pc'[t] = "ready" /\ pc'[u] = "init" => tree[t] # tree[u]
    BY <1>0, <2>1
  <2> QED
    BY <1>0, <2>1, <2>2 DEF InitItemsInv
<1>6. ASSUME NEW t \in Threads, ReplaceOrInsert(t) \/ Delete(t) PROVE InitItemsInv'
  <2>1. PICK i \in Items, S \in SUBSET Items :
          /\ content' = [content EXCEPT ![tree[t]] = S]
          /\ \/ S = content[tree[t]] \cup {i} /\ removed' = removed
             \/ S = content[tree[t]] \ {i} /\ removed' = removed \cup {<<tree[t], i>>}
    <3>1. tree[t] \in 1 .. made /\ content[tree[t]] \in SUBSET Items
      BY <1>0, <1>6 DEF TypeOK, ReplaceOrInsert, Delete, TreesFilled, TreeFound, Found
    <3>2. \A i \in Items : content[tree[t]] \cup {i} \in SUBSET Items /\ content[tree[t]] \ {i} \in SUBSET Items
      BY <3>1
    <3>3. CASE ReplaceOrInsert(t)
      BY <3>2, <3>3 DEF ReplaceOrInsert
    <3>4. CASE Delete(t)
      <4>1. PICK i \in content[tree[t]] : /\ content' = [content EXCEPT ![tree[t]] = content[tree[t]] \ {i}]
                                          /\ removed' = removed \cup {<<tree[t], i>>}
        BY <3>4 DEF Delete
      <4> QED
        BY <3>1, <3>2, <4>1
    <3> QED
      BY <1>6, <3>3, <3>4
  <2>2. /\ UNCHANGED <<made, tree, todo>> /\ tree[t] \in 1 .. made /\ content[tree[t]] # None
        /\ \A u \in Threads : (pc[u] = "init" <=> pc'[u] = "init") /\ (pc'[u] = "ready" => pc[u] = "ready")
    BY ZenonT(120), <1>0, <1>6 DEF TypeOK, ReplaceOrInsert, Delete, TreesFilled, TreeFound, Found
  <2>3. content'[tree[t]] = S /\ \A m \in 1 .. made : m # tree[t] => content'[m] = content[m]
    BY <1>0, <2>1, <2>2 DEF TypeOK
  <2> QED
    BY <1>0, <2>1, <2>2, <2>3 DEF InitItemsInv
<1>7. CASE UNCHANGED vars
  BY <1>0, <1>7, InitItemsQuiet DEF vars
<1> QED
  BY <1>1, <1>2, <1>3, <1>4, <1>5, <1>6, <1>7 DEF Next, Step, InitFails

\* btreemutex_test.go:63-66: as long as initFunc does not fail, a tree that GetOrInit
\* returns has its items, but for those deleted since.
THEOREM InitItemsHeld == Spec => [](~InitMayFail => HoldsInitItems)
<1>1. Init => InitItemsInv
  BY DEF Init, InitItemsInv
<1>2. (~InitMayFail => InitItemsInv) /\ TreesIInv /\ [Next]_vars => (~InitMayFail => InitItemsInv)'
  BY InitItemsNext
<1>3. TreesIInv /\ (~InitMayFail => InitItemsInv) => (~InitMayFail => HoldsInitItems)
  BY DEF TreesIInv, TreeFound, Found, TreesFilled, InitItemsInv, HoldsInitItems, Of
<1> QED
  BY <1>1, <1>2, <1>3, TreesIInvCorrect, PTL DEF Spec
=============================================================================
