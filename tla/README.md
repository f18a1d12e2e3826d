# A verification project for isutool

isutool is a box of Go libraries and code generators for web applications that
must answer many concurrent requests fast: batching of calls, caches, maps with
a lock per key, in-memory indexes, memory-mapped maps, a tracer, and two source
generators. This directory holds TLA+ models of it, the TLC runs that check
them, and proofs checked by TLAPS.

Contents: [inventory](#inventory), [plan](#plan), [modules](#modules),
[runs](#runs), [proofs](#proofs), [not modelled](#not-modelled).

## Inventory

| component | state | operations | what is hard | what must hold |
|---|---|---|---|---|
| `library/bulkexecute` | waiting data, slot counter, ring of 3 channels and WaitGroups, one shared result (`bulkexecute.go:10-24`) | `New`, `Execute` | most of `Execute` runs outside the mutex; leadership passes by a token in a channel; results pass through unlocked fields; exec may panic | one exec at a time; each datum executed exactly once; each caller gets the result of its own batch; every caller returns |
| `library/dataloader` | none of its own: a BulkExecute whose exec returns a map | `New`, `Load` | a load is answered from a map fetched for other callers too | no stale, foreign or falsely missing row |
| `library/asyncexecute` | waiting data under a mutex, a ticker goroutine | `New`, `Set` (the goroutine has no stop) | data set while a batch is executed, in arrays that slices may share; ticks dropped when exec is slow | every datum handed to exec once, in order; batches sequential |
| `library/async` | a channel of capacity one per future | `Go`, `Await` | several `Await`s of one future; none at all | the result is delivered once, before any zero result; nobody waits for ever |
| `library/mutexmap` | map of key to mutex, guarded by an RWMutex | `Lock`, `Unlock`, `RLock`, `RUnlock` of a key | double-checked creation of the mutex of a key | mutual exclusion per key; independence of keys |
| `library/cache` | map guarded by an RWMutex | `Get`, `Set`, `Delete`, `GetOrSet`, `GetOrSetLock`, `Update`, `UpdateOrSet` | `GetOrSet` computes outside the lock | no lost update; a value computed at most once when the lock is held; no stale entry stays |
| `library/btreemutex` | map of key to (RWMutex, B-tree) | `GetOrInit`; `Get`, `ReplaceOrInsert`, `BulkReplaceOrInsert`, `Delete`, `Ascend`, `Descend` and their ranges on a tree | lazily initialised trees, initialisation that fails | one tree per key; a tree is never seen half initialised; a scan sees one state |
| `library/index` | a B-tree per condition, the first of them primary, and one lock | `ReplaceOrInsert`, `MustInsert`, `Delete`; searches of a condition; bounds for strings | the same value has to leave every tree; `MustInsert` panics half way, with the lock held; carries in the bound of a prefix | no condition finds what is gone; conditions that tell the items apart find the same ones; a range has what matches |
| `library/mmap` | an index file of slots and a data file, and their mappings; the number of slots | `New`, `Save`, `Load`, `Get`, for string and int keys | open addressing by double hashing; files emptied in place under those who map them; a death between the two files; mappings shorter than the files; negative keys | the index never points past the data; a value found is the stored one, and a stored one is found once all is written and mapped; every slot can be reached |
| `library/trace` | lists of measures of requests, SQL and HTTP calls, each with a mutex, and a list of sampled queries | `StartTrace` and its timer; `SubStart`, `SQLLogger.Log`, `RoundTrip`, the wrappers of handlers | every measure is appended by a goroutine of its own; resets and reads without the locks that appends hold | no measure of a trace is missing from its report, none of before is in it; a query is explained once; the numbers are right and add up |
| `library/trace`: chi, echo, goji | none | the wrappers of routes | a handler that fails or panics | a handler that returns is measured |
| `library/trace`: pprof | none | `StartProfileCPU`, `StartProfileMem` | I/O only | |
| `tool/encodegen` | none (a generator) | per type `MaxSize`, `Encode`, `EncodeTo`, `Decode` | buffers that are never grown; presence bytes; values decoded over older ones; times of 15 or 16 bytes; what is left out | the size suffices; decoding gives the value back |
| its examples | none | the generated code of 21 types in two packages, with pointer and value receivers | every nesting of pointers, slices, maps, structs and foreign types | as above, for each |
| `tool/setctx` | the call graph while it runs | finds the functions that reach a database call, adds a context parameter and passes it | recursion, function literals, what is converted already | each call passes what its callee takes, nothing else changes, a second run changes nothing |

Components interact little: `dataloader` calls `bulkexecute.Execute` and nothing
else; the tracer wraps drivers and handlers of the application; the others are
leaves. All concurrency is goroutines of the application calling the libraries,
the timers and goroutines of the libraries themselves, and, for `mmap`, processes
that share files.

## Plan

Done: every component but pprof has its module, and every module its run:

1. `BulkExecute`, its abstract specification `BatchService`, `DataLoader` on top
   of it, and `BulkExecuteProofs` about both.
2. The lock-based stores `MutexMap` (with the abstract `KeyedLocks` and
   `MutexMapProofs`), `Cache` (with `CacheAside`, its use in front of a table, and
   `CacheProofs`) and `BTreeMutex` (with `BTreeMutexProofs`); `AsyncExecute` and
   `Async` (with `BackgroundProofs`).
3. `Index` and `Mmap`, with `IndexesProofs`.
4. `Trace` and `TraceStats`, with `TraceProofs` about both.
5. `SetCtx`, and `Varint` under `Codec` and `ExampleTypes`, with `ToolsProofs` about the
   first two. `Codec` recurses over the tree of a type and stays with TLC.

Every safety property that a run finds to hold is proved, but two, those of `Codec`;
[proofs](#proofs) says why. What is left is to say more:
what a `Get` of `Mmap` that spans two Saves may return is the first.

Runs are kept few. Two components that do not interact share a run when they are
small: a behaviour is then one of either (`part`, `tool`), so the states add up
and do not multiply.

## Modules

Conventions. A critical section in which nothing blocks and no code of the
caller runs is one action; everything else is a step per access to shared state.
Where the code accesses shared fields without a lock (a data race in Go), each
load and store of a word is an action of its own, so every interleaving of them
is a behaviour. Goroutines are the elements of a constant set and their program
counters carry names for places in the code. A local variable of the code is a
function on that set. A few definitions have a faulty variant beside them
(`TwoSlots`, `InsertUnchecked`, `ReleaseEarly`, ...); no specification uses them:
they are there to confirm that each property fails when the code is wrong in
that way, and PROJECT.json says which breaks which.

| module | models | correspondence |
|---|---|---|
| `BulkExecute` | `bulkexecute.go` | The ring of three slots: `chans[s]` numbers the channel object now in slot s (a receive that evaluated its operand earlier keeps the old object), `full` and `closed` are the objects holding a token or closed, `wgs[s]` the calls WaitGroup s counts. `Submit` is the first critical section (:42-45), `AddToGroup` :47, `EvaluateChannel` and the two receives :50, `ReadRes`/`ReadErr` :52, `TakeBatch` the leader's critical section (:59-63), `ExecReturns` :65, `WaitPrevious`/`WaitReturns`/`WaitPanics` :66, `SetRes`/`SetErr` :67, `CloseChannel` :69, `RenewChannel` :70, `PassToken` :71, `Leave` the deferred `Done`. |
| `BatchService` | the promise of `Execute` | Calls wait; all that waits runs as one batch; a call is answered once, from the batch that had its datum. |
| `DataLoader` | `dataloader.go` over `BulkExecute` | `Load` is `Submit` with a key; `Fetch` is the leader's exec, a query of a table whose rows change at any time; `LoadFails`, `LoadFinds` are the conditions of `Load` on what `Execute` returned, nil map and nil error included. |
| `MutexMap` | `mutexmap.go`, both maps | `Look`, `Insert` are the two halves of `getOrSet`; `Announce`, `Drain`, `AcquireRead`, `Unlock`, `RUnlock` are package sync: a waiting writer keeps new readers out, an unlock lets parked readers in. `Find` is the second look-up, of `Unlock`. |
| `KeyedLocks` | the promise of mutexmap | One readers-writer lock per key, there from the start. |
| `Cache` | `cache.go` | Each thread has one operation. `owner` holds `c.m` while a callback runs; `Lock`, `Store`, `Fail`, `Panic` are the steps of the operations that call back under the lock, `Get`, `Compute`, `Set` those of `GetOrSet`, which does not. |
| `CacheAside` | the cache in front of a table | `WriteRow` then `Delete`, against `Query` inside fn. The table is the application's. |
| `BTreeMutex` | `btreemutex.go` | `Look`/`Insert` are `getOrSet`, `Enter`, `InsertNext`, `InitFails`, `Unlock` the rest of `GetOrInit`. A tree is a set of ordered items; initialisation, a bulk insertion and a scan take a step per item; a scan visits the next item of its range after those it has visited. |
| `AsyncExecute` | `asyncexecute.go` | Slices are arrays and lengths, because `Set` appends while exec reads: `AppendTo` writes in place or moves to a new array, `Renew` is the `make` in `get`. `Tick` is the ticker, which drops ticks nobody takes. |
| `Async` | `async.go` | `Go`, then `FnReturns`, `Send`, `Close` of the goroutine; `Await` is the receive. |
| `Index` | `index.go` | `trees[c]` is the set of values in the tree of condition c, `Key[c]` its order. `ReplaceOrInsert`, `Delete` and `MustInsert` hold the lock from the first tree to the last and are one action each; after its panic `held` stays TRUE and nothing else happens. Conditions that order by a string have a `Name`. `AscendRange`, `StringExactMatch`, `StringPrefixMatch` are operators; the bound of a prefix carries as `index.go:159-173` does. |
| `Mmap` | `mmap.go`, `mmap_int.go` | `calcMod`, `h1`, `h2`, `Probe` with Go's remainder; `Save`, `CreateData`, `Fill` (one `store`), `Filled`, `WriteData`, `WriteIndex` (in pieces), `Stop` (an error, or the death of the process, anywhere); in another process `LoadIndex`, `LoadData`, and a `Get` (`StartGet`) with a step per slot and per entry it reads, from the files as they then are: past the end of a file a fault or zeros (`SlotAt`, `CellAt`), at the end of a mapping the key 0. `began` and `whole` are history, what held when the Get began. |
| `Trace` | `trace.go`, `sql.go`, `http.go`, the middlewares | A list is a length and an array, of which the cells filled so far are modelled: `Append1` loads the one and writes the other, `Store` stores the new length, under the mutex for measures and without one for queries. `Log`, `Stop`, `RoundTrip`, `Return` start the goroutines that append; `Look` and `Sample` are the double-checked `bindedQuery`. `StartTrace` and `Reset` reset list by list; `Load`, `Read`, `ReadAgain`, `Explain` are the timer's reads. |
| `TraceStats` | the numbers of a report | Every iteration is a step: of the loops that count measures by key (`Lower`/`Add` are the accumulation of `makeStatsMap`), of `makeRequestStats` over the paths of requests and then over what is left, under "unknown"; the order of a map's iteration is open. `Deleted` is the `delete` that keeps the latter from taking a path twice. |
| `Codec` | `encodegen.go` | A type is the tree `parseField` makes of its declaration; `Size`, `Put`, `Get` are what the templates generate for each kind of field in `MaxSize`, `EncodeTo`, `Decode`; `PutTime` is what the generated code writes for a `time.Time`, `GetTime` what the library reads. |
| `Varint` | encoding/binary, as the generated methods use it | `PutUvarint`, `PutVarint`, `Uvarint`, `Varint` and the lengths `MaxVarintLen16` and so on, for bytes of any number of bits. |
| `ExampleTypes` | `example_gen.go` and the three generated files beside it | Each type as the generated code treats it, field by field; `Methods` are the types with their kind of receiver. |
| `SetCtx` | `setctx.go` | `Search` begins at a function, `Enter` is one call of `findSQLCall` (`visited` is what it has entered, `todo` what it is still to enter), `Searched` enters the function into `dbCallFuncMap`; `Convert` rewrites one function found (`Converts`/`Passed` its calls, `AddsParameter` its declaration), `Write` the files, and `Again` runs the tool over them. |
| `BulkExecuteProofs`, `MutexMapProofs`, `CacheProofs`, `BTreeMutexProofs`, `BackgroundProofs`, `IndexesProofs`, `TraceProofs`, `ToolsProofs` | | The theorems, below. |
| `MCBackground` | | `AsyncExecute` or `Async`. |
| `MCIndexes` | | `Index` (`Next`) over small items, or `Mmap` (`MmapNext`) over three slots. |
| `MCTrace` | | `Trace`, or `TraceStats` on one report. |
| `MCTools` | | The values, types and packages the two tools are given: a value is encoded and decoded, or `SetCtx` runs twice. |
| other `MC*` | | Symmetry sets, where only safety is checked. |

## Runs

| run | specification and bounds | what it shows |
|---|---|---|
| `bulk_safety` | `Spec`, 5 calls, exec may panic | In every interleaving, late calls included: two batches never run at once, no datum is executed twice or dropped, no channel is closed twice or sent to when closed or full. |
| `bulk_prompt` | `PromptFairSpec`, 4 calls | With the timing assumption below: a call is answered from its own batch, `res` and `err` do not change while a follower reads them, WaitGroups are not reused under a waiter, the ring implements `BatchService`, every call returns. |
| `bulk_late` | `Spec`, 4 calls | Without it `OwnResult` fails (finding 1). |
| `loader` | `LoaderPromptSpec`, 3 loads, 2 keys, rows written twice | Values are never older than the call (`FreshAnswer`); "not found" and errors come from a fetch of the key itself (`LoaderInv`). |
| `mutexmap` | `FairSpec`, 3 goroutines, 2 keys, both modes | Writers are alone, the map implements `KeyedLocks`, a call waits only for a holder of its own key. |
| `cache` | `AsideFairSpec`, 3 threads, 2 keys, all operations | Callbacks under the lock run alone and `GetOrSetLock` computes once (`CacheInv`), no update is lost, no stale entry lasts, every path unlocks unless a callback panics. |
| `btree` | `Spec`, 3 threads, 2 keys, 3 items | One tree per key, initialised once (`TreesInv`); a scan sees one state in order. |
| `btree_initfails` | `Spec`, 2 threads, initFunc may fail | `HoldsInitItems` fails (finding 2). It holds when `InitMayFail` is FALSE. |
| `background` | the fairness of both; 3 calls of up to 2 data, first array of capacity 1; 2 futures, 3 awaits | exec reads everything, in order, unchanged, the data of a call together (`QueueInv`), and in the end. A result is delivered once and first (`FutureInv`); nobody waits for ever. |
| `indexes` | 26 values, 3 conditions; 3 slots, 5 keys, 2 Saves | No condition finds what is gone, those that separate agree, ranges have what matches. The index never points past the data, a `Get` that no Save interrupts finds nothing but the stored value, and misses none if all was written and mapped; every free slot is reached. |
| `trace` | 2 measures, 2 sampled queries, 1 trace; reports of up to 2 + 2 + 1 measures (863,548 states) | The report has what it should, nothing old, each query once (`Explained`), except where an unlocked access is interrupted; its numbers are right and add up. |
| `tools` | every example type and odd ones, boundary values, 2 receivers; all packages of a main with a call at most and 2 functions with up to 2 calls each (1,333,211 states) | `MaxSize` suffices, decoding gives the value back over any receiver, but for zones west of UTC with seconds. Calls and declarations agree, only what must change does, a second run changes nothing. |

Bounds. Four calls of `Execute` fill a batch, wait on the previous slot, and wrap
the ring: with two slots instead of three `bulk_prompt` fails, which is the point of `execNum = 3` (a new batch's `Add` must not meet the
previous `Wait`). Four are also enough for a late call to find the channel of a later
round. Three threads suffice for two that race through a double-checked look-up
and a third that sees the difference; two keys show that keys do not disturb each
other. Two data per call and a first array of one make every append either fit or
move. `MaxVersion = 2` lets a row appear and disappear.

`Index`: in the run values have one of two numbers and a name of up to two bytes, the last byte
being 2 (`MaxByte`, 255 in the code), so that prefixes carry over one byte. The
conditions are by number (two keys only, so values replace each other all the time), by name and
number, and by the length of the name, which mixes up values that differ. `Mmap`:
`MaxItemCount = 3` and the primes 3 and 5 give a table of three slots, in which five
keys find room or not: 0 and 1, another key with the number 1 (strings that differ in
leading zero bytes have the same number), -3, of which all probes are the same
slot, and -4, of which the first is negative. Two Saves let the second one destroy
the first, and a mapping be of the first and the files of the second. Lengths are in cells, a
cell for a key and two or three for its value.

`Trace`: two goroutines that append measures and two that sample queries are what a
race between two appends, or an append and a reset, takes; the measures of before
the one trace are those that must not show. Arrays are never outgrown (the code
makes those of measures long). `TraceStats`: durations 0, 1 and 2, since only 0 is
special.

`Codec`: a varint carries G = 2 bits a byte, and the integer types have 5, 9
and 19 bits, so that the greatest numbers of 16, 32 and 64 bits take 3, 5 and 10
bytes, exactly as they do with G = 7, while a number stays within TLC's range. Each
part of a value takes all its boundary values in turn, the rest of the value being
at its longest or zero. `SetCtx`: three functions suffice for a call over another
function, a shared callee, and recursion of one function or two; main, which nobody
calls in a package that compiles, has one call, the other two have up to two.

**The timing assumption.** Between leaving the lock (`bulkexecute.go:45`) and
evaluating its channel (:50) a call does one `wgs.Add`. The leader of its batch
meanwhile sleeps `be.wait`, runs exec and publishes. Nothing in the code makes the
leader wait for such a call, but it takes a preemption of milliseconds to be late.
`PromptSpec` assumes nobody is: a step that would replace the channel while a
member of the batch is still before :50 is not taken. What holds in every
interleaving is checked and proved without it. A late call waits on the channel of
a later round of its slot: it returns that round's result (finding 1), and when
there is no later round it does not return; having done its `wgs.Add`, it then also keeps the leader
of the next slot waiting at `Wait` (`bulkexecute.go:66`), and every call behind that one.

**Fairness** is weak fairness of each goroutine that has started an operation: Go
runs goroutines that can run. Callbacks (exec, fn, initFunc) return. Nobody is
obliged to call anything, to unlock a key, or to await a future; a lock is granted
to a waiter when it is free, and liveness is only claimed where that suffices.
The ticker keeps ticking, with ticks dropped.

**What `Trace` excepts.** The code takes no lock where it resets or reads the lists,
and none where it appends queries. The properties hold up to what this costs, and
say exactly when: `NothingOld` excepts a list to which an append was under way when
`StartTrace` reset it (the append then stores the old length plus one); `Explained` excepts
traces during whose `StartTrace` a query was being sampled, and queries of which two
were appended at once.

**Findings.**

1. `bulkexecute.go:50` (run `bulk_late`): a call delayed between its unlock and its
   receive can return the result of a batch without its datum, or wait for ever.
2. `btreemutex.go:92` (run `btree_initfails`): the tree is stored before initFunc
   runs and stays when it fails; the next `GetOrInit` returns it half filled,
   without an error.

Worth knowing, and no disagreement with any document:

* `GetOrSet` of the cache, which computes without the lock, can leave a stale row
  behind a table for ever (`NoLastingStale` is stated for keys filled by
  `GetOrSetLock` alone); a callback that panics under the cache's lock leaves it
  locked. So does `MustInsert` of the index.
* A second `Await` of a future returns a zero result and no error, even when fn failed.
* `MmapInt` computes slots with Go's `%`, so a negative key gives a negative slot and
  `store` panics, with some keys only when their first slots are taken. `Save` empties
  the files of the Save before it, so one that fails leaves nothing to load, and
  those who have mapped them fault.
* A key that is stored may be answered "not found", although no Save begins during the Get: when the
  index is still being written, or when Load has mapped less data than there is. After a Load whose
  data file was empty `m.dataFile[from:]` of no bytes at offset 0 is no error, the key read is 0, and the next slot
  may be free (`mmap.go:169-173`). `NeverWrong` says that it takes a Save that was not through or a Load that did
  not map everything.
* A zone west of UTC that is no whole number of minutes does not survive the codec of `encodegen`: its seconds
  are written as a signed byte (`encodegen.go:754`) and `time.Time` adds the byte without a sign, so it comes back 256
  seconds further east (-150 as 106), or as UTC if that is -60. The instant is the same.
* `setctx` panics (`setctx.go:408`, `:421`) at an argument that is a call of a builtin, a conversion or a function of
  another file, or a variable of type error; the files before that one are written by then, the others are not.
* When database calls are added to a package that `setctx` has converted and it is run again, a call by main that
  passes the tool's own `context.Background()` to a function that was found before gets a second context, for
  `hasCtxArg` does not know the type.
* The upper bound of a prefix that ends in byte 255 carries, and leaves a byte 0
  behind: names that are a beginning of that bound are then in the range as well.
* `SubStart` measures whole milliseconds, unlike the others; a least duration of 0 is not
  shown when a longer one comes after it.
* `encodegen` encodes only the first of several names of one declaration, and nothing of a field whose
  type is declared in another file of the package.

## Proofs

TLC checks small instances. The theorems hold for every value of the constants.
They assume only the named assumptions on the constants, which the modules state
and TLC evaluates in the runs, and what their statement assumes. Besides sizes that are
numbers, these say that `None`, `NoBatch` and `Zero` are none of what they are
told apart from; that items of a tree are finitely many numbers; that a condition gives each
value a number, and one that orders by strings agrees with their order; that a table has a prime number of slots, out of a
list that goes as far as `MaxItemCount`.

Every theorem has the same shape: the property is seldom inductive, so it is a
conjunct or a consequence of a stronger invariant, whose parts say where the thing in
question is at each point of the code. Below is what has to be added, and why.

### `BulkExecuteProofs`

First for `Spec`, with late calls and panics and no timing assumption.

* `TypeCorrect`: the type invariant, action by action.
* `TokenCorrect`: `TokenInv`, the inductive invariant of the token. `OneToken`
  alone is not inductive: a receive could find a stale token, a leader could close
  a channel that was closed. It is strengthened with `ChannelOfSlot` (the channel a
  call waits on is one of its own slot) and `Generations` (no channel object newer
  than the one in a slot is closed, and the one in the slot only while its leader
  is about to replace it). Steps of calls that do not touch the ring are
  treated together in one lemma (`TokenQuiet`).
* `OneTokenHolds`, `ExecExclusiveHolds`, `ChannelsSafeHolds` follow from it.
* `DataCorrect`: `DataInv`, where data are. `ExecutedAtMostOnce` and `NothingLost`
  become inductive with `OnlySubmitted` (what is in `data` or in a batch comes from
  a call that has begun, so a new datum is new) and `BatchOnlyOnceTaken` (who has
  not led has no batch, so taking one overwrites none). It gives `ExecutedAtMostOnceHolds` and `NothingLostHolds`.

Then for `PromptSpec`, where no call is late.

* `PromptCorrect`: `PromptInv`, in three layers on top of the two above. `MembersInv`: the
  calls of a batch have the slot of their leader, who is one of them, and wait on the
  channel that he will close, the current one of the slot until he has replaced it and
  an older one after. `GroupsInv`: the WaitGroup of a slot counts its calls until they have left,
  so when a leader has passed his `Wait` (:66), those of the slot before his are gone.
  `ResultsInv`: `be.res` and `be.err` are of the batch led last, and whoever reads them, or
  has been released to, is of that batch. The three slots (`ThreeSlots`) keep apart
  the batch that leaves, the one that runs and the one that gathers; with two, `GroupsInv` fails.
* `OwnResultHolds`, `WaitNeverPanicsHolds` and `ResultStableHolds` follow.
* `ServiceImplemented`: the ring implements `BatchService`. Three steps are steps of the
  service, `Submit`, `TakeBatch` and returning; the others leave it as it is.
* `FreshAnswerHolds` and `LoaderInvHolds`, for the loader on top: rows get no older, all calls of a
  batch had begun when its leader fetched (`FetchedInv`), and what a call returns is of a leader
  who has fetched for it (`AnswersDone`).

### `MutexMapProofs`

* `TypeCorrect`, with a lemma for the creation of a lock.
* `HolderCorrect`: `HolderInv`. `Exclusion` speaks of keys, the locks of package
  sync of lock objects; what connects them is that a lock once found is the one its
  key has (`FoundCurrent`), which is exactly what the second look-up under the write
  lock preserves, and that whoever works has its lock (`WriterHasIt`,
  `ReaderHasIt`).
* `ExclusionHolds` and `UnlockFreesOwnHolds` follow: an unlock frees the lock its
  caller holds.
* `LocksPerKeyImplemented`: the refinement of `KeyedLocks`, which needs moreover that two keys
  never share a lock (`OneLockPerKey`). Announcing, parking and the creation of locks are
  stutters of the abstract lock; taking it and giving it back are its steps.

### `CacheProofs`

* `CacheCorrect`: `CacheInv`. While a callback runs its thread owns the lock and was given what the map
  still holds (`OwnerRuns`); what `GetOrSetLock` has computed stays, updated or not, on
  keys that nothing else sets or deletes (`ComputedKept`), so a second call cannot compute again.
* `NothingIsLost`: the action property `NoLostUpdate`, from the same invariant.
* `AsideIsCache`: `CacheAside` is the cache with a table beside it, so all this holds there.
* `StaleEntriesGo`: `NoLastingStale`. An entry, or what a callback has read and will store, differs from the table
  only while a writer of that row has yet to delete (`EntryCurrent`, `QueryCurrent`).

### `BTreeMutexProofs`

* `TreesCorrect`: `TreesInv`. A thread that has found a tree has found the one of its key (`TreeFound`), and initFunc has not been
  called for a key without a tree or with one whose `bTree` is nil (`TreesFilled`).
* `ScansSeeSnapshots`: `ScanIsSnapshot`. Who is in a long section has its lock, and a
  writer excludes readers (`LongSections`); so nothing changes under a scan, which by its
  choice of the next item extends a beginning of what is there (`ScansBegin`).
* `InitItemsHeld`: when initFunc does not fail, a tree that `GetOrInit` returns has its
  items. So finding 2 needs the failure: the items are in the tree,
  deleted, or yet to be inserted by the one who initialises it, and nobody else is past `Enter` then.

### `BackgroundProofs`

* `QueueCorrect`: `QueueInv`, for any capacity and sizes. Slices share arrays, so what must be shown is that an append
  never writes where exec reads: the batch is never in the array of `data` (`SlicesApart`),
  because `get` makes a new one. That the data of a call stay together is not inductive in the form
  of `NotSplit`; it is as "each datum lies in a block with all those of its call" (`Together`).
* `FuturesCorrect`: `FutureInv`. The result is on its way, in the channel, or with one of the awaits
  (`Underway`), and the channel is closed only after it was sent, so that a receive that finds it closed and empty
  comes after another one that got the result.

### `IndexesProofs`

Of `Index`, for any conditions and orders:

* `TypeCorrect`: no tree has two values of one key.
* `NoGhostsHolds`: whatever leaves the primary tree leaves the others. A value that
  stays in another tree differs, to its condition, from everything that left the
  primary one; being the same to a condition is an equivalence (`SameEquivalence`),
  so it differs from the argument to the primary condition as well, unless it were
  itself among what left.
* `TreesAgreeHolds`: `NoneMissing` is not inductive without `NoGhosts`. One inclusion
  is `NoGhosts`; for the other, values the primary condition tells apart are told
  apart by a condition that separates, so its tree loses no more.
* `RangesFoundHolds`: the two bounds for strings, for strings of any length and any greatest byte. The
  order of strings is total (`BeforeTotal`); the rest compares a name with the bound byte
  by byte (`ExactRange`, `PrefixRange`): it agrees with the prefix up to the byte that carries, or
  else it is not in the range.

Of `Mmap`, for any prime number of slots, keys and Saves:

* `SaveCorrect`, `IndexWithinDataHolds`. Nothing the reader does touches the files. The strengthening
  `SaveInv` says that the index is empty while Save works in memory, that the slots in memory
  point into the buffer, and that the data is the whole buffer before any slot is
  written, in however many pieces.
* `TableCorrect`: every key stored is at the first of its probes that no other key has taken
  (`TableInv`, the invariant of open addressing); an index that is not empty is a beginning of the
  complete table, whose data are on disk (`DiskInv`); a Get that no Save interrupts has the slot of the
  probe it is at, and, if the files were whole when it began (`Whole`), they still are and other keys have
  the probes it has gone past (`GetInv`). Without `Whole` it may have gone past its own key, which it read as 0.
* `NeverWrongHolds` follows, for keys and numbers of either sign: what is found is read from an entry that is
  all in the file, and with whole files (`CellsRead`, `SearchGoesOn`) nothing ends the search before the key, nor is
  there a fault unless a probe is negative (`ProbeInRange`); the Save that would need such a probe stops before it writes
  the index.
* `RoomForAllHolds`: the number of slots is prime, which `calcMod` is shown to give (`CalcModProper`).
  By Euclid's lemma (`Euclid`, by the least counterexample) the probes of a key that is
  not negative are all different (`ProbesDiffer`); each key stored has one slot (`OneSlotEach`), so
  fewer keys than slots cannot take all the probes.

### `TraceProofs`

`TraceCorrect` is about `TraceInv`, whose parts are:

* `CellsInv`: a cell belongs to the goroutine that filled it, which had loaded the
  length before it.
* `MeasuresInv`: who stores to a list of measures has its mutex and its cell. While `StartTrace`
  runs no goroutine belongs to the trace, so a length from before a reset can be stored only before
  one of those that do is done; after that the measures of the trace stay within the
  length (`Stored`). This is why the resets without the mutex lose nothing of the trace.
* `ReportInv`: a measure that was done when the report began is counted by the length it loads (`Counted`).
* `OldInv`: cells from before `StartTrace` lie beyond the lengths, stored and about to be stored, of every
  list that nobody was appending to at its reset (`FreshList`).
* `SampledInv`: the second look under the lock leaves one winner for each query (`OneWinner`); where two have not
  appended at once, it has its cell within the length or is about to (`LoneStore`, `Winners`).
* `ExplainedInv`: what the last report has read of the queries.

`NothingMissedHolds`, `NothingOldHolds` and `ExplainedHolds` follow for the last report. What a
step does to goroutines, lists and timers is stated once (`Moves`, `AppendStep`, `StoreStep`, `ReadStep`
and their kin), so that the proof of a part need not look into the actions.

The report, for any measures. Sums are recursive functions, and counting is an
induction: both go through sets of numbers, of which the least one that fails is
looked at (`LeastOfNaturals`, `CountedUp`). So it is shown that partial sums exist
(`SumsExist`), what one term more does to a sum (`SumChange`), and that a sum taken group by group is
the sum (`SumOfGroups`).

* `StatsInductive`: `StatsInv`. A loop's map after m measures has the keys of those, each with the
  number, sum, minimum and maximum of the measures of its key (`LoopsInv`). While the rows are made,
  every path of SQL calls is in the map still, with all its calls, or has one row that
  has them all, and no row is of two (`RowsInv`: `Together`, `Placed`). That is what the deletions
  are for: without them the rows of "unknown" would count a path twice.
* `StatsRightHolds`: each number shown is that of the measures themselves, a mean of 0 counted right too.
* `RowsAddUpHolds`: so the SQL calls of all rows are as many as were measured, and as the part about
  SQL alone counts. It says nothing of the HTTP calls in the rows.

### `ToolsProofs`

`SetCtx`, for any functions and any packages that compile:

* `ToolCorrect`: `ToolInv`. During a search, what the functions entered call has been entered or is still to
  be (`SearchInv`), so at its end `visited` is closed; one that found no database call has none in
  `Reaching`, the smallest set closed under calling, and the other way round whoever reaches one
  has reached it through what was entered. So `dbCallFuncMap` is `Reaching`, recursion or not. After that each function is
  as it was read or is what it must become (`Result`), whatever has been converted before it
  (`ConvertInv`).
* `OnlyWhereNeededHolds`, `OnceIsEnoughHolds` and `CallsAgreeHolds` follow. The last is about packages that are
  `Plain`, and need it: a function without a parameter that passes on the context of a function
  literal is found to reach the database, but no call of it is converted, so it gets no parameter, while its callers
  pass it a context.

`Varint`, for every width, number and input, by the least number of which something fails:

* `VarintFits`: an integer of so many bits, with a sign or without, takes no more bytes
  than `MaxVarintLen`. It is the case of numbers in `MaxSizeSuffices`.
* `VarintReadsBack`: from wherever the bytes of a number stand in the input,
  that number is read, and reading ends exactly behind them. It is the case of numbers in `DecodesBack`.

### What is only model-checked

* Liveness: `EveryCallReturns`, `Independence`, `EveryOpReturns`, `AllExecuted`,
  `EveryoneReturns` rest on fairness, which is out of reach of the provers used.
* `MaxSizeSuffices` and `DecodesBack`, beyond the numbers: `Size`, `Put` and `Get` are recursive operators over the tree
  of a type, which has no measure in the numbers to take the least of unless it is
  written into the model, and which these provers cannot do induction over.
* What `Power` is: that `Varint`'s powers of 2 are those of the arithmetic of `Codec` is seen in the runs only.

The inductive invariants were checked by TLC on small instances before they were
proved.

## Not modelled

* pprof: it starts the profilers of the runtime and closes files.
* `trace`: files that cannot be created; the text of the report and its quotients, the binding of parameters into
  queries, EXPLAIN (and its `q[:6]`, which panics for a shorter query); the array of
  queries when it outgrows its thirty, which loses appends as two at once do; two
  traces that overlap (the second resets what the first was to report).
* `index`: the other searches (`Ascend`, `Descend` and their ranges, `Min`, `Max`, `Len`),
  which read the same trees under the same lock.
* `mmap`: a `Get` that spans two Saves may mix them, and the properties do not speak
  of it; `Encode` and `Decode` of items are the caller's.
* `encodegen`: parsing of Go and the text of the generated code; the order of a map's
  iteration (a map is the sequence of its pairs in the order met, and encoding and
  decoding follow it).
* `setctx`: the files, rewritten in place one after the other, so that an error half
  way leaves a package half converted; calls that pass a context whose type
  `hasCtxArg` does not see, such as `context.Background()`, are in the model, but
  `CallsAgree` does not speak of programs that have them (the tool itself writes one into main, so neither of
  programs to which calls were added later); calls in initialisers of packages and in values that are functions;
  the panics named above.
* In what else is modelled: the narrow window inside `sync.WaitGroup` in which `Add`
  concurrent with `Wait` panics with "misuse" (the model has the reuse panic after
  a wake-up); callbacks that call back into the cache or the tree they were called
  from, which would wait for themselves; `Unlock` of a key the caller has not
  locked; the queue of `asyncexecute` when the program exits, whose last data are lost;
  panics in goroutines the libraries start, which end the program.
