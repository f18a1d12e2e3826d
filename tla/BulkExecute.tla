---------------------------- MODULE BulkExecute ----------------------------
(***************************************************************************)
(* library/bulkexecute: concurrent calls of Execute are gathered into a    *)
(* batch and one of them, the leader, runs exec on the whole batch.        *)
(*                                                                         *)
(* A ring of execNum slots holds, per slot, a channel and a WaitGroup.     *)
(* One token circulates through the channels: the call that receives it    *)
(* leads the batch of that slot; the others are released when the leader   *)
(* closes the channel, and read the shared res and err fields.             *)
(*                                                                         *)
(* Each element of Calls is one invocation of Execute.  The datum it       *)
(* submits is identified with the call, and the result of a batch with the *)
(* call that led it.  Both critical sections of be.m are free of blocking  *)
(* operations, so each is one action.  Accesses to fields made outside of  *)
(* be.m are actions of their own.                                          *)
(***************************************************************************)
EXTENDS Integers, Sequences, Functions

CONSTANTS
  Calls,         \* the invocations of Execute
  NoBatch,       \* the zero value of be.res and be.err
  ExecMayPanic   \* whether exec may panic (and the caller's server recover)

ASSUME CallsAssumption == NoBatch \notin Calls
ASSUME PanicAssumption == ExecMayPanic \in BOOLEAN

\* Faulty variants of definitions stand beside them, under names that say what
\* is wrong; no specification uses them, only the mutation runs do.
TwoSlots == 2
execNum == 3

Slots == 0 .. execNum - 1
NextSlotUnwrapped(s) == s + 1
NextSlot(s) == (s + 1) % execNum
PrevSlot(s) == (s + execNum - 1) % execNum

VARIABLES
  data,     \* be.data: the calls whose datum waits for a batch
  count,    \* be.count: the slot new calls join
  chans,    \* be.chans: chans[s] numbers the channel object now in slot s
  full,     \* the channel objects that hold a token (capacity 1)
  closed,   \* the channel objects that have been closed
  wgs,      \* be.wgs: wgs[s] is the set of calls counted by WaitGroup s
  res,      \* be.res: the leader whose batch produced it
  err,      \* be.err: likewise
  pc,       \* where each call stands
  slot,     \* local variable current
  ch,       \* the channel object a call evaluated at its receive
  batch,    \* local variable d of a leader
  got       \* what a call returns: the pair of (origins of) res and err

shared == <<data, count, chans, full, closed, wgs, res, err>>
locals == <<pc, slot, ch, batch, got>>
vars   == <<shared, locals>>

\* A channel object is a slot and a generation: make never reuses one.
Channel == Slots \X Nat
Current(s) == <<s, chans[s]>>

\* Line by line, the places a call can be in.
Holding  == {"sleep", "exec", "wait", "asleep", "woken", "setres", "seterr",
             "close", "renew", "pass"}
Reading  == {"readres", "readerr"}
PCs == {"idle", "add", "chan", "recv", "return", "returned", "panicked"}
         \cup Holding \cup Reading

Goto(c, label) == pc' = [pc EXCEPT ![c] = label]

Init ==
  /\ data = <<>>
  /\ count = 0
  /\ chans = [s \in Slots |-> 0]
  /\ full = {<<0, 0>>}
  /\ closed = {}
  /\ wgs = [s \in Slots |-> {}]
  /\ res = NoBatch
  /\ err = NoBatch
  /\ pc = [c \in Calls |-> "idle"]
  /\ slot = [c \in Calls |-> 0]
  /\ ch = [c \in Calls |-> <<0, 0>>]
  /\ batch = [c \in Calls |-> <<>>]
  /\ got = [c \in Calls |-> [res |-> NoBatch, err |-> NoBatch]]

----------------------------------------------------------------------------
(* Joining a batch. *)

SubmitOverwrites(c) ==
  /\ pc[c] = "idle"
  /\ data' = <<c>>
  /\ slot' = [slot EXCEPT ![c] = count]
  /\ Goto(c, "add")
  /\ UNCHANGED <<count, chans, full, closed, wgs, res, err, ch, batch, got>>

\* Lock; append the datum; remember the slot; Unlock.
Submit(c) ==
  /\ pc[c] = "idle"
  /\ data' = Append(data, c)
  /\ slot' = [slot EXCEPT ![c] = count]
  /\ Goto(c, "add")
  /\ UNCHANGED <<count, chans, full, closed, wgs, res, err, ch, batch, got>>

\* wgs[current].Add(1), outside of the lock.
AddToGroup(c) ==
  /\ pc[c] = "add"
  /\ wgs' = [wgs EXCEPT ![slot[c]] = @ \cup {c}]
  /\ Goto(c, "chan")
  /\ UNCHANGED <<data, count, chans, full, closed, res, err, slot, ch, batch, got>>

\* The operand be.chans[current] of the receive is evaluated, without a lock.
EvaluateChannel(c) ==
  /\ pc[c] = "chan"
  /\ ch' = [ch EXCEPT ![c] = Current(slot[c])]
  /\ Goto(c, "recv")
  /\ UNCHANGED <<shared, slot, batch, got>>

\* The receive yields the token: the call becomes the leader of its slot.
ReceiveToken(c) ==
  /\ pc[c] = "recv"
  /\ ch[c] \in full
  /\ full' = full \ {ch[c]}
  /\ Goto(c, "sleep")
  /\ UNCHANGED <<data, count, chans, closed, wgs, res, err, slot, ch, batch, got>>

ClosedTakenForToken(c) ==
  /\ pc[c] = "recv"
  /\ ch[c] \in closed \ full
  /\ Goto(c, "sleep")
  /\ UNCHANGED <<shared, slot, ch, batch, got>>

\* The receive finds the channel closed and drained: the batch has been run.
ReceiveClosed(c) ==
  /\ pc[c] = "recv"
  /\ ch[c] \in closed \ full
  /\ Goto(c, "readres")
  /\ UNCHANGED <<shared, slot, ch, batch, got>>

----------------------------------------------------------------------------
(* The follower: return be.res, be.err. *)

ReadRes(c) ==
  /\ pc[c] = "readres"
  /\ got' = [got EXCEPT ![c].res = res]
  /\ Goto(c, "readerr")
  /\ UNCHANGED <<shared, slot, ch, batch>>

ReadErr(c) ==
  /\ pc[c] = "readerr"
  /\ got' = [got EXCEPT ![c].err = err]
  /\ Goto(c, "return")
  /\ UNCHANGED <<shared, slot, ch, batch>>

----------------------------------------------------------------------------
(* The leader. *)

TakeBatchKeepsData(c) ==
  /\ pc[c] = "sleep"
  /\ batch' = [batch EXCEPT ![c] = data]
  /\ count' = NextSlot(slot[c])
  /\ Goto(c, "exec")
  /\ UNCHANGED <<data, chans, full, closed, wgs, res, err, slot, ch, got>>

TakeBatchStays(c) ==
  /\ pc[c] = "sleep"
  /\ batch' = [batch EXCEPT ![c] = data]
  /\ data' = <<>>
  /\ Goto(c, "exec")
  /\ UNCHANGED <<count, chans, full, closed, wgs, res, err, slot, ch, got>>

\* After time.Sleep(be.wait): Lock; take the batch; move count on; Unlock;
\* and call exec.
TakeBatch(c) ==
  /\ pc[c] = "sleep"
  /\ batch' = [batch EXCEPT ![c] = data]
  /\ data' = <<>>
  /\ count' = NextSlot(slot[c])
  /\ Goto(c, "exec")
  /\ UNCHANGED <<chans, full, closed, wgs, res, err, slot, ch, got>>

ExecReturns(c) ==
  /\ pc[c] = "exec"
  /\ got' = [got EXCEPT ![c] = [res |-> c, err |-> c]]
  /\ Goto(c, "wait")
  /\ UNCHANGED <<shared, slot, ch, batch>>

WaitSkipped(c) ==
  /\ pc[c] = "wait"
  /\ Goto(c, "setres")
  /\ UNCHANGED <<shared, slot, ch, batch, got>>

ClosedBeforeStore(c) ==
  /\ pc[c] = "wait"
  /\ Goto(c, IF wgs[PrevSlot(slot[c])] = {} THEN "setres" ELSE "asleep")
  /\ closed' = closed \cup {Current(slot[c])}
  /\ UNCHANGED <<data, count, chans, full, wgs, res, err, slot, ch, batch, got>>

\* WaitGroup.Wait on the previous slot: return at once when the counter is
\* zero, or go to sleep until the last Done.
WaitPrevious(c) ==
  /\ pc[c] = "wait"
  /\ Goto(c, IF wgs[PrevSlot(slot[c])] = {} THEN "setres" ELSE "asleep")
  /\ UNCHANGED <<shared, slot, ch, batch, got>>

\* A woken Wait that finds the counter still zero returns.
WaitReturns(c) ==
  /\ pc[c] = "woken"
  /\ wgs[PrevSlot(slot[c])] = {}
  /\ Goto(c, "setres")
  /\ UNCHANGED <<shared, slot, ch, batch, got>>

\* be.res, be.err = res, err: two stores, neither under the lock.
SetRes(c) ==
  /\ pc[c] = "setres"
  /\ res' = c
  /\ Goto(c, "seterr")
  /\ UNCHANGED <<data, count, chans, full, closed, wgs, err, slot, ch, batch, got>>

SetErr(c) ==
  /\ pc[c] = "seterr"
  /\ err' = c
  /\ Goto(c, "close")
  /\ UNCHANGED <<data, count, chans, full, closed, wgs, res, slot, ch, batch, got>>

\* close(be.chans[current])
CloseChannel(c) ==
  /\ pc[c] = "close"
  /\ closed' = closed \cup {Current(slot[c])}
  /\ Goto(c, "renew")
  /\ UNCHANGED <<data, count, chans, full, wgs, res, err, slot, ch, batch, got>>

RenewForgotten(c) ==
  /\ pc[c] = "renew"
  /\ Goto(c, "pass")
  /\ UNCHANGED <<shared, slot, ch, batch, got>>

\* be.chans[current] = make(chan struct{}, 1)
RenewChannel(c) ==
  /\ pc[c] = "renew"
  /\ chans' = [chans EXCEPT ![slot[c]] = @ + 1]
  /\ Goto(c, "pass")
  /\ UNCHANGED <<data, count, full, closed, wgs, res, err, slot, ch, batch, got>>

\* be.chans[next] <- struct{}{}, which blocks while the buffer is full.
PassToken(c) ==
  /\ pc[c] = "pass"
  /\ LET next == Current(NextSlot(slot[c]))
     IN  /\ next \notin full
         /\ full' = full \cup {next}
  /\ Goto(c, "return")
  /\ UNCHANGED <<data, count, chans, closed, wgs, res, err, slot, ch, batch, got>>

----------------------------------------------------------------------------
(* Leaving Execute, normally or by a panic: the deferred wgs[current].Done() *)
(* runs, and the last Done wakes the leader asleep in Wait on that group.    *)

Leave(c, label) ==
  /\ wgs' = [wgs EXCEPT ![slot[c]] = @ \ {c}]
  /\ pc' = [d \in Calls |->
              IF d = c THEN label
              ELSE IF /\ pc[d] = "asleep"
                      /\ PrevSlot(slot[d]) = slot[c]
                      /\ wgs[slot[c]] = {c}
                   THEN "woken"
                   ELSE pc[d]]
  /\ UNCHANGED <<data, count, chans, full, closed, res, err, slot, ch, batch, got>>

Return(c) ==
  /\ pc[c] = "return"
  /\ Leave(c, "returned")

\* exec panics.  The token the leader holds is never passed on.
ExecPanics(c) ==
  /\ ExecMayPanic
  /\ pc[c] = "exec"
  /\ Leave(c, "panicked")

\* A woken Wait that finds the counter raised again panics ("WaitGroup is
\* reused before previous Wait has returned").
WaitPanics(c) ==
  /\ pc[c] = "woken"
  /\ wgs[PrevSlot(slot[c])] # {}
  /\ Leave(c, "panicked")

\* Every step of a call after it has joined a batch, exec's return apart.
Proceed(c) ==
  \/ AddToGroup(c) \/ EvaluateChannel(c) \/ ReceiveToken(c) \/ ReceiveClosed(c)
  \/ ReadRes(c) \/ ReadErr(c)
  \/ TakeBatch(c) \/ WaitPrevious(c) \/ WaitReturns(c)
  \/ SetRes(c) \/ SetErr(c) \/ CloseChannel(c) \/ RenewChannel(c) \/ PassToken(c)
  \/ Return(c) \/ ExecPanics(c) \/ WaitPanics(c)

Step(c) == ExecReturns(c) \/ Proceed(c)

Next == \E c \in Calls : Submit(c) \/ Step(c)

Spec == Init /\ [][Next]_vars

\* A started call keeps running: goroutines are never parked except on a
\* channel or a WaitGroup.  Nobody is obliged to call Execute.
Fairness == \A c \in Calls : WF_vars(Step(c))

FairSpec == Spec /\ Fairness

----------------------------------------------------------------------------
(* The timing assumption.  Between joining a batch (bulkexecute.go:45) and  *)
(* evaluating its channel (:50) a call does nothing but wgs.Add; the leader *)
(* meanwhile sleeps, runs exec, and publishes.  Nothing in the code makes   *)
(* the leader wait for such a call: PromptSpec assumes that each call gets  *)
(* through before the leader of its batch replaces the channel.             *)

\* The leader l has replaced the channel its batch was to wait on.
HasRenewed(l) == batch[l] # <<>> /\ pc[l] \in {"pass", "return", "returned"}

NoStraggler ==
  \A l \in Calls : HasRenewed(l) =>
    \A c \in Range(batch[l]) : pc[c] \notin {"add", "chan"}

PromptNext == Next /\ NoStraggler'

PromptSpec == Init /\ [][PromptNext]_vars

PromptFairSpec == PromptSpec /\ Fairness

----------------------------------------------------------------------------
(* Properties of every execution. *)

TypeOK ==
  /\ data \in Seq(Calls)
  /\ count \in Slots
  /\ chans \in [Slots -> Nat]
  /\ full \subseteq Channel
  /\ closed \subseteq Channel
  /\ wgs \in [Slots -> SUBSET Calls]
  /\ res \in Calls \cup {NoBatch}
  /\ err \in Calls \cup {NoBatch}
  /\ pc \in [Calls -> PCs]
  /\ slot \in [Calls -> Slots]
  /\ ch \in [Calls -> Channel]
  /\ batch \in [Calls -> Seq(Calls)]
  /\ got \in [Calls -> [res : Calls \cup {NoBatch}, err : Calls \cup {NoBatch}]]

\* bulkexecute_test.go:31 panics with "parallel execute": two batches are
\* never executed at a time, whatever the interleaving of the calls, even
\* when calls are late or exec has panicked.
ExecExclusive ==
  \A c, d \in Calls : pc[c] = "exec" /\ pc[d] = "exec" => c = d

\* bulkexecute_test.go:36 panics with "duplicate input": no datum is handed
\* to exec twice, in one batch or in two, nor executed while it still waits.
ExecutedAtMostOnce ==
  /\ \A i, j \in DOMAIN data : data[i] = data[j] => i = j
  /\ \A l \in Calls : \A i \in DOMAIN batch[l] :
       /\ \A j \in DOMAIN data : batch[l][i] # data[j]
       /\ \A m \in Calls : \A j \in DOMAIN batch[m] :
            batch[l][i] = batch[m][j] => l = m /\ i = j

\* bulkexecute_test.go:88 counts 5000 stored users: a submitted datum is
\* waiting or in the batch of some leader, it is never dropped.
NothingLost ==
  \A c \in Calls : pc[c] # "idle" =>
    c \in Range(data) \/ \E l \in Calls : c \in Range(batch[l])

\* The runtime panics that channels can raise cannot happen, and the send of
\* the token never blocks: a leader about to close its channel finds it open,
\* and one about to send finds the next channel open and empty.
ChannelsSafe ==
  \A c \in Calls :
    /\ pc[c] = "close" => Current(slot[c]) \notin closed
    /\ pc[c] = "pass"  => Current(NextSlot(slot[c])) \notin closed \cup full

\* There is one token: it is in the channel of the slot that new calls join,
\* or with one leader, or lost to a panic.  The leader's slot is the one new
\* calls join until it has taken its batch, and the one before afterwards.
Leading(c) == pc[c] \in Holding

OneToken ==
  /\ full \subseteq {Current(count)}
  /\ \A c \in Calls : Leading(c) =>
       /\ full = {}
       /\ count = IF pc[c] = "sleep" THEN slot[c] ELSE NextSlot(slot[c])
       /\ \A d \in Calls : Leading(d) => c = d

----------------------------------------------------------------------------
(* Properties that need the timing assumption. *)

\* bulkexecute_test.go:80: what a call returns comes from one batch, both
\* halves, and that batch contained its datum.
OwnResult ==
  \A c \in Calls : pc[c] \in {"return", "returned"} =>
    /\ got[c].err = got[c].res
    /\ got[c].res \in Calls
    /\ c \in Range(batch[got[c].res])

\* While a follower copies be.res and be.err no leader overwrites them, though
\* the next batch may already have been executed: this is what the WaitGroup
\* of the previous slot is for.
ResultStable ==
  [][(\E c \in Calls : pc[c] \in Reading) => UNCHANGED <<res, err>>]_vars

\* A WaitGroup is never reused before its previous Wait has returned: the
\* three slots of the ring keep the Add of a new batch away from the Wait of
\* the previous one.
WaitNeverPanics ==
  \A c \in Calls : pc[c] = "woken" => wgs[PrevSlot(slot[c])] = {}

\* bulkexecute_test.go:87 waits for all its calls: whichever calls are made, in
\* the end all of them have returned; no wait of a leader closes a cycle.
EveryCallReturns ==
  <>[](\A c \in Calls : pc[c] \in {"idle", "returned"})

----------------------------------------------------------------------------
(* What a user of Execute sees: the calls waiting, the batches executed, and *)
(* the batch each call was answered from.                                    *)

AnswerOf(c) ==
  IF pc[c] \in {"return", "returned"} /\ got[c].res \in Calls
  THEN Range(batch[got[c].res]) ELSE {}

Service == INSTANCE BatchService WITH
  waiting <- Range(data),
  batches <- {Range(batch[l]) : l \in Calls} \ {{}},
  answer  <- [c \in Calls |-> AnswerOf(c)]

\* With prompt calls the ring of channels, WaitGroups and unlocked fields
\* implements the batch service: each batch is all that waits when it is
\* taken, and each call is answered once, from the batch that took it.
ImplementsBatchService == Service!Spec
=============================================================================
