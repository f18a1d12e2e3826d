------------------------- MODULE BulkExecuteProofs -------------------------
(***************************************************************************)
(* Proofs about BulkExecute and DataLoader, for any set of calls, keys and *)
(* numbers of writes: about every execution first, late calls and panics   *)
(* of exec included, and then about those in which no call is late.        *)
(***************************************************************************)
EXTENDS DataLoader, TLAPS

\* The ring of slots: the neighbours of a slot are slots.
LEMMA SlotArithmetic ==
  ASSUME NEW s \in Slots
  PROVE  /\ NextSlot(s) \in Slots
         /\ PrevSlot(s) \in Slots
BY DEF Slots, NextSlot, PrevSlot, execNum

\* The channel object in a slot is a channel object of that slot.
LEMMA CurrentChannel ==
  ASSUME NEW s \in Slots, chans \in [Slots -> Nat]
  PROVE  Current(s) \in Channel
<1>1. chans[s] \in Nat
  OBVIOUS
<1> QED
  BY <1>1 DEF Current, Channel

----------------------------------------------------------------------------
(* Type correctness. *)

\* The first state is well typed.
LEMMA TypeInit == Init => TypeOK
BY DEF Init, TypeOK, Slots, execNum, Channel, PCs, Holding, Reading

\* Leaving Execute, by return or by panic, keeps the state well typed.
LEMMA TypeLeave ==
  ASSUME NEW c \in Calls, NEW label \in PCs, TypeOK, Leave(c, label)
  PROVE  TypeOK'
<1>1. wgs' \in [Slots -> SUBSET Calls]
  BY DEF TypeOK, Leave
<1>2. pc' \in [Calls -> PCs]
  <2>1. pc \in [Calls -> PCs] /\ "woken" \in PCs
    BY DEF TypeOK, PCs, Holding
  <2>2. ASSUME NEW d \in Calls PROVE pc'[d] \in PCs
    BY <2>1 DEF Leave
  <2>3. DOMAIN pc' = Calls /\ pc' = [d \in Calls |-> pc'[d]]
    BY DEF Leave
  <2> QED
    BY <2>2, <2>3
<1> QED
  BY <1>1, <1>2 DEF TypeOK, Leave

\* Every step keeps the state well typed.
LEMMA TypeNext == TypeOK /\ [Next]_vars => TypeOK'
<1> SUFFICES ASSUME TypeOK, [Next]_vars PROVE TypeOK'
  OBVIOUS
<1> USE DEF TypeOK, shared, locals, Goto, PCs, Holding, Reading
<1>1. ASSUME NEW c \in Calls, Submit(c) PROVE TypeOK'
  BY <1>1 DEF Submit
<1>2. ASSUME NEW c \in Calls, AddToGroup(c) PROVE TypeOK'
  BY <1>2 DEF AddToGroup
<1>3. ASSUME NEW c \in Calls, EvaluateChannel(c) PROVE TypeOK'
  BY <1>3 DEF EvaluateChannel, Current, Channel
<1>4. ASSUME NEW c \in Calls, ReceiveToken(c) PROVE TypeOK'
  BY <1>4 DEF ReceiveToken
<1>5. ASSUME NEW c \in Calls, ReceiveClosed(c) PROVE TypeOK'
  BY <1>5 DEF ReceiveClosed
<1>6. ASSUME NEW c \in Calls, ReadRes(c) PROVE TypeOK'
  BY <1>6 DEF ReadRes
<1>7. ASSUME NEW c \in Calls, ReadErr(c) PROVE TypeOK'
  BY <1>7 DEF ReadErr
<1>8. ASSUME NEW c \in Calls, TakeBatch(c) PROVE TypeOK'
  BY <1>8, SlotArithmetic DEF TakeBatch
<1>9. ASSUME NEW c \in Calls, ExecReturns(c) PROVE TypeOK'
  BY <1>9 DEF ExecReturns
<1>10. ASSUME NEW c \in Calls, WaitPrevious(c) PROVE TypeOK'
  BY <1>10 DEF WaitPrevious
<1>11. ASSUME NEW c \in Calls, WaitReturns(c) PROVE TypeOK'
  BY <1>11 DEF WaitReturns
<1>12. ASSUME NEW c \in Calls, SetRes(c) PROVE TypeOK'
  BY <1>12 DEF SetRes
<1>13. ASSUME NEW c \in Calls, SetErr(c) PROVE TypeOK'
  BY <1>13 DEF SetErr
<1>14. ASSUME NEW c \in Calls, CloseChannel(c) PROVE TypeOK'
  <2>1. Current(slot[c]) \in Channel
    BY CurrentChannel
  <2> QED
    BY <1>14, <2>1 DEF CloseChannel
<1>15. ASSUME NEW c \in Calls, RenewChannel(c) PROVE TypeOK'
  BY SMTT(60), <1>15 DEF RenewChannel
<1>16. ASSUME NEW c \in Calls, PassToken(c) PROVE TypeOK'
  <2>1. Current(NextSlot(slot[c])) \in Channel
    BY CurrentChannel, SlotArithmetic
  <2> QED
    BY <1>16, <2>1 DEF PassToken
<1>17. ASSUME NEW c \in Calls, Return(c) \/ ExecPanics(c) \/ WaitPanics(c) PROVE TypeOK'
  BY <1>17, TypeLeave DEF Return, ExecPanics, WaitPanics
<1>18. CASE UNCHANGED vars
  BY <1>18 DEF vars
<1> QED
  BY <1>1, <1>2, <1>3, <1>4, <1>5, <1>6, <1>7, <1>8, <1>9, <1>10, <1>11, <1>12,
     <1>13, <1>14, <1>15, <1>16, <1>17, <1>18 DEF Next, Step, Proceed

\* Every variable keeps its type in every execution.
THEOREM TypeCorrect == Spec => []TypeOK
BY TypeInit, TypeNext, PTL DEF Spec

----------------------------------------------------------------------------
(* The token.  ExecExclusive is not inductive: that no second call can start *)
(* to lead rests on where the token is, on the channel a call waits for      *)
(* being one of its own slot, and ChannelsSafe on which generations of the   *)
(* channels are closed.                                                      *)

ChannelOfSlot == \A c \in Calls : pc[c] = "recv" => ch[c][1] = slot[c]

Generations ==
  \A k \in closed :
    /\ k[2] <= chans[k[1]]
    /\ k[2] = chans[k[1]] => \E c \in Calls : pc[c] = "renew" /\ slot[c] = k[1]

TokenInv == TypeOK /\ OneToken /\ ChannelOfSlot /\ Generations

\* There is a token in the channel of the first slot, and nobody waits.
LEMMA TokenInit == Init => TokenInv
<1> SUFFICES ASSUME Init PROVE TokenInv
  OBVIOUS
<1>1. TypeOK
  BY TypeInit
<1>2. OneToken
  BY DEF Init, OneToken, Current, Leading, Holding, Slots, execNum
<1>3. ChannelOfSlot /\ Generations
  BY DEF Init, ChannelOfSlot, Generations
<1> QED
  BY <1>1, <1>2, <1>3 DEF TokenInv

\* A step that touches neither the ring nor who leads keeps the invariant.
LEMMA TokenQuiet ==
  ASSUME TokenInv, TypeOK', UNCHANGED <<count, chans, full, closed, ch, slot>>,
         \A c \in Calls :
           /\ pc[c] = "renew" <=> pc'[c] = "renew"
           /\ pc[c] = "sleep" <=> pc'[c] = "sleep"
           /\ pc[c] = "recv" <=> pc'[c] = "recv"
           /\ Leading(c)' => Leading(c)
  PROVE  TokenInv'
<1>1. OneToken'
  BY DEF TokenInv, OneToken, Current
<1>2. ChannelOfSlot' /\ Generations'
  BY DEF TokenInv, ChannelOfSlot, Generations
<1> QED
  BY <1>1, <1>2 DEF TokenInv

\* Every step keeps the token invariant.
LEMMA TokenNext == TokenInv /\ [Next]_vars => TokenInv'
<1> SUFFICES ASSUME TokenInv, [Next]_vars PROVE TokenInv'
  OBVIOUS
<1>0. TypeOK /\ TypeOK'
  BY TypeNext DEF TokenInv
<1>1. ASSUME NEW c \in Calls, Submit(c) PROVE TokenInv'
  <2>1. pc[c] = "idle" /\ pc' = [pc EXCEPT ![c] = "add"]
        /\ slot' = [slot EXCEPT ![c] = count]
        /\ UNCHANGED <<count, chans, full, closed, ch>>
    BY <1>1 DEF Submit, Goto
  <2>2. OneToken'
    BY <1>0, <2>1 DEF TokenInv, TypeOK, OneToken, Current, Leading, Holding
  <2>3. ChannelOfSlot' /\ Generations'
    BY <1>0, <2>1 DEF TokenInv, TypeOK, ChannelOfSlot, Generations
  <2> QED
    BY <1>0, <2>2, <2>3 DEF TokenInv
<1>2. ASSUME NEW c \in Calls, EvaluateChannel(c) PROVE TokenInv'
  <2>1. pc[c] = "chan" /\ pc' = [pc EXCEPT ![c] = "recv"]
        /\ ch' = [ch EXCEPT ![c] = Current(slot[c])]
        /\ UNCHANGED <<count, chans, full, closed, slot>>
    BY <1>2 DEF EvaluateChannel, Goto, shared
  <2>2. OneToken'
    BY <1>0, <2>1 DEF TokenInv, TypeOK, OneToken, Current, Leading, Holding
  <2>3. ChannelOfSlot' /\ Generations'
    BY <1>0, <2>1 DEF TokenInv, TypeOK, ChannelOfSlot, Generations, Current
  <2> QED
    BY <1>0, <2>2, <2>3 DEF TokenInv
<1>3. ASSUME NEW c \in Calls, ReceiveToken(c) PROVE TokenInv'
  <2>1. pc[c] = "recv" /\ ch[c] \in full /\ pc' = [pc EXCEPT ![c] = "sleep"]
        /\ full' = full \ {ch[c]} /\ UNCHANGED <<count, chans, closed, slot, ch>>
    BY <1>3 DEF ReceiveToken, Goto
  <2>2. ch[c] = Current(count) /\ ch[c][1] = slot[c]
    BY <2>1 DEF TokenInv, OneToken, ChannelOfSlot
  <2>3. slot[c] = count /\ full' = {}
    BY <2>1, <2>2 DEF TokenInv, OneToken, Current
  <2>4. \A d \in Calls : ~Leading(d)
    BY <2>1 DEF TokenInv, OneToken
  <2>5. \A d \in Calls : Leading(d)' => d = c
    BY <1>0, <2>1, <2>4 DEF TypeOK, Leading
  <2>6. OneToken'
    BY <1>0, <2>1, <2>3, <2>5 DEF TypeOK, OneToken
  <2>7. ChannelOfSlot' /\ Generations'
    BY <1>0, <2>1 DEF TokenInv, TypeOK, ChannelOfSlot, Generations
  <2> QED
    BY <1>0, <2>6, <2>7 DEF TokenInv
<1>4. ASSUME NEW c \in Calls, ReceiveClosed(c) PROVE TokenInv'
  <2>1. pc[c] = "recv" /\ pc' = [pc EXCEPT ![c] = "readres"]
        /\ UNCHANGED <<count, chans, full, closed, slot, ch>>
    BY <1>4 DEF ReceiveClosed, Goto, shared
  <2>2. OneToken'
    BY <1>0, <2>1 DEF TokenInv, TypeOK, OneToken, Current, Leading, Holding
  <2>3. ChannelOfSlot' /\ Generations'
    BY <1>0, <2>1 DEF TokenInv, TypeOK, ChannelOfSlot, Generations
  <2> QED
    BY <1>0, <2>2, <2>3 DEF TokenInv
<1>5. ASSUME NEW c \in Calls, TakeBatch(c) PROVE TokenInv'
  <2>1. pc[c] = "sleep" /\ pc' = [pc EXCEPT ![c] = "exec"]
        /\ count' = NextSlot(slot[c]) /\ UNCHANGED <<chans, full, closed, slot, ch>>
    BY <1>5 DEF TakeBatch, Goto
  <2>2. Leading(c) /\ full = {} /\ \A d \in Calls : Leading(d) => d = c
    BY <2>1 DEF TokenInv, OneToken, Leading, Holding
  <2>3. \A d \in Calls : Leading(d)' => d = c /\ pc'[d] # "sleep"
    BY <1>0, <2>1, <2>2 DEF TypeOK, Leading
  <2>4. NextSlot(slot[c])' = NextSlot(slot[c])
    BY <2>1 DEF NextSlot
  <2>5. OneToken'
    BY <2>1, <2>2, <2>3, <2>4 DEF OneToken
  <2>6. ChannelOfSlot' /\ Generations'
    BY <1>0, <2>1 DEF TokenInv, TypeOK, ChannelOfSlot, Generations
  <2> QED
    BY <1>0, <2>5, <2>6 DEF TokenInv
<1>6. ASSUME NEW c \in Calls, CloseChannel(c) PROVE TokenInv'
  <2>1. pc[c] = "close" /\ pc' = [pc EXCEPT ![c] = "renew"]
        /\ closed' = closed \cup {Current(slot[c])}
        /\ UNCHANGED <<count, chans, full, slot, ch>>
    BY <1>6 DEF CloseChannel, Goto
  <2>2. OneToken'
    BY <1>0, <2>1 DEF TokenInv, TypeOK, OneToken, Current, Leading, Holding
  <2>3. ChannelOfSlot'
    BY <1>0, <2>1 DEF TokenInv, TypeOK, ChannelOfSlot
  <2>4. ASSUME NEW k \in closed'
        PROVE  /\ k[2] <= chans'[k[1]]
               /\ k[2] = chans'[k[1]] =>
                    \E d \in Calls : pc'[d] = "renew" /\ slot'[d] = k[1]
    <3>1. CASE k \in closed
      BY <1>0, <2>1, <3>1 DEF TokenInv, TypeOK, Generations
    <3>2. CASE k = Current(slot[c])
      BY <1>0, <2>1, <3>2 DEF TypeOK, Current
    <3> QED
      BY <2>1, <3>1, <3>2
  <2> QED
    BY <1>0, <2>2, <2>3, <2>4 DEF TokenInv, Generations
<1>7. ASSUME NEW c \in Calls, RenewChannel(c) PROVE TokenInv'
  <2>1. pc[c] = "renew" /\ pc' = [pc EXCEPT ![c] = "pass"]
        /\ chans' = [chans EXCEPT ![slot[c]] = @ + 1]
        /\ UNCHANGED <<count, full, closed, slot, ch>>
    BY <1>7 DEF RenewChannel, Goto
  <2>2. Leading(c) /\ full = {} /\ \A d \in Calls : Leading(d) => d = c
    BY <2>1 DEF TokenInv, OneToken, Leading, Holding
  <2>3. OneToken'
    BY <1>0, <2>1, <2>2 DEF TokenInv, TypeOK, OneToken, Leading, Holding
  <2>4. ChannelOfSlot'
    BY <1>0, <2>1 DEF TokenInv, TypeOK, ChannelOfSlot
  <2>5. ASSUME NEW k \in closed
        PROVE  k[2] <= chans'[k[1]] /\ k[2] # chans'[k[1]]
    <3>1. k[1] \in Slots /\ k[2] \in Nat /\ chans[k[1]] \in Nat /\ k[2] <= chans[k[1]]
      BY <1>0 DEF TokenInv, TypeOK, Channel, Generations
    <3>2. CASE k[1] = slot[c]
      BY <1>0, <2>1, <3>1, <3>2 DEF TypeOK
    <3>3. CASE k[1] # slot[c]
      <4>1. chans'[k[1]] = chans[k[1]]
        BY <1>0, <2>1, <3>1, <3>3 DEF TypeOK
      <4>2. k[2] # chans[k[1]]
        BY <2>2, <3>3 DEF TokenInv, Generations, Leading, Holding
      <4> QED
        BY <3>1, <4>1, <4>2
    <3> QED
      BY <3>2, <3>3
  <2> QED
    BY <1>0, <2>1, <2>3, <2>4, <2>5 DEF TokenInv, Generations
<1>8. ASSUME NEW c \in Calls, PassToken(c) PROVE TokenInv'
  <2>1. pc[c] = "pass" /\ pc' = [pc EXCEPT ![c] = "return"]
        /\ full' = full \cup {Current(NextSlot(slot[c]))}
        /\ UNCHANGED <<count, chans, closed, slot, ch>>
    BY <1>8 DEF PassToken, Goto
  <2>2. /\ Leading(c) /\ full = {} /\ count = NextSlot(slot[c])
        /\ \A d \in Calls : Leading(d) => d = c
    BY <2>1 DEF TokenInv, OneToken, Leading, Holding
  <2>3. \A d \in Calls : ~Leading(d)'
    BY <1>0, <2>1, <2>2 DEF TypeOK, Leading, Holding
  <2>4. OneToken'
    BY <2>1, <2>2, <2>3 DEF OneToken, Current
  <2>5. ChannelOfSlot' /\ Generations'
    BY <1>0, <2>1 DEF TokenInv, TypeOK, ChannelOfSlot, Generations
  <2> QED
    BY <1>0, <2>4, <2>5 DEF TokenInv
<1>9. ASSUME NEW c \in Calls, NEW label \in {"returned", "panicked"}, Leave(c, label),
             pc[c] \in {"return", "exec", "woken"}
      PROVE  TokenInv'
  BY <1>0, <1>9, TokenQuiet DEF TypeOK, Leave, Leading, Holding
<1>10. ASSUME NEW c \in Calls, Return(c) \/ ExecPanics(c) \/ WaitPanics(c)
       PROVE  TokenInv'
  BY <1>9, <1>10 DEF Return, ExecPanics, WaitPanics
<1>11. ASSUME NEW c \in Calls, AddToGroup(c) \/ ReadRes(c) \/ ReadErr(c)
       PROVE  TokenInv'
  BY ZenonT(120), <1>0, <1>11, TokenQuiet
     DEF TypeOK, AddToGroup, ReadRes, ReadErr, Goto, shared, Leading, Holding
<1>12. ASSUME NEW c \in Calls,
              ExecReturns(c) \/ WaitPrevious(c) \/ WaitReturns(c) \/ SetRes(c) \/ SetErr(c)
       PROVE  TokenInv'
  BY <1>0, <1>12, TokenQuiet
     DEF TypeOK, ExecReturns, WaitPrevious, WaitReturns, SetRes, SetErr, Goto, shared,
         Leading, Holding
<1>13. CASE UNCHANGED vars
  BY <1>0, <1>13, TokenQuiet DEF vars, shared, locals, Leading
<1> QED
  BY <1>1, <1>2, <1>3, <1>4, <1>5, <1>6, <1>7, <1>8, <1>10, <1>11, <1>12, <1>13
     DEF Next, Step, Proceed

\* The token invariant holds in every execution.
THEOREM TokenCorrect == Spec => []TokenInv
BY TokenInit, TokenNext, PTL DEF Spec

\* There is never more than one token, and at most one call leads.
THEOREM OneTokenHolds == Spec => []OneToken
<1>1. TokenInv => OneToken
  BY DEF TokenInv
<1> QED
  BY <1>1, TokenCorrect, PTL

\* Two batches are never executed at the same time.
THEOREM ExecExclusiveHolds == Spec => []ExecExclusive
<1>1. TokenInv => ExecExclusive
  BY DEF TokenInv, OneToken, ExecExclusive, Leading, Holding
<1> QED
  BY <1>1, TokenCorrect, PTL

\* No channel is closed twice or sent to when closed, and no leader blocks on
\* passing the token.
THEOREM ChannelsSafeHolds == Spec => []ChannelsSafe
<1>1. TokenInv => ChannelsSafe
  <2> SUFFICES ASSUME TokenInv, NEW c \in Calls, pc[c] \in {"close", "pass"},
                      NEW s \in Slots
               PROVE  Current(s) \notin closed \cup full
    BY SlotArithmetic DEF ChannelsSafe, TokenInv, TypeOK
  <2>1. full = {} /\ \A d \in Calls : Leading(d) => d = c
    BY DEF TokenInv, OneToken, Leading, Holding
  <2>2. \A d \in Calls : pc[d] # "renew"
    BY <2>1 DEF Leading, Holding
  <2> QED
    BY <2>1, <2>2 DEF TokenInv, Generations, Current
<1> QED
  BY <1>1, TokenCorrect, PTL

----------------------------------------------------------------------------
(* Each datum.  What ExecutedAtMostOnce and NothingLost need besides: a call *)
(* that has not led has no batch, and data come from calls that have begun.  *)

BatchOnlyOnceTaken ==
  \A c \in Calls :
    pc[c] \in {"idle", "add", "chan", "recv", "sleep"} => batch[c] = <<>>

OnlySubmitted ==
  /\ \A i \in DOMAIN data : pc[data[i]] # "idle"
  /\ \A l \in Calls : \A i \in DOMAIN batch[l] : pc[batch[l][i]] # "idle"

DataInv ==
  TypeOK /\ ExecutedAtMostOnce /\ NothingLost /\ BatchOnlyOnceTaken /\ OnlySubmitted

\* Nothing has been submitted.
LEMMA DataInit == Init => DataInv
BY TypeInit DEF Init, DataInv, ExecutedAtMostOnce, NothingLost, BatchOnlyOnceTaken,
                OnlySubmitted

\* A step that moves no datum, once its calls have begun, keeps the invariant.
LEMMA DataQuiet ==
  ASSUME DataInv, TypeOK', UNCHANGED <<data, batch>>,
         \A c \in Calls :
           /\ pc'[c] = "idle" <=> pc[c] = "idle"
           /\ pc'[c] \in {"idle", "add", "chan", "recv", "sleep"} =>
                pc[c] \in {"idle", "add", "chan", "recv", "sleep"}
  PROVE  DataInv'
<1>1. ExecutedAtMostOnce' /\ NothingLost'
  BY DEF DataInv, ExecutedAtMostOnce, NothingLost
<1>2. \A i \in DOMAIN data : data[i] \in Calls
  BY DEF DataInv, TypeOK
<1>3. \A l \in Calls : \A i \in DOMAIN batch[l] : batch[l][i] \in Calls
  BY DEF DataInv, TypeOK
<1>4. BatchOnlyOnceTaken' /\ OnlySubmitted'
  BY <1>2, <1>3 DEF DataInv, BatchOnlyOnceTaken, OnlySubmitted
<1> QED
  BY <1>1, <1>4 DEF DataInv

\* Submitting adds a new datum: it was nowhere before, and it waits now.
LEMMA DataSubmit ==
  ASSUME DataInv, TypeOK', NEW c \in Calls, Submit(c)
  PROVE  DataInv'
<1>1. /\ pc[c] = "idle" /\ pc' = [pc EXCEPT ![c] = "add"]
      /\ data' = Append(data, c) /\ batch' = batch
      /\ data \in Seq(Calls) /\ pc \in [Calls -> PCs] /\ batch \in [Calls -> Seq(Calls)]
  BY DEF Submit, Goto, DataInv, TypeOK
<1>2. /\ \A i \in DOMAIN data : data[i] \in Calls /\ data[i] # c
      /\ \A l \in Calls : \A i \in DOMAIN batch[l] : batch[l][i] \in Calls /\ batch[l][i] # c
  BY <1>1 DEF DataInv, OnlySubmitted
<1>3. /\ DOMAIN data' = DOMAIN data \cup {Len(data) + 1}
      /\ Len(data) + 1 \notin DOMAIN data
      /\ data'[Len(data) + 1] = c
      /\ \A i \in DOMAIN data : data'[i] = data[i]
  BY <1>1
<1>4. ExecutedAtMostOnce'
  BY SMTT(60), <1>1, <1>2, <1>3 DEF DataInv, ExecutedAtMostOnce
<1>5. Range(data') = Range(data) \cup {c}
  BY <1>3 DEF Range
<1>6. NothingLost'
  BY <1>1, <1>5 DEF DataInv, NothingLost
<1>7. BatchOnlyOnceTaken' /\ OnlySubmitted'
  BY <1>1, <1>2, <1>3 DEF DataInv, BatchOnlyOnceTaken, OnlySubmitted
<1> QED
  BY <1>4, <1>6, <1>7 DEF DataInv

\* Taking the batch moves every waiting datum to the leader, who had none.
LEMMA DataTake ==
  ASSUME DataInv, TypeOK', NEW c \in Calls, TakeBatch(c)
  PROVE  DataInv'
<1>1. /\ pc[c] = "sleep" /\ pc' = [pc EXCEPT ![c] = "exec"]
      /\ data' = <<>> /\ batch' = [batch EXCEPT ![c] = data]
      /\ data \in Seq(Calls) /\ pc \in [Calls -> PCs] /\ batch \in [Calls -> Seq(Calls)]
  BY DEF TakeBatch, Goto, DataInv, TypeOK
<1>2. batch[c] = <<>>
  BY <1>1 DEF DataInv, BatchOnlyOnceTaken
<1>3. /\ batch'[c] = data
      /\ \A l \in Calls \ {c} : batch'[l] = batch[l]
      /\ DOMAIN data' = {}
  BY <1>1
<1>4. ExecutedAtMostOnce'
  BY <1>3 DEF DataInv, ExecutedAtMostOnce
<1>5. NothingLost'
  <2> SUFFICES ASSUME NEW d \in Calls, pc'[d] # "idle"
               PROVE  \E l \in Calls : d \in Range(batch'[l])
    BY DEF NothingLost
  <2>1. pc[d] # "idle"
    BY <1>1
  <2>2. CASE d \in Range(data)
    BY <1>3, <2>2
  <2>3. CASE d \notin Range(data)
    <3>1. PICK l \in Calls : d \in Range(batch[l])
      BY <2>1, <2>3 DEF DataInv, NothingLost
    <3>2. l # c
      BY <1>2, <3>1 DEF Range
    <3> QED
      BY <1>3, <3>1, <3>2
  <2> QED
    BY <2>2, <2>3
<1>6. /\ \A i \in DOMAIN data : data[i] \in Calls
      /\ \A l \in Calls : \A i \in DOMAIN batch[l] : batch[l][i] \in Calls
  BY <1>1
<1>7. BatchOnlyOnceTaken' /\ OnlySubmitted'
  BY <1>1, <1>3, <1>6 DEF DataInv, BatchOnlyOnceTaken, OnlySubmitted
<1> QED
  BY <1>4, <1>5, <1>7 DEF DataInv

\* Every step keeps the data invariant.
LEMMA DataNext == DataInv /\ [Next]_vars => DataInv'
<1> SUFFICES ASSUME DataInv, [Next]_vars PROVE DataInv'
  OBVIOUS
<1>0. TypeOK /\ TypeOK'
  BY TypeNext DEF DataInv
<1>1. ASSUME NEW c \in Calls, Submit(c) PROVE DataInv'
  BY <1>0, <1>1, DataSubmit
<1>2. ASSUME NEW c \in Calls, TakeBatch(c) PROVE DataInv'
  BY <1>0, <1>2, DataTake
<1>3. ASSUME NEW c \in Calls,
             AddToGroup(c) \/ EvaluateChannel(c) \/ ReceiveToken(c) \/ ReceiveClosed(c)
             \/ ReadRes(c) \/ ReadErr(c)
      PROVE  DataInv'
  BY ZenonT(120), <1>0, <1>3, DataQuiet
     DEF TypeOK, AddToGroup, EvaluateChannel, ReceiveToken, ReceiveClosed, ReadRes,
         ReadErr, Goto, shared
<1>4. ASSUME NEW c \in Calls,
             ExecReturns(c) \/ WaitPrevious(c) \/ WaitReturns(c) \/ SetRes(c) \/ SetErr(c)
             \/ CloseChannel(c) \/ RenewChannel(c) \/ PassToken(c)
      PROVE  DataInv'
  BY ZenonT(120), <1>0, <1>4, DataQuiet
     DEF TypeOK, ExecReturns, WaitPrevious, WaitReturns, SetRes, SetErr, CloseChannel,
         RenewChannel, PassToken, Goto, shared
<1>5. ASSUME NEW c \in Calls, NEW label \in {"returned", "panicked"}, Leave(c, label),
             pc[c] # "idle"
      PROVE  DataInv'
  BY <1>0, <1>5, DataQuiet DEF TypeOK, Leave
<1>6. ASSUME NEW c \in Calls, Return(c) \/ ExecPanics(c) \/ WaitPanics(c)
      PROVE  DataInv'
  BY <1>5, <1>6 DEF Return, ExecPanics, WaitPanics
<1>7. CASE UNCHANGED vars
  BY <1>0, <1>7, DataQuiet DEF vars, shared, locals
<1> QED
  BY <1>1, <1>2, <1>3, <1>4, <1>6, <1>7 DEF Next, Step, Proceed

\* The data invariant holds in every execution.
THEOREM DataCorrect == Spec => []DataInv
BY DataInit, DataNext, PTL DEF Spec

\* No datum is handed to exec twice.
THEOREM ExecutedAtMostOnceHolds == Spec => []ExecutedAtMostOnce
<1>1. DataInv => ExecutedAtMostOnce
  BY DEF DataInv
<1> QED
  BY <1>1, DataCorrect, PTL

\* No submitted datum is dropped.
THEOREM NothingLostHolds == Spec => []NothingLost
<1>1. DataInv => NothingLost
  BY DEF DataInv
<1> QED
  BY <1>1, DataCorrect, PTL

----------------------------------------------------------------------------
(* With prompt calls.  OwnResult, ResultStable and WaitNeverPanics rest on   *)
(* three things: a call waits on the channel that its own batch is to close; *)
(* a slot's WaitGroup counts its calls until they have left, so that the next *)
(* leader's stores come after their reads; and the three slots keep apart     *)
(* the batch that leaves, the one that runs, and the one that gathers.        *)

\* The three slots are three.
LEMMA ThreeSlots ==
  ASSUME NEW s \in Slots
  PROVE  /\ NextSlot(s) # s /\ PrevSlot(s) # s /\ NextSlot(s) # PrevSlot(s)
         /\ PrevSlot(NextSlot(s)) = s
BY DEF Slots, NextSlot, PrevSlot, execNum

Took == {"exec", "wait", "asleep", "woken", "setres", "seterr", "close", "renew", "pass"}
Renewed == {"pass", "return", "returned"}

\* The calls of a batch have their leader's slot, those that wait the current one.
MemberSlots ==
  /\ \A c \in Range(data) : slot[c] = count
  /\ \A l \in Calls : \A c \in Range(batch[l]) : slot[c] = slot[l]

\* A leader is of its own batch, and nobody else has one.
LeadersAreMembers ==
  \A l \in Calls :
    /\ pc[l] = "sleep" => l \in Range(data)
    /\ pc[l] \in Took => l \in Range(batch[l])
    /\ batch[l] # <<>> => pc[l] \in Took \cup {"return", "returned", "panicked"}

\* A call waits on the channel its own batch closes.
WaitsForBatch ==
  \A c \in Calls : pc[c] = "recv" =>
    /\ c \in Range(data) => ch[c] = Current(slot[c])
    /\ \A l \in Calls : c \in Range(batch[l]) =>
         IF HasRenewed(l) THEN ch[c][2] < chans[slot[c]] ELSE ch[c] = Current(slot[c])

\* With a panic the token is lost.
TokenLost ==
  (\E c \in Calls : pc[c] = "panicked") => full = {} /\ \A c \in Calls : ~Leading(c)

MembersInv == MemberSlots /\ LeadersAreMembers /\ WaitsForBatch /\ TokenLost

\* The WaitGroup of a slot counts its calls until they have left.
Counted ==
  \A c \in Calls : pc[c] \notin {"idle", "add", "returned", "panicked"} => c \in wgs[slot[c]]

\* When a leader stores its results the calls of the previous slot have left.
PreviousLeft ==
  \A d \in Calls : pc[d] \in {"woken", "setres", "seterr"} => wgs[PrevSlot(slot[d])] = {}

\* be.res and be.err are of the batch led last: of the leader's slot once it has
\* stored them, before that of the slot before its own.
Latest ==
  /\ res # NoBatch => pc[res] \in {"seterr", "close", "renew"} \cup Renewed
  /\ full # {} /\ res # NoBatch => count = NextSlot(slot[res])
  /\ \A d \in Calls :
       /\ pc[d] \in {"sleep", "exec", "wait", "asleep", "woken", "setres"} /\ res # NoBatch =>
            slot[d] = NextSlot(slot[res])
       /\ pc[d] \in {"seterr", "close", "renew", "pass"} => res = d
       /\ pc[d] \in {"close", "renew", "pass"} => err = d

\* Whoever reads be.res and be.err, or is about to, is of the batch they are of.
ReadersOfLatest ==
  \A c \in Calls :
    /\ pc[c] = "recv" =>
         \A l \in Calls : c \in Range(batch[l]) /\ HasRenewed(l) => res = l /\ err = l
    /\ pc[c] \in Reading =>
         /\ res \in Calls /\ err = res /\ c \in Range(batch[res])
         /\ pc[res] \in {"renew"} \cup Renewed
    /\ pc[c] = "readerr" => got[c].res = res

\* A leader returns what exec has returned to it.
OwnGot ==
  \A c \in Calls : pc[c] \in Took \ {"exec"} => got[c].res = c /\ got[c].err = c

GroupsInv == Counted /\ PreviousLeft

ResultsInv == Latest /\ ReadersOfLatest /\ OwnGot /\ OwnResult

Base == TokenInv /\ DataInv /\ NoStraggler

PromptInv == Base /\ MembersInv /\ GroupsInv /\ ResultsInv

\* Where the datum of a call is: a leader that has not replaced its channel leads,
\* or has panicked, and then nobody leads.
LEMMA WhereIs ==
  ASSUME DataInv, MembersInv, NEW c \in Calls, pc[c] # "idle", c \notin Range(data)
  PROVE  \E l \in Calls : /\ c \in Range(batch[l])
                          /\ HasRenewed(l) \/ pc[l] \in Took \cup {"panicked"}
<1>1. PICK l \in Calls : c \in Range(batch[l])
  BY DEF DataInv, NothingLost
<1>2. batch[l] # <<>>
  BY <1>1 DEF Range
<1>3. pc[l] \in Took \cup {"return", "returned", "panicked"}
  BY <1>2 DEF MembersInv, LeadersAreMembers
<1> QED
  BY <1>1, <1>2, <1>3 DEF HasRenewed

\* Nobody else leads beside a leader, and nobody has panicked.
LEMMA AloneLeading ==
  ASSUME TokenInv, MembersInv, NEW d \in Calls, Leading(d)
  PROVE  /\ full = {} /\ \A l \in Calls : pc[l] # "panicked" /\ (pc[l] \in Took => l = d)
         /\ \A l \in Calls : Leading(l) => l = d
BY DEF TokenInv, OneToken, MembersInv, TokenLost, Leading, Holding, Took

----------------------------------------------------------------------------
(* Members. *)

\* A step that moves no datum and renews no channel.
LEMMA MembersQuiet ==
  ASSUME MembersInv, UNCHANGED <<data, count, chans, slot, ch, batch>>, TokenLost',
         \A c \in Calls :
           /\ pc'[c] = "recv" => pc[c] = "recv"
           /\ pc'[c] = "sleep" => pc[c] = "sleep"
           /\ pc'[c] \in Took => pc[c] \in Took
           /\ batch[c] # <<>> /\ pc[c] \in Took \cup {"return", "returned", "panicked"} =>
                pc'[c] \in Took \cup {"return", "returned", "panicked"}
           /\ batch[c] # <<>> => (pc'[c] \in Renewed <=> pc[c] \in Renewed)
  PROVE  MembersInv'
<1>1. MemberSlots'
  BY DEF MembersInv, MemberSlots
<1>2. LeadersAreMembers'
  BY DEF MembersInv, LeadersAreMembers
<1>3. \A l \in Calls : HasRenewed(l)' <=> HasRenewed(l)
  BY DEF HasRenewed, Renewed
<1>4. WaitsForBatch'
  BY <1>3 DEF MembersInv, WaitsForBatch, Current
<1> QED
  BY <1>1, <1>2, <1>4 DEF MembersInv

\* At first there are no batches.
LEMMA MembersInit == Init => MembersInv
<1> SUFFICES ASSUME Init PROVE MembersInv
  OBVIOUS
<1>1. Range(data) = {} /\ \A l \in Calls : batch[l] = <<>> /\ pc[l] = "idle"
  BY DEF Init, Range
<1>2. \A l \in Calls : Range(batch[l]) = {}
  BY <1>1 DEF Range
<1> QED
  BY <1>1, <1>2 DEF MembersInv, MemberSlots, LeadersAreMembers, WaitsForBatch, TokenLost, Took

\* A call that has not begun is in no batch and does not wait.
LEMMA MembersSubmit ==
  ASSUME Base, MembersInv, NEW c \in Calls, Submit(c)
  PROVE  MembersInv'
<1>1. /\ pc[c] = "idle" /\ pc' = [pc EXCEPT ![c] = "add"] /\ data' = Append(data, c)
      /\ slot' = [slot EXCEPT ![c] = count]
      /\ UNCHANGED <<count, chans, full, ch, batch>>
      /\ data \in Seq(Calls) /\ pc \in [Calls -> PCs] /\ slot \in [Calls -> Slots]
      /\ batch \in [Calls -> Seq(Calls)]
  BY DEF Submit, Goto, Base, DataInv, TypeOK
<1>2. Range(data') = Range(data) \cup {c}
  <2>1. /\ DOMAIN data' = DOMAIN data \cup {Len(data) + 1}
        /\ data'[Len(data) + 1] = c /\ \A i \in DOMAIN data : data'[i] = data[i]
        /\ Len(data) + 1 \notin DOMAIN data
    BY <1>1
  <2> QED
    BY <2>1 DEF Range
<1>3. c \notin Range(data) /\ \A l \in Calls : c \notin Range(batch[l])
  BY <1>1 DEF Base, DataInv, OnlySubmitted, Range
<1>4. Range(data) \subseteq Calls /\ \A l \in Calls : Range(batch[l]) \subseteq Calls
  BY <1>1 DEF Range
<1>5. \A d \in Calls : d # c => slot'[d] = slot[d] /\ pc'[d] = pc[d]
  BY <1>1
<1>6. slot'[c] = count /\ pc'[c] = "add" /\ batch[c] = <<>>
  BY <1>1 DEF Base, DataInv, BatchOnlyOnceTaken
<1>7. MemberSlots'
  <2>1. Range(batch[c]) = {}
    BY <1>6 DEF Range
  <2> QED
    BY <1>1, <1>2, <1>3, <1>4, <1>5, <1>6, <2>1 DEF MembersInv, MemberSlots
<1>8. LeadersAreMembers'
  BY <1>1, <1>2, <1>5, <1>6 DEF MembersInv, LeadersAreMembers, Took
<1>9. WaitsForBatch'
  <2>1. \A l \in Calls : HasRenewed(l)' <=> HasRenewed(l)
    BY <1>1, <1>5, <1>6 DEF HasRenewed
  <2> QED
    BY <1>1, <1>2, <1>3, <1>5, <1>6, <2>1 DEF MembersInv, WaitsForBatch, Current
<1>10. TokenLost'
  BY <1>1, <1>5, <1>6 DEF MembersInv, TokenLost, Leading, Holding
<1> QED
  BY <1>7, <1>8, <1>9, <1>10 DEF MembersInv

\* The call is prompt: its batch's channel is still there.
LEMMA MembersEvaluate ==
  ASSUME Base, MembersInv, NEW c \in Calls, EvaluateChannel(c)
  PROVE  MembersInv'
<1>1. /\ pc[c] = "chan" /\ pc' = [pc EXCEPT ![c] = "recv"]
      /\ ch' = [ch EXCEPT ![c] = Current(slot[c])]
      /\ UNCHANGED <<data, count, chans, full, slot, batch>>
      /\ pc \in [Calls -> PCs] /\ ch \in [Calls -> Channel]
  BY DEF EvaluateChannel, Goto, shared, Base, DataInv, TypeOK
<1>2. \A d \in Calls : d # c => ch'[d] = ch[d] /\ pc'[d] = pc[d]
  BY <1>1
<1>3. ch'[c] = Current(slot[c]) /\ pc'[c] = "recv"
  BY <1>1
<1>4. \A l \in Calls : HasRenewed(l)' <=> HasRenewed(l)
  BY <1>1, <1>2, <1>3 DEF HasRenewed
<1>5. \A l \in Calls : HasRenewed(l) => c \notin Range(batch[l])
  BY <1>1 DEF Base, NoStraggler
<1>6. WaitsForBatch'
  BY <1>1, <1>2, <1>3, <1>4, <1>5 DEF MembersInv, WaitsForBatch, Current
<1>7. MemberSlots' /\ LeadersAreMembers' /\ TokenLost'
  BY <1>1, <1>2, <1>3
     DEF MembersInv, MemberSlots, LeadersAreMembers, TokenLost, Leading, Holding, Took
<1> QED
  BY <1>6, <1>7 DEF MembersInv

\* Whoever receives the token waits in data: it leads its own batch.
LEMMA MembersReceive ==
  ASSUME Base, MembersInv, NEW c \in Calls, ReceiveToken(c)
  PROVE  MembersInv'
<1>1. /\ pc[c] = "recv" /\ pc' = [pc EXCEPT ![c] = "sleep"] /\ ch[c] \in full
      /\ full' = full \ {ch[c]}
      /\ UNCHANGED <<data, count, chans, slot, ch, batch>>
      /\ pc \in [Calls -> PCs]
  BY DEF ReceiveToken, Goto, Base, DataInv, TypeOK
<1>2. ch[c] = Current(count) /\ slot[c] = count /\ full # {} /\ \A d \in Calls : ~Leading(d)
  BY <1>1 DEF Base, TokenInv, OneToken, ChannelOfSlot, Current
<1>3. \A d \in Calls : pc[d] # "panicked"
  BY <1>2 DEF MembersInv, TokenLost
<1>4. c \in Range(data)
  <2> SUFFICES ASSUME c \notin Range(data) PROVE FALSE
    OBVIOUS
  <2>1. PICK l \in Calls : c \in Range(batch[l]) /\ (HasRenewed(l) \/ pc[l] \in Took \cup {"panicked"})
    BY <1>1, WhereIs DEF Base
  <2>2. pc[l] \notin Took
    BY <1>2 DEF Leading, Holding, Took
  <2>3. HasRenewed(l)
    BY <1>3, <2>1, <2>2
  <2>4. ch[c][2] < chans[slot[c]]
    BY <1>1, <2>1, <2>3 DEF MembersInv, WaitsForBatch
  <2>5. ch[c][2] = chans[slot[c]] /\ chans[slot[c]] \in Nat
    BY <1>2 DEF Current, Base, DataInv, TypeOK
  <2> QED
    BY <2>4, <2>5
<1>5. TokenLost'
  BY <1>1, <1>3 DEF TokenLost
<1>6. \A d \in Calls : d # c => pc'[d] = pc[d]
  BY <1>1
<1>7. pc'[c] = "sleep" /\ batch[c] = <<>>
  BY <1>1 DEF Base, DataInv, BatchOnlyOnceTaken
<1>8. \A l \in Calls : HasRenewed(l)' <=> HasRenewed(l)
  BY <1>1, <1>6, <1>7 DEF HasRenewed
<1>9. WaitsForBatch'
  BY <1>1, <1>6, <1>7, <1>8 DEF MembersInv, WaitsForBatch, Current
<1>10. MemberSlots' /\ LeadersAreMembers'
  BY <1>1, <1>4, <1>6, <1>7 DEF MembersInv, MemberSlots, LeadersAreMembers, Took
<1> QED
  BY <1>5, <1>9, <1>10 DEF MembersInv

\* Taking the batch: those who waited are the batch of the leader, who is one of them.
LEMMA MembersTake ==
  ASSUME Base, MembersInv, NEW c \in Calls, TakeBatch(c)
  PROVE  MembersInv'
<1>1. /\ pc[c] = "sleep" /\ pc' = [pc EXCEPT ![c] = "exec"]
      /\ data' = <<>> /\ batch' = [batch EXCEPT ![c] = data]
      /\ UNCHANGED <<chans, full, slot, ch>>
      /\ pc \in [Calls -> PCs] /\ batch \in [Calls -> Seq(Calls)]
  BY DEF TakeBatch, Goto, Base, DataInv, TypeOK
<1>2. /\ batch'[c] = data /\ pc'[c] = "exec" /\ batch[c] = <<>> /\ Range(data') = {}
      /\ \A d \in Calls : d # c => batch'[d] = batch[d] /\ pc'[d] = pc[d]
  BY <1>1 DEF Base, DataInv, BatchOnlyOnceTaken, Range
<1>3. c \in Range(data) /\ slot[c] = count /\ \A d \in Range(data) : slot[d] = count
  BY <1>1 DEF MembersInv, LeadersAreMembers, MemberSlots
<1>4. Leading(c)
  BY <1>1 DEF Leading, Holding
<1>5. \A l \in Calls : pc[l] # "panicked" /\ (Leading(l) => l = c) /\ (pc[l] \in Took => l = c)
  BY <1>4, AloneLeading DEF Base
<1>6. MemberSlots'
  <2>1. ASSUME NEW l \in Calls, NEW d \in Range(batch'[l]) PROVE slot[d] = slot[l]
    BY <1>2, <1>3, <2>1 DEF MembersInv, MemberSlots
  <2> QED
    BY <1>1, <1>2, <2>1 DEF MemberSlots
<1>7. LeadersAreMembers'
  <2>1. \A d \in Calls : d # c => pc[d] # "sleep"
    BY <1>5 DEF Leading, Holding
  <2> QED
    BY <1>2, <1>3, <2>1 DEF MembersInv, LeadersAreMembers, Took
<1>8. TokenLost'
  BY <1>2, <1>5 DEF TokenLost
<1>9. WaitsForBatch'
  <2> SUFFICES ASSUME NEW d \in Calls, pc'[d] = "recv", NEW l \in Calls, d \in Range(batch'[l])
               PROVE  IF HasRenewed(l)' THEN ch[d][2] < chans[slot[d]] ELSE ch[d] = Current(slot[d])
    BY <1>1, <1>2 DEF WaitsForBatch, Current
  <2>1. d # c /\ pc[d] = "recv"
    BY <1>2
  <2>2. CASE l = c
    <3>1. ~HasRenewed(l)'
      BY <1>2, <2>2 DEF HasRenewed
    <3>2. d \in Range(data)
      BY <1>2, <2>2
    <3> QED
      BY <2>1, <3>1, <3>2 DEF MembersInv, WaitsForBatch
  <2>3. CASE l # c
    <3>1. (HasRenewed(l)' <=> HasRenewed(l)) /\ batch'[l] = batch[l]
      BY <1>2, <2>3 DEF HasRenewed
    <3> QED
      BY <2>1, <3>1 DEF MembersInv, WaitsForBatch
  <2> QED
    BY <2>2, <2>3
<1> QED
  BY <1>6, <1>7, <1>8, <1>9 DEF MembersInv

\* The batch of the leader that replaces its channel waits on the one replaced.
LEMMA MembersRenew ==
  ASSUME Base, MembersInv, NEW c \in Calls, RenewChannel(c)
  PROVE  MembersInv'
<1>1. /\ pc[c] = "renew" /\ pc' = [pc EXCEPT ![c] = "pass"]
      /\ chans' = [chans EXCEPT ![slot[c]] = @ + 1]
      /\ UNCHANGED <<data, count, full, slot, ch, batch>>
      /\ pc \in [Calls -> PCs] /\ chans \in [Slots -> Nat] /\ slot \in [Calls -> Slots]
      /\ ch \in [Calls -> Channel]
  BY DEF RenewChannel, Goto, Base, DataInv, TypeOK
<1>2. pc'[c] = "pass" /\ \A d \in Calls : d # c => pc'[d] = pc[d]
  BY <1>1
<1>3. Leading(c) /\ count = NextSlot(slot[c])
  BY <1>1 DEF Leading, Holding, Base, TokenInv, OneToken
<1>4. \A l \in Calls : pc[l] # "panicked" /\ (Leading(l) => l = c) /\ (pc[l] \in Took => l = c)
  BY <1>3, AloneLeading DEF Base
<1>5. MemberSlots'
  BY <1>1 DEF MembersInv, MemberSlots
<1>6. LeadersAreMembers' /\ TokenLost'
  BY <1>1, <1>2, <1>4 DEF MembersInv, LeadersAreMembers, TokenLost, Took
<1>7. count # slot[c]
  BY <1>1, <1>3, ThreeSlots
<1>8. WaitsForBatch'
  <2> SUFFICES ASSUME NEW d \in Calls, pc'[d] = "recv"
               PROVE  /\ d \in Range(data) => ch[d] = Current(slot[d])'
                      /\ \A l \in Calls : d \in Range(batch[l]) =>
                           IF HasRenewed(l)' THEN ch[d][2] < chans'[slot[d]]
                           ELSE ch[d] = Current(slot[d])'
    BY <1>1 DEF WaitsForBatch
  <2>1. d # c /\ pc[d] = "recv" /\ slot[d] \in Slots /\ chans[slot[d]] \in Nat /\ ch[d][2] \in Nat
    BY <1>1, <1>2 DEF Channel
  <2>2. chans'[slot[d]] = IF slot[d] = slot[c] THEN chans[slot[d]] + 1 ELSE chans[slot[d]]
    BY <1>1, <2>1
  <2>3. slot[d] # slot[c] => Current(slot[d])' = Current(slot[d])
    BY <1>1, <2>2 DEF Current
  <2>4. ASSUME d \in Range(data) PROVE ch[d] = Current(slot[d])'
    <3>1. slot[d] # slot[c]
      BY <1>7, <2>4 DEF MembersInv, MemberSlots
    <3> QED
      BY <2>1, <2>3, <2>4, <3>1 DEF MembersInv, WaitsForBatch
  <2>5. ASSUME NEW l \in Calls, d \in Range(batch[l])
        PROVE  HasRenewed(l)' /\ ch[d][2] < chans'[slot[d]]
    <3>1. batch[l] # <<>> /\ pc[l] \in Took \cup {"return", "returned", "panicked"}
      <4>1. batch[l] # <<>>
        BY <2>5 DEF Range
      <4> QED
        BY <4>1 DEF MembersInv, LeadersAreMembers
    <3>2. CASE l = c
      <4>1. ~HasRenewed(l) /\ HasRenewed(l)' /\ slot[d] = slot[c]
        BY <1>1, <1>2, <2>5, <3>1, <3>2 DEF HasRenewed, MembersInv, MemberSlots
      <4>2. ch[d] = Current(slot[d])
        BY <2>1, <2>5, <4>1 DEF MembersInv, WaitsForBatch
      <4>3. ch[d][2] = chans[slot[d]]
        BY <4>2 DEF Current
      <4> QED
        BY <2>1, <2>2, <4>1, <4>3
    <3>3. CASE l # c
      <4>1. HasRenewed(l) /\ HasRenewed(l)'
        BY <1>1, <1>2, <1>4, <3>1, <3>3 DEF HasRenewed
      <4>2. ch[d][2] < chans[slot[d]]
        BY <2>1, <2>5, <4>1 DEF MembersInv, WaitsForBatch
      <4> QED
        BY <2>1, <2>2, <4>1, <4>2
    <3> QED
      BY <3>2, <3>3
  <2> QED
    BY <2>4, <2>5
<1> QED
  BY <1>5, <1>6, <1>8 DEF MembersInv

\* A leader passes the token on, or loses it in a panic.
LEMMA MembersEnd ==
  ASSUME Base, MembersInv, NEW c \in Calls, PassToken(c) \/ ExecPanics(c) \/ WaitPanics(c) \/ Return(c)
  PROVE  MembersInv'
<1>0. pc \in [Calls -> PCs] /\ UNCHANGED <<data, count, chans, slot, ch, batch>>
  BY DEF PassToken, ExecPanics, WaitPanics, Return, Leave, Base, DataInv, TypeOK
<1>1. CASE PassToken(c)
  <2>1. pc[c] = "pass" /\ pc' = [pc EXCEPT ![c] = "return"]
    BY <1>1 DEF PassToken, Goto
  <2>2. Leading(c)
    BY <2>1 DEF Leading, Holding
  <2>3. \A l \in Calls : pc[l] # "panicked"
    BY <2>2, AloneLeading DEF Base
  <2>4. TokenLost'
    BY <1>0, <2>1, <2>3 DEF TokenLost
  <2> QED
    BY <1>0, <2>1, <2>4, MembersQuiet DEF Took, Renewed
<1>2. CASE ExecPanics(c) \/ WaitPanics(c)
  <2>1. pc[c] \in {"exec", "woken"} /\ Leave(c, "panicked")
    BY <1>2 DEF ExecPanics, WaitPanics
  <2>2. Leading(c)
    BY <2>1 DEF Leading, Holding
  <2>3. full = {} /\ \A l \in Calls : Leading(l) => l = c
    BY <2>2, AloneLeading DEF Base
  <2>4. /\ full' = full /\ pc'[c] = "panicked"
        /\ \A d \in Calls : d # c => \/ pc'[d] = pc[d]
                                     \/ pc[d] = "asleep" /\ pc'[d] = "woken"
    BY <1>0, <2>1 DEF Leave
  <2>5. TokenLost'
    BY <2>3, <2>4 DEF TokenLost, Leading, Holding
  <2> QED
    BY <1>0, <2>1, <2>4, <2>5, MembersQuiet DEF Took, Renewed
<1>3. CASE Return(c)
  <2>1. pc[c] = "return" /\ Leave(c, "returned")
    BY <1>3 DEF Return
  <2>2. /\ full' = full /\ pc'[c] = "returned"
        /\ \A d \in Calls : d # c => \/ pc'[d] = pc[d]
                                     \/ pc[d] = "asleep" /\ pc'[d] = "woken"
    BY <1>0, <2>1 DEF Leave
  <2>3. TokenLost'
    BY <2>1, <2>2 DEF MembersInv, TokenLost, Leading, Holding
  <2> QED
    BY <1>0, <2>1, <2>2, <2>3, MembersQuiet DEF Took, Renewed
<1> QED
  BY <1>1, <1>2, <1>3

\* Every step keeps who is in which batch and waits on what.
LEMMA MembersNext == Base /\ MembersInv /\ [Next]_vars => MembersInv'
<1> SUFFICES ASSUME Base, MembersInv, [Next]_vars PROVE MembersInv'
  OBVIOUS
<1>0. pc \in [Calls -> PCs] /\ TokenLost
  BY DEF Base, DataInv, TypeOK, MembersInv
<1>1. ASSUME NEW c \in Calls,
             AddToGroup(c) \/ ReceiveClosed(c) \/ ReadRes(c) \/ ReadErr(c)
      PROVE  MembersInv'
  <2>1. /\ UNCHANGED <<data, count, chans, full, slot, ch, batch>>
        /\ \/ pc[c] = "add" /\ pc' = [pc EXCEPT ![c] = "chan"]
           \/ pc[c] = "recv" /\ pc' = [pc EXCEPT ![c] = "readres"]
           \/ pc[c] = "readres" /\ pc' = [pc EXCEPT ![c] = "readerr"]
           \/ pc[c] = "readerr" /\ pc' = [pc EXCEPT ![c] = "return"]
    BY <1>1 DEF AddToGroup, ReceiveClosed, ReadRes, ReadErr, Goto, shared
  <2>2. batch[c] = <<>>
    BY <2>1 DEF MembersInv, LeadersAreMembers, Took
  <2>3. TokenLost'
    BY <1>0, <2>1 DEF TokenLost, Leading, Holding
  <2> QED
    BY <1>0, <2>1, <2>2, <2>3, MembersQuiet DEF Took, Renewed
<1>2. ASSUME NEW c \in Calls,
             ExecReturns(c) \/ WaitPrevious(c) \/ WaitReturns(c) \/ SetRes(c) \/ SetErr(c)
             \/ CloseChannel(c)
      PROVE  MembersInv'
  <2>1. /\ UNCHANGED <<data, count, chans, full, slot, ch, batch>>
        /\ pc[c] \in Took \ Renewed
        /\ \E label \in Took \ Renewed : pc' = [pc EXCEPT ![c] = label]
    BY <1>2 DEF ExecReturns, WaitPrevious, WaitReturns, SetRes, SetErr, CloseChannel,
                Goto, shared, Took, Renewed
  <2>2. TokenLost'
    BY <1>0, <2>1 DEF TokenLost, Leading, Holding, Took
  <2> QED
    BY <1>0, <2>1, <2>2, MembersQuiet DEF Took, Renewed
<1>3. CASE UNCHANGED vars
  <2>1. UNCHANGED <<data, count, chans, full, slot, ch, batch, pc>>
    BY <1>3 DEF vars, shared, locals
  <2>2. TokenLost'
    BY <1>0, <2>1 DEF TokenLost, Leading
  <2> QED
    BY <2>1, <2>2, MembersQuiet
<1> QED
  BY <1>1, <1>2, <1>3, MembersSubmit, MembersEvaluate, MembersReceive, MembersTake,
     MembersRenew, MembersEnd DEF Next, Step, Proceed

----------------------------------------------------------------------------
(* The WaitGroups. *)

\* At first nobody is counted.
LEMMA GroupsInit == Init => GroupsInv
BY DEF Init, GroupsInv, Counted, PreviousLeft

\* A step outside of the WaitGroups, after which nobody stores who did not before.
LEMMA GroupsQuiet ==
  ASSUME GroupsInv, UNCHANGED <<wgs, slot>>,
         \A c \in Calls :
           /\ pc'[c] \notin {"idle", "add", "returned", "panicked"} =>
                pc[c] \notin {"idle", "add", "returned", "panicked"}
           /\ pc'[c] \in {"woken", "setres", "seterr"} =>
                pc[c] \in {"woken", "setres", "seterr"} \/ wgs[PrevSlot(slot[c])] = {}
  PROVE  GroupsInv'
<1>1. Counted'
  BY DEF GroupsInv, Counted
<1>2. PreviousLeft'
  <2> SUFFICES ASSUME NEW d \in Calls, pc'[d] \in {"woken", "setres", "seterr"}
               PROVE  wgs'[PrevSlot(slot'[d])] = {}
    BY DEF PreviousLeft, PrevSlot
  <2>1. wgs[PrevSlot(slot[d])] = {}
    BY DEF GroupsInv, PreviousLeft
  <2> QED
    BY <2>1
<1> QED
  BY <1>1, <1>2 DEF GroupsInv

\* A call that joins the group of its slot is not of the slot before a leader's that
\* has waited: that batch is renewed, and the call is prompt.
LEMMA AddsElsewhere ==
  ASSUME Base, MembersInv, NEW c \in Calls, pc[c] = "add",
         NEW d \in Calls, pc[d] \in Took
  PROVE  slot[c] # PrevSlot(slot[d])
<1>1. slot[d] \in Slots
  BY DEF Base, DataInv, TypeOK
<1>2. Leading(d) /\ pc[d] # "sleep"
  BY DEF Leading, Holding, Took
<1>3. count = NextSlot(slot[d])
  BY <1>2 DEF Base, TokenInv, OneToken
<1>4. CASE c \in Range(data)
  BY <1>1, <1>3, <1>4, ThreeSlots DEF MembersInv, MemberSlots
<1>5. CASE c \notin Range(data)
  <2>1. PICK l \in Calls : c \in Range(batch[l]) /\ (HasRenewed(l) \/ pc[l] \in Took \cup {"panicked"})
    BY <1>5, WhereIs DEF Base
  <2>2. ~HasRenewed(l)
    BY <2>1 DEF Base, NoStraggler
  <2>3. l = d
    BY <1>2, <2>1, <2>2, AloneLeading DEF Base
  <2>4. slot[c] = slot[d]
    BY <2>1, <2>3 DEF MembersInv, MemberSlots
  <2> QED
    BY <1>1, <2>4, ThreeSlots
<1> QED
  BY <1>4, <1>5

\* A call is added to its slot, which no leader has waited for.
LEMMA GroupsAdd ==
  ASSUME Base, MembersInv, GroupsInv, NEW c \in Calls, AddToGroup(c)
  PROVE  GroupsInv'
<1>1. /\ pc[c] = "add" /\ pc' = [pc EXCEPT ![c] = "chan"] /\ slot' = slot
      /\ wgs' = [wgs EXCEPT ![slot[c]] = @ \cup {c}]
      /\ pc \in [Calls -> PCs] /\ slot \in [Calls -> Slots] /\ wgs \in [Slots -> SUBSET Calls]
  BY DEF AddToGroup, Goto, Base, DataInv, TypeOK
<1>2. /\ pc'[c] = "chan" /\ c \in wgs'[slot[c]]
      /\ \A s \in Slots : wgs[s] \subseteq wgs'[s] /\ (s # slot[c] => wgs'[s] = wgs[s])
      /\ \A d \in Calls : d # c => pc'[d] = pc[d]
  BY <1>1
<1>3. Counted'
  BY <1>1, <1>2 DEF GroupsInv, Counted
<1>4. PreviousLeft'
  <2> SUFFICES ASSUME NEW d \in Calls, pc'[d] \in {"woken", "setres", "seterr"}
               PROVE  wgs'[PrevSlot(slot[d])] = {}
    BY <1>1 DEF PreviousLeft, PrevSlot
  <2>1. pc[d] \in {"woken", "setres", "seterr"} /\ PrevSlot(slot[d]) \in Slots
    BY <1>1, <1>2, SlotArithmetic
  <2>2. slot[c] # PrevSlot(slot[d])
    BY <1>1, <2>1, AddsElsewhere DEF Took
  <2> QED
    BY <1>2, <2>1, <2>2 DEF GroupsInv, PreviousLeft
<1> QED
  BY <1>3, <1>4 DEF GroupsInv

\* A call leaves its group; the last one wakes the leader of the next slot.
LEMMA GroupsLeave ==
  ASSUME Base, GroupsInv, NEW c \in Calls, NEW label \in {"returned", "panicked"}, Leave(c, label)
  PROVE  GroupsInv'
<1>1. /\ slot' = slot /\ wgs' = [wgs EXCEPT ![slot[c]] = @ \ {c}]
      /\ slot \in [Calls -> Slots] /\ wgs \in [Slots -> SUBSET Calls]
  BY DEF Leave, Base, DataInv, TypeOK
<1>2. /\ pc'[c] = label
      /\ \A d \in Calls : d # c =>
           \/ pc'[d] = pc[d]
           \/ pc[d] = "asleep" /\ PrevSlot(slot[d]) = slot[c] /\ wgs[slot[c]] = {c}
  BY DEF Leave
<1>3. /\ \A s \in Slots : wgs'[s] \subseteq wgs[s] /\ \A d \in wgs[s] : d # c => d \in wgs'[s]
      /\ wgs'[slot[c]] = wgs[slot[c]] \ {c}
  BY <1>1
<1>4. Counted'
  BY <1>1, <1>2, <1>3 DEF GroupsInv, Counted
<1>5. PreviousLeft'
  <2> SUFFICES ASSUME NEW d \in Calls, pc'[d] \in {"woken", "setres", "seterr"}
               PROVE  wgs'[PrevSlot(slot[d])] = {}
    BY <1>1 DEF PreviousLeft, PrevSlot
  <2>1. d # c /\ PrevSlot(slot[d]) \in Slots
    BY <1>1, <1>2, SlotArithmetic
  <2>2. CASE pc'[d] = pc[d]
    <3>1. wgs[PrevSlot(slot[d])] = {}
      BY <2>2 DEF GroupsInv, PreviousLeft
    <3> QED
      BY <1>3, <2>1, <3>1
  <2>3. CASE PrevSlot(slot[d]) = slot[c] /\ wgs[slot[c]] = {c}
    BY <1>3, <2>3
  <2> QED
    BY <1>2, <2>1, <2>2, <2>3
<1> QED
  BY <1>4, <1>5 DEF GroupsInv

\* Every step keeps the counts.
LEMMA GroupsNext == Base /\ MembersInv /\ GroupsInv /\ [Next]_vars => GroupsInv'
<1> SUFFICES ASSUME Base, MembersInv, GroupsInv, [Next]_vars PROVE GroupsInv'
  OBVIOUS
<1>0. pc \in [Calls -> PCs] /\ slot \in [Calls -> Slots]
  BY DEF Base, DataInv, TypeOK
<1>1. ASSUME NEW c \in Calls, Submit(c) PROVE GroupsInv'
  <2>1. pc' = [pc EXCEPT ![c] = "add"] /\ slot' = [slot EXCEPT ![c] = count] /\ wgs' = wgs
    BY <1>1 DEF Submit, Goto
  <2>2. pc'[c] = "add" /\ \A d \in Calls : d # c => pc'[d] = pc[d] /\ slot'[d] = slot[d]
    BY <1>0, <2>1
  <2>3. Counted'
    BY <2>1, <2>2 DEF GroupsInv, Counted
  <2>4. PreviousLeft'
    BY <2>1, <2>2 DEF GroupsInv, PreviousLeft, PrevSlot
  <2> QED
    BY <2>3, <2>4 DEF GroupsInv
<1>2. ASSUME NEW c \in Calls,
             EvaluateChannel(c) \/ ReceiveToken(c) \/ ReceiveClosed(c) \/ ReadRes(c) \/ ReadErr(c)
             \/ TakeBatch(c) \/ ExecReturns(c) \/ CloseChannel(c) \/ RenewChannel(c) \/ SetErr(c)
             \/ PassToken(c)
      PROVE  GroupsInv'
  <2>1. /\ UNCHANGED <<wgs, slot>> /\ pc[c] \notin {"idle", "add", "returned", "panicked"}
        /\ \E label \in {"recv", "sleep", "readres", "readerr", "return", "exec", "wait", "close",
                         "renew", "pass"} : pc' = [pc EXCEPT ![c] = label]
    BY <1>2 DEF EvaluateChannel, ReceiveToken, ReceiveClosed, ReadRes, ReadErr, TakeBatch,
                ExecReturns, CloseChannel, RenewChannel, SetErr, PassToken, Goto, shared
  <2> QED
    BY <1>0, <2>1, GroupsQuiet
<1>3. ASSUME NEW c \in Calls, WaitPrevious(c) \/ WaitReturns(c) \/ SetRes(c)
      PROVE  GroupsInv'
  <2>1. /\ UNCHANGED <<wgs, slot>> /\ pc[c] \in {"wait", "woken", "setres"}
        /\ \/ pc' = [pc EXCEPT ![c] = "asleep"]
           \/ pc[c] = "setres" /\ pc' = [pc EXCEPT ![c] = "seterr"]
           \/ wgs[PrevSlot(slot[c])] = {} /\ pc' = [pc EXCEPT ![c] = "setres"]
    BY <1>3 DEF WaitPrevious, WaitReturns, SetRes, Goto, shared
  <2> QED
    BY <1>0, <2>1, GroupsQuiet
<1>4. CASE UNCHANGED vars
  BY <1>4, GroupsQuiet DEF vars, shared, locals
<1> QED
  BY <1>1, <1>2, <1>3, <1>4, GroupsAdd, GroupsLeave
     DEF Next, Step, Proceed, Return, ExecPanics, WaitPanics

----------------------------------------------------------------------------
(* The results. *)

\* At first there are no results.
LEMMA ResultsInit == Init => ResultsInv
BY DEF Init, ResultsInv, Latest, ReadersOfLatest, OwnGot, OwnResult, Reading, Took

\* A leader stores its results when nobody is left to read those of the last batch.
LEMMA NobodyReads ==
  ASSUME Base, MembersInv, GroupsInv, ResultsInv, NEW d \in Calls, pc[d] = "setres"
  PROVE  /\ \A c \in Calls : pc[c] \notin Reading
         /\ \A c \in Calls : pc[c] = "recv" =>
              \A l \in Calls : c \in Range(batch[l]) => ~HasRenewed(l)
<1>1. slot \in [Calls -> Slots] /\ wgs[PrevSlot(slot[d])] = {}
  BY DEF Base, DataInv, TypeOK, GroupsInv, PreviousLeft
<1>2. SUFFICES ASSUME NEW c \in Calls, pc[c] \in Reading \cup {"recv"},
                      res \in Calls, c \in Range(batch[res])
               PROVE  FALSE
  <2>1. ASSUME NEW c \in Calls, pc[c] \in Reading PROVE FALSE
    BY <1>2, <2>1 DEF ResultsInv, ReadersOfLatest
  <2>2. ASSUME NEW c \in Calls, pc[c] = "recv", NEW l \in Calls, c \in Range(batch[l]), HasRenewed(l)
        PROVE  FALSE
    BY <1>2, <2>2 DEF ResultsInv, ReadersOfLatest
  <2> QED
    BY <2>1, <2>2
<1>3. slot[c] = slot[res]
  BY <1>2 DEF MembersInv, MemberSlots
<1>4. slot[d] = NextSlot(slot[res])
  BY <1>2, CallsAssumption DEF ResultsInv, Latest
<1>5. PrevSlot(slot[d]) = slot[c]
  BY <1>1, <1>2, <1>3, <1>4, ThreeSlots
<1>6. c \in wgs[slot[c]]
  BY <1>2 DEF GroupsInv, Counted, Reading
<1> QED
  BY <1>1, <1>5, <1>6

\* A step that neither writes nor begins to read, and that renews no channel.
LEMMA ResultsQuiet ==
  ASSUME ResultsInv, UNCHANGED <<count, slot, res, err, batch, got>>,
         full' # {} => full # {},
         \A l \in Calls : HasRenewed(l)' <=> HasRenewed(l),
         \A c \in Calls :
           /\ \A P \in {{"seterr", "close", "renew"} \cup Renewed, {"renew"} \cup Renewed} :
                pc[c] \in P => pc'[c] \in P
           /\ \A P \in {{"sleep", "exec", "wait", "asleep", "woken", "setres"},
                        {"seterr", "close", "renew", "pass"}, {"close", "renew", "pass"},
                        {"recv"}, Reading, {"readerr"}, Took \ {"exec"}, {"return", "returned"}} :
                pc'[c] \in P => pc[c] \in P,
         res \in Calls \cup {NoBatch}
  PROVE  ResultsInv'
<1>1. Latest'
  BY DEF ResultsInv, Latest, NextSlot
<1>2. ReadersOfLatest'
  BY DEF ResultsInv, ReadersOfLatest
<1>3. OwnGot' /\ OwnResult'
  BY DEF ResultsInv, OwnGot, OwnResult
<1> QED
  BY <1>1, <1>2, <1>3 DEF ResultsInv

\* A new call has nothing to read.
LEMMA ResultsSubmit ==
  ASSUME Base, MembersInv, ResultsInv, NEW c \in Calls, Submit(c)
  PROVE  ResultsInv'
<1>1. /\ pc[c] = "idle" /\ pc'[c] = "add" /\ slot'[c] = count
      /\ \A d \in Calls : d # c => pc'[d] = pc[d] /\ slot'[d] = slot[d]
      /\ UNCHANGED <<count, full, res, err, batch, got>>
      /\ batch[c] = <<>> /\ res \in Calls \cup {NoBatch}
  BY DEF Submit, Goto, Base, DataInv, BatchOnlyOnceTaken, TypeOK
<1>2. \A l \in Calls : HasRenewed(l)' <=> HasRenewed(l)
  BY <1>1 DEF HasRenewed
<1>3. res # NoBatch => res # c
  BY <1>1 DEF ResultsInv, Latest, Renewed
<1>4. Latest'
  BY <1>1, <1>3 DEF ResultsInv, Latest, NextSlot
<1>5. ReadersOfLatest'
  BY <1>1, <1>2, <1>3, CallsAssumption DEF ResultsInv, ReadersOfLatest, Reading
<1>6. OwnGot' /\ OwnResult'
  BY <1>1 DEF ResultsInv, OwnGot, OwnResult, Took
<1> QED
  BY <1>4, <1>5, <1>6 DEF ResultsInv

\* A call that finds its channel closed: its own batch's leader has closed it, and
\* be.res and be.err are still of that batch.
LEMMA ClosedByOwnLeader ==
  ASSUME Base, MembersInv, ResultsInv, NEW c \in Calls, ReceiveClosed(c)
  PROVE  /\ res \in Calls /\ err = res /\ c \in Range(batch[res])
         /\ pc[res] \in {"renew"} \cup Renewed
<1>1. pc[c] = "recv" /\ ch[c] \in closed
  BY DEF ReceiveClosed
<1>2. slot \in [Calls -> Slots]
  BY DEF Base, DataInv, TypeOK
<1>3. ASSUME ch[c] = Current(slot[c])
      PROVE  \E d \in Calls : pc[d] = "renew" /\ slot[d] = slot[c]
  BY <1>1, <1>3 DEF Base, TokenInv, Generations, Current
<1>4. c \notin Range(data)
  <2> SUFFICES ASSUME c \in Range(data) PROVE FALSE
    OBVIOUS
  <2>1. ch[c] = Current(slot[c]) /\ slot[c] = count
    BY <1>1 DEF MembersInv, WaitsForBatch, MemberSlots
  <2>2. PICK d \in Calls : pc[d] = "renew" /\ slot[d] = count
    BY <1>3, <2>1
  <2>3. count = NextSlot(slot[d])
    BY <2>2 DEF Base, TokenInv, OneToken, Leading, Holding
  <2> QED
    BY <1>2, <2>2, <2>3, ThreeSlots
<1>5. PICK l \in Calls : c \in Range(batch[l]) /\ (HasRenewed(l) \/ pc[l] \in Took \cup {"panicked"})
  BY <1>1, <1>4, WhereIs DEF Base
<1>6. CASE HasRenewed(l)
  BY <1>1, <1>5, <1>6 DEF ResultsInv, ReadersOfLatest, HasRenewed, Renewed
<1>7. CASE ~HasRenewed(l)
  <2>1. ch[c] = Current(slot[c])
    BY <1>1, <1>5, <1>7 DEF MembersInv, WaitsForBatch
  <2>2. PICK d \in Calls : pc[d] = "renew"
    BY <1>3, <2>1
  <2>3. l = d
    BY <1>5, <1>7, <2>2, AloneLeading DEF Base, Leading, Holding
  <2> QED
    BY <1>5, <2>2, <2>3 DEF ResultsInv, Latest
<1> QED
  BY <1>6, <1>7

\* The steps of a follower.
LEMMA ResultsFollow ==
  ASSUME Base, MembersInv, ResultsInv, NEW c \in Calls,
         EvaluateChannel(c) \/ ReceiveClosed(c) \/ ReadRes(c) \/ ReadErr(c)
  PROVE  ResultsInv'
<1>0. /\ UNCHANGED <<count, full, slot, res, err, batch>> /\ res \in Calls \cup {NoBatch}
      /\ pc \in [Calls -> PCs] /\ batch[c] = <<>>
      /\ got \in [Calls -> [res : Calls \cup {NoBatch}, err : Calls \cup {NoBatch}]]
  <2>1. pc[c] \in {"chan", "recv"} \cup Reading
    BY DEF EvaluateChannel, ReceiveClosed, ReadRes, ReadErr, Reading
  <2>2. batch[c] = <<>>
    BY <2>1 DEF MembersInv, LeadersAreMembers, Took, Reading
  <2> QED
    BY <2>2 DEF EvaluateChannel, ReceiveClosed, ReadRes, ReadErr, shared, Base, DataInv, TypeOK
<1>1. /\ pc'[c] \in {"recv", "readres", "readerr", "return"}
      /\ pc[c] \in {"chan", "recv", "readres", "readerr"}
      /\ \A d \in Calls : d # c => pc'[d] = pc[d] /\ got'[d] = got[d]
  BY <1>0 DEF EvaluateChannel, ReceiveClosed, ReadRes, ReadErr, Goto
<1>2. \A l \in Calls : HasRenewed(l)' <=> HasRenewed(l)
  BY <1>0, <1>1 DEF HasRenewed
<1>3. res # NoBatch => res # c
  BY <1>1 DEF ResultsInv, Latest, Renewed
<1>4. Latest'
  BY <1>0, <1>1, <1>3 DEF ResultsInv, Latest, NextSlot
<1>5. OwnGot'
  BY <1>1 DEF ResultsInv, OwnGot, Took
<1>6. SUFFICES /\ pc'[c] = "recv" =>
                    \A l \in Calls : c \in Range(batch[l]) /\ HasRenewed(l) => res = l /\ err = l
               /\ pc'[c] \in Reading =>
                    /\ res \in Calls /\ err = res /\ c \in Range(batch[res])
                    /\ pc[res] \in {"renew"} \cup Renewed
               /\ pc'[c] = "readerr" => got'[c].res = res
               /\ pc'[c] \in {"return", "returned"} =>
                    got'[c].err = got'[c].res /\ got'[c].res \in Calls /\ c \in Range(batch[got'[c].res])
  <2>1. ReadersOfLatest'
    <3>1. ASSUME NEW d \in Calls, d # c
          PROVE  /\ pc'[d] = "recv" =>
                      \A l \in Calls : d \in Range(batch[l]) /\ HasRenewed(l) => res = l /\ err = l
                 /\ pc'[d] \in Reading =>
                      /\ res \in Calls /\ err = res /\ d \in Range(batch[res])
                      /\ pc[res] \in {"renew"} \cup Renewed
                 /\ pc'[d] = "readerr" => got'[d].res = res
      BY <1>1, <3>1 DEF ResultsInv, ReadersOfLatest
    <3>2. res \in Calls => pc'[res] = pc[res]
      BY <1>1, <1>3, CallsAssumption
    <3> QED
      BY <1>0, <1>2, <1>6, <3>1, <3>2 DEF ReadersOfLatest
  <2>2. OwnResult'
    BY <1>0, <1>1, <1>6 DEF ResultsInv, OwnResult
  <2> QED
    BY <1>4, <1>5, <2>1, <2>2 DEF ResultsInv
<1>7. CASE EvaluateChannel(c)
  <2>1. pc[c] = "chan" /\ pc'[c] = "recv"
    BY <1>0, <1>7 DEF EvaluateChannel, Goto
  <2>2. \A l \in Calls : HasRenewed(l) => c \notin Range(batch[l])
    BY <2>1 DEF Base, NoStraggler
  <2> QED
    BY <2>1, <2>2 DEF Reading
<1>8. CASE ReceiveClosed(c)
  <2>1. pc'[c] = "readres"
    BY <1>0, <1>8 DEF ReceiveClosed, Goto
  <2> QED
    BY <1>8, <2>1, ClosedByOwnLeader
<1>9. CASE ReadRes(c)
  <2>1. pc[c] = "readres" /\ pc'[c] = "readerr" /\ got'[c].res = res
    BY <1>0, <1>9 DEF ReadRes, Goto
  <2> QED
    BY <2>1 DEF ResultsInv, ReadersOfLatest, Reading
<1>10. CASE ReadErr(c)
  <2>1. pc[c] = "readerr" /\ pc'[c] = "return" /\ got'[c].res = got[c].res /\ got'[c].err = err
    BY <1>0, <1>10 DEF ReadErr, Goto
  <2> QED
    BY <2>1 DEF ResultsInv, ReadersOfLatest, Reading
<1> QED
  BY <1>7, <1>8, <1>9, <1>10

\* The token goes from the leader whose results are the latest to the next.
LEMMA ResultsToken ==
  ASSUME Base, MembersInv, ResultsInv, NEW c \in Calls, ReceiveToken(c) \/ PassToken(c)
  PROVE  ResultsInv'
<1>0. /\ UNCHANGED <<count, chans, slot, res, err, batch, got>> /\ res \in Calls \cup {NoBatch}
      /\ pc \in [Calls -> PCs]
  BY DEF ReceiveToken, PassToken, Base, DataInv, TypeOK
<1>1. CASE ReceiveToken(c)
  <2>1. /\ pc[c] = "recv" /\ pc'[c] = "sleep" /\ ch[c] \in full /\ full' \subseteq full
        /\ \A d \in Calls : d # c => pc'[d] = pc[d]
    BY <1>0, <1>1 DEF ReceiveToken, Goto
  <2>2. slot[c] = count /\ full # {} /\ batch[c] = <<>>
    BY <2>1 DEF Base, TokenInv, OneToken, ChannelOfSlot, Current, DataInv, BatchOnlyOnceTaken
  <2>3. \A l \in Calls : HasRenewed(l)' <=> HasRenewed(l)
    BY <1>0, <2>1, <2>2 DEF HasRenewed
  <2>4. res # NoBatch => res # c
    BY <2>1 DEF ResultsInv, Latest, Renewed
  <2>5. Latest'
    BY <1>0, <2>1, <2>2, <2>4 DEF ResultsInv, Latest, NextSlot
  <2>6. ReadersOfLatest'
    BY <1>0, <2>1, <2>3, <2>4, CallsAssumption DEF ResultsInv, ReadersOfLatest, Reading
  <2>7. OwnGot' /\ OwnResult'
    BY <1>0, <2>1 DEF ResultsInv, OwnGot, OwnResult, Took
  <2> QED
    BY <2>5, <2>6, <2>7 DEF ResultsInv
<1>2. CASE PassToken(c)
  <2>1. /\ pc[c] = "pass" /\ pc'[c] = "return"
        /\ \A d \in Calls : d # c => pc'[d] = pc[d]
    BY <1>0, <1>2 DEF PassToken, Goto
  <2>2. Leading(c) /\ count = NextSlot(slot[c]) /\ res = c /\ err = c
    BY <2>1 DEF Base, TokenInv, OneToken, ResultsInv, Latest, Leading, Holding
  <2>3. \A d \in Calls : d # c => ~Leading(d)
    BY <2>2, AloneLeading DEF Base
  <2>4. \A l \in Calls : HasRenewed(l)' <=> HasRenewed(l)
    BY <1>0, <2>1 DEF HasRenewed
  <2>5. Latest'
    BY <1>0, <2>1, <2>2, <2>3 DEF Latest, NextSlot, Renewed, Leading, Holding
  <2>6. ReadersOfLatest'
    BY <1>0, <2>1, <2>4 DEF ResultsInv, ReadersOfLatest, Reading, Renewed
  <2>7. OwnGot' /\ OwnResult'
    <3>1. got[c].res = c /\ got[c].err = c /\ c \in Range(batch[c])
      BY <2>1 DEF ResultsInv, OwnGot, Took, MembersInv, LeadersAreMembers
    <3> QED
      BY <1>0, <2>1, <3>1 DEF ResultsInv, OwnGot, OwnResult, Took
  <2> QED
    BY <2>5, <2>6, <2>7 DEF ResultsInv
<1> QED
  BY <1>1, <1>2

\* A leader who takes the batch has no result yet.
LEMMA ResultsTake ==
  ASSUME Base, MembersInv, ResultsInv, NEW c \in Calls, TakeBatch(c)
  PROVE  ResultsInv'
<1>1. /\ pc[c] = "sleep" /\ pc'[c] = "exec" /\ batch[c] = <<>>
      /\ \A d \in Calls : d # c => pc'[d] = pc[d] /\ batch'[d] = batch[d]
      /\ UNCHANGED <<full, slot, res, err, got>> /\ res \in Calls \cup {NoBatch}
  BY DEF TakeBatch, Goto, Base, DataInv, BatchOnlyOnceTaken, TypeOK
<1>2. full = {}
  BY <1>1, AloneLeading DEF Base, Leading, Holding
<1>3. res # NoBatch => res # c
  BY <1>1 DEF ResultsInv, Latest, Renewed
<1>4. Range(batch[c]) = {}
  BY <1>1 DEF Range
<1>5. \A l \in Calls : HasRenewed(l)' => HasRenewed(l) /\ l # c
  BY <1>1 DEF HasRenewed
<1>6. Latest'
  BY <1>1, <1>2, <1>3 DEF ResultsInv, Latest, NextSlot
<1>7. ReadersOfLatest'
  BY <1>1, <1>3, <1>5, CallsAssumption DEF ResultsInv, ReadersOfLatest, Reading
<1>8. OwnGot' /\ OwnResult'
  BY <1>1, <1>4 DEF ResultsInv, OwnGot, OwnResult, Took
<1> QED
  BY <1>6, <1>7, <1>8 DEF ResultsInv

\* The leader's stores: of exec's results, and of be.res and be.err, when none reads.
LEMMA ResultsStore ==
  ASSUME Base, MembersInv, GroupsInv, ResultsInv, NEW c \in Calls,
         ExecReturns(c) \/ SetRes(c) \/ SetErr(c)
  PROVE  ResultsInv'
<1>0. /\ UNCHANGED <<count, full, slot, batch>> /\ res \in Calls \cup {NoBatch}
      /\ pc \in [Calls -> PCs]
      /\ got \in [Calls -> [res : Calls \cup {NoBatch}, err : Calls \cup {NoBatch}]]
  BY DEF ExecReturns, SetRes, SetErr, shared, Base, DataInv, TypeOK
<1>1. /\ pc[c] \in {"exec", "setres", "seterr"} /\ pc'[c] \in {"wait", "seterr", "close"}
      /\ \A d \in Calls : d # c => pc'[d] = pc[d] /\ got'[d] = got[d]
  BY <1>0 DEF ExecReturns, SetRes, SetErr, Goto
<1>2. full = {} /\ \A d \in Calls : d # c => ~Leading(d)
  BY <1>1, AloneLeading DEF Base, Leading, Holding
<1>3. \A l \in Calls : HasRenewed(l)' <=> HasRenewed(l)
  BY <1>0, <1>1 DEF HasRenewed
<1>4. OwnResult'
  BY <1>0, <1>1 DEF ResultsInv, OwnResult
<1>5. CASE ExecReturns(c)
  <2>1. /\ pc[c] = "exec" /\ pc'[c] = "wait" /\ got'[c].res = c /\ got'[c].err = c
        /\ UNCHANGED <<res, err>>
    BY <1>0, <1>5 DEF ExecReturns, Goto, shared
  <2>2. res # NoBatch => res # c
    BY <2>1 DEF ResultsInv, Latest, Renewed
  <2>3. Latest'
    BY <1>0, <1>1, <2>1, <2>2 DEF ResultsInv, Latest, NextSlot
  <2>4. ReadersOfLatest'
    BY <1>0, <1>1, <1>3, <2>1, <2>2, CallsAssumption DEF ResultsInv, ReadersOfLatest, Reading
  <2>5. OwnGot'
    BY <1>1, <2>1 DEF ResultsInv, OwnGot, Took
  <2> QED
    BY <1>4, <2>3, <2>4, <2>5 DEF ResultsInv
<1>6. CASE SetRes(c)
  <2>1. pc[c] = "setres" /\ pc'[c] = "seterr" /\ res' = c /\ UNCHANGED <<err, got>>
    BY <1>0, <1>6 DEF SetRes, Goto
  <2>2. Latest'
    BY <1>0, <1>1, <1>2, <2>1 DEF Latest, Leading, Holding
  <2>3. ReadersOfLatest'
    BY <1>0, <1>1, <1>3, <2>1, NobodyReads DEF ReadersOfLatest, Reading
  <2>4. OwnGot'
    BY <1>1, <2>1 DEF ResultsInv, OwnGot, Took
  <2> QED
    BY <1>4, <2>2, <2>3, <2>4 DEF ResultsInv
<1>7. CASE SetErr(c)
  <2>1. pc[c] = "seterr" /\ pc'[c] = "close" /\ err' = c /\ UNCHANGED <<res, got>>
    BY <1>0, <1>7 DEF SetErr, Goto
  <2>2. res = c
    BY <2>1 DEF ResultsInv, Latest
  <2>3. Latest'
    BY <1>0, <1>1, <1>2, <2>1, <2>2 DEF Latest, Leading, Holding
  <2>4. /\ \A d \in Calls : pc[d] \notin Reading
        /\ \A d \in Calls : pc[d] = "recv" =>
             \A l \in Calls : d \in Range(batch[l]) => ~HasRenewed(l)
    BY <2>1, <2>2 DEF ResultsInv, ReadersOfLatest, Renewed, HasRenewed
  <2>5. ReadersOfLatest'
    BY <1>0, <1>1, <1>3, <2>1, <2>4 DEF ReadersOfLatest, Reading
  <2>6. OwnGot'
    BY <1>1, <2>1 DEF ResultsInv, OwnGot, Took
  <2> QED
    BY <1>4, <2>3, <2>5, <2>6 DEF ResultsInv
<1> QED
  BY <1>5, <1>6, <1>7

\* Replacing the channel leaves the results to those who were released.
LEMMA ResultsRenew ==
  ASSUME Base, MembersInv, ResultsInv, NEW c \in Calls, RenewChannel(c)
  PROVE  ResultsInv'
<1>1. /\ pc[c] = "renew" /\ pc'[c] = "pass" /\ \A d \in Calls : d # c => pc'[d] = pc[d]
      /\ UNCHANGED <<count, full, slot, res, err, batch, got>> /\ res \in Calls \cup {NoBatch}
  BY DEF RenewChannel, Goto, Base, DataInv, TypeOK
<1>2. res = c /\ err = c
  BY <1>1 DEF ResultsInv, Latest
<1>3. \A l \in Calls : l # c => (HasRenewed(l)' <=> HasRenewed(l))
  BY <1>1 DEF HasRenewed
<1>4. Latest'
  BY <1>1, <1>2 DEF ResultsInv, Latest, NextSlot, Renewed
<1>5. ReadersOfLatest'
  BY <1>1, <1>2, <1>3 DEF ResultsInv, ReadersOfLatest, Reading, Renewed
<1>6. OwnGot' /\ OwnResult'
  BY <1>1 DEF ResultsInv, OwnGot, OwnResult, Took
<1> QED
  BY <1>4, <1>5, <1>6 DEF ResultsInv

\* Every step keeps whose results there are, and who reads them.
LEMMA ResultsNext == PromptInv /\ [Next]_vars => ResultsInv'
<1> SUFFICES ASSUME Base, MembersInv, GroupsInv, ResultsInv, [Next]_vars PROVE ResultsInv'
  BY DEF PromptInv
<1>0. pc \in [Calls -> PCs] /\ res \in Calls \cup {NoBatch}
  BY DEF Base, DataInv, TypeOK
<1>1. ASSUME NEW c \in Calls,
             AddToGroup(c) \/ WaitPrevious(c) \/ WaitReturns(c) \/ CloseChannel(c)
      PROVE  ResultsInv'
  <2>1. /\ UNCHANGED <<count, full, slot, res, err, batch, got>>
        /\ \/ pc[c] = "add" /\ pc'[c] = "chan"
           \/ pc[c] \in {"wait", "woken"} /\ pc'[c] \in {"setres", "asleep"}
           \/ pc[c] = "close" /\ pc'[c] = "renew"
        /\ \A d \in Calls : d # c => pc'[d] = pc[d]
    BY <1>0, <1>1 DEF AddToGroup, WaitPrevious, WaitReturns, CloseChannel, Goto, shared
  <2>2. \A l \in Calls : HasRenewed(l)' <=> HasRenewed(l)
    BY <2>1 DEF HasRenewed
  <2> QED
    BY <1>0, <2>1, <2>2, ResultsQuiet DEF Reading, Took, Renewed
<1>2. ASSUME NEW c \in Calls, Return(c) \/ ExecPanics(c) \/ WaitPanics(c)
      PROVE  ResultsInv'
  <2>1. /\ UNCHANGED <<count, full, slot, res, err, batch, got>>
        /\ \/ pc[c] = "return" /\ pc'[c] = "returned"
           \/ pc[c] \in {"exec", "woken"} /\ pc'[c] = "panicked"
        /\ \A d \in Calls : d # c => pc'[d] = pc[d] \/ (pc[d] = "asleep" /\ pc'[d] = "woken")
    BY <1>2 DEF Return, ExecPanics, WaitPanics, Leave
  <2>2. \A l \in Calls : HasRenewed(l)' <=> HasRenewed(l)
    BY <2>1 DEF HasRenewed
  <2> QED
    BY <1>0, <2>1, <2>2, ResultsQuiet DEF Reading, Took, Renewed
<1>3. CASE UNCHANGED vars
  <2>1. UNCHANGED <<count, full, slot, res, err, batch, got, pc>>
    BY <1>3 DEF vars, shared, locals
  <2>2. \A l \in Calls : HasRenewed(l)' <=> HasRenewed(l)
    BY <2>1 DEF HasRenewed
  <2> QED
    BY <1>0, <2>1, <2>2, ResultsQuiet
<1> QED
  BY <1>1, <1>2, <1>3, ResultsSubmit, ResultsFollow, ResultsToken, ResultsTake,
     ResultsStore, ResultsRenew DEF Next, Step, Proceed

----------------------------------------------------------------------------
(* What follows for prompt calls. *)

\* All three layers hold at first.
LEMMA PromptInit == Init => PromptInv
<1> SUFFICES ASSUME Init PROVE PromptInv
  OBVIOUS
<1>1. NoStraggler
  BY DEF Init, NoStraggler, HasRenewed
<1> QED
  BY <1>1, TokenInit, DataInit, MembersInit, GroupsInit, ResultsInit DEF PromptInv, Base

\* And no step in which nobody is late breaks them.
LEMMA PromptKeeps == PromptInv /\ [PromptNext]_vars => PromptInv'
<1> SUFFICES ASSUME PromptInv, [PromptNext]_vars PROVE PromptInv'
  OBVIOUS
<1>1. [Next]_vars
  BY DEF PromptNext
<1>2. NoStraggler'
  <2>1. CASE PromptNext
    BY <2>1 DEF PromptNext
  <2>2. CASE UNCHANGED vars
    <3>1. UNCHANGED <<pc, batch>>
      BY <2>2 DEF vars, locals
    <3> QED
      BY <3>1 DEF PromptInv, Base, NoStraggler, HasRenewed
  <2> QED
    BY <2>1, <2>2
<1>3. Base'
  BY <1>1, <1>2, TokenNext, DataNext DEF PromptInv, Base
<1>4. MembersInv' /\ GroupsInv' /\ ResultsInv'
  BY <1>1, MembersNext, GroupsNext, ResultsNext DEF PromptInv
<1> QED
  BY <1>3, <1>4 DEF PromptInv

\* When no call is late, the invariant holds, whether or not exec may panic.
THEOREM PromptCorrect == PromptSpec => []PromptInv
BY PromptInit, PromptKeeps, PTL DEF PromptSpec

\* A call returns both results of the batch that its datum was in.
THEOREM OwnResultHolds == PromptSpec => []OwnResult
<1>1. PromptInv => OwnResult
  BY DEF PromptInv, ResultsInv
<1> QED
  BY <1>1, PromptCorrect, PTL

\* No WaitGroup is used anew while a leader still waits on it.
THEOREM WaitNeverPanicsHolds == PromptSpec => []WaitNeverPanics
<1>1. PromptInv => WaitNeverPanics
  BY DEF PromptInv, GroupsInv, PreviousLeft, WaitNeverPanics
<1> QED
  BY <1>1, PromptCorrect, PTL

\* be.res and be.err do not change while somebody reads them.
THEOREM ResultStableHolds == PromptSpec => ResultStable
<1>1. PromptInv /\ [PromptNext]_vars =>
        [(\E c \in Calls : pc[c] \in Reading) => UNCHANGED <<res, err>>]_vars
  <2> SUFFICES ASSUME PromptInv, Next, NEW r \in Calls, pc[r] \in Reading
               PROVE  UNCHANGED <<res, err>>
    BY DEF PromptNext
  <2>1. ASSUME NEW c \in Calls, SetRes(c) PROVE FALSE
    BY <2>1, NobodyReads DEF SetRes, PromptInv
  <2>2. ASSUME NEW c \in Calls, SetErr(c) PROVE FALSE
    BY <2>2 DEF SetErr, PromptInv, ResultsInv, Latest, ReadersOfLatest, Renewed
  <2> QED
    BY <2>1, <2>2
       DEF Next, Step, Proceed, Submit, AddToGroup, EvaluateChannel, ReceiveToken, ReceiveClosed,
           ReadRes, ReadErr, TakeBatch, ExecReturns, WaitPrevious, WaitReturns, CloseChannel,
           RenewChannel, PassToken, Return, ExecPanics, WaitPanics, Leave, shared
<1> QED
  BY <1>1, PromptCorrect, PTL DEF PromptSpec, ResultStable

----------------------------------------------------------------------------
(* The batch service.  Taking a batch is Run; a call is answered when it has *)
(* copied be.err, or as the leader has passed the token; all else stutters.  *)

Batches == {Range(batch[l]) : l \in Calls} \ {{}}
Answers == [c \in Calls |-> AnswerOf(c)]

\* A step that moves no datum and answers nobody is none of the service's.
LEMMA ServiceStutters ==
  ASSUME UNCHANGED <<data, batch>>,
         \A c \in Calls :
           /\ pc'[c] \in {"return", "returned"} <=> pc[c] \in {"return", "returned"}
           /\ pc[c] \in {"return", "returned"} => got'[c] = got[c]
  PROVE  UNCHANGED Service!vars
<1>1. \A c \in Calls : AnswerOf(c)' = AnswerOf(c)
  BY DEF AnswerOf
<1>2. Answers' = Answers /\ Range(data') = Range(data) /\ Batches' = Batches
  BY <1>1 DEF Answers, Batches
<1> QED
  BY <1>2 DEF Service!vars, Answers, Batches

\* The first critical section is a Submit of the service.
LEMMA SubmitIsSubmit ==
  ASSUME PromptInv, NEW c \in Calls, Submit(c)
  PROVE  Service!Submit(c)
<1>1. /\ pc[c] = "idle" /\ pc'[c] = "add" /\ data' = Append(data, c) /\ data \in Seq(Calls)
      /\ \A d \in Calls : d # c => pc'[d] = pc[d]
      /\ UNCHANGED <<batch, got>>
  BY DEF Submit, Goto, PromptInv, Base, DataInv, TypeOK
<1>2. Range(data') = Range(data) \cup {c}
  <2>1. /\ DOMAIN data' = DOMAIN data \cup {Len(data) + 1}
        /\ data'[Len(data) + 1] = c /\ \A i \in DOMAIN data : data'[i] = data[i]
        /\ Len(data) + 1 \notin DOMAIN data
    BY <1>1
  <2> QED
    BY <2>1 DEF Range
<1>3. c \notin Range(data) /\ \A l \in Calls : c \notin Range(batch[l])
  BY <1>1 DEF PromptInv, Base, DataInv, OnlySubmitted, Range
<1>4. c \notin Range(data) \cup UNION Batches
  BY <1>3 DEF Batches
<1>5. \A d \in Calls : AnswerOf(d)' = AnswerOf(d)
  BY <1>1 DEF AnswerOf
<1>6. Answers' = Answers /\ Batches' = Batches
  BY <1>1, <1>5 DEF Answers, Batches
<1> QED
  BY <1>2, <1>4, <1>6 DEF Service!Submit, Answers, Batches

\* The leader's critical section runs all that waits as one batch.
LEMMA TakeIsRun ==
  ASSUME PromptInv, NEW c \in Calls, TakeBatch(c)
  PROVE  Service!Run
<1>1. /\ pc[c] = "sleep" /\ pc'[c] = "exec" /\ batch[c] = <<>> /\ batch'[c] = data /\ data' = <<>>
      /\ \A d \in Calls : d # c => pc'[d] = pc[d] /\ batch'[d] = batch[d]
      /\ UNCHANGED got
  BY DEF TakeBatch, Goto, PromptInv, Base, DataInv, BatchOnlyOnceTaken, TypeOK
<1>2. Range(batch[c]) = {} /\ Range(data') = {} /\ Range(batch'[c]) = Range(data)
  BY <1>1 DEF Range
<1>3. Range(data) # {}
  BY <1>1 DEF PromptInv, MembersInv, LeadersAreMembers
<1>4. Batches' = Batches \cup {Range(data)}
  BY <1>1, <1>2, <1>3 DEF Batches
<1>5. ASSUME NEW d \in Calls PROVE AnswerOf(d)' = AnswerOf(d)
  <2>1. CASE pc[d] \in {"return", "returned"}
    <3>1. d # c /\ got[d].res \in Calls /\ d \in Range(batch[got[d].res])
      BY <1>1, <2>1 DEF PromptInv, ResultsInv, OwnResult
    <3>2. got[d].res # c
      BY <1>2, <3>1
    <3> QED
      BY <1>1, <3>1, <3>2 DEF AnswerOf
  <2>2. CASE pc[d] \notin {"return", "returned"}
    BY <1>1, <2>2 DEF AnswerOf
  <2> QED
    BY <2>1, <2>2
<1>6. Answers' = Answers
  BY <1>5 DEF Answers
<1> QED
  BY <1>2, <1>3, <1>4, <1>6 DEF Service!Run, Answers, Batches

\* To have read the results, or to pass the token, is to be answered from its batch.
LEMMA ReturningIsAnswer ==
  ASSUME PromptInv, NEW c \in Calls, ReadErr(c) \/ PassToken(c)
  PROVE  Service!Answer(c)
<1>1. /\ pc[c] \in {"readerr", "pass"} /\ pc'[c] = "return"
      /\ \A d \in Calls : d # c => pc'[d] = pc[d] /\ got'[d] = got[d]
      /\ got'[c].res = got[c].res
      /\ UNCHANGED <<data, batch>>
  <2>1. /\ pc \in [Calls -> PCs]
        /\ got \in [Calls -> [res : Calls \cup {NoBatch}, err : Calls \cup {NoBatch}]]
    BY DEF PromptInv, Base, DataInv, TypeOK
  <2>2. CASE ReadErr(c)
    BY <2>1, <2>2 DEF ReadErr, Goto, shared
  <2>3. CASE PassToken(c)
    BY <2>1, <2>3 DEF PassToken, Goto
  <2> QED
    BY <2>2, <2>3
<1>2. PICK b \in Calls : got[c].res = b /\ c \in Range(batch[b])
  BY <1>1 DEF PromptInv, ResultsInv, ReadersOfLatest, OwnGot, Reading, Took, MembersInv,
              LeadersAreMembers
<1>3. AnswerOf(c) = {} /\ AnswerOf(c)' = Range(batch[b])
  BY <1>1, <1>2 DEF AnswerOf
<1>4. \A d \in Calls : d # c => AnswerOf(d)' = AnswerOf(d)
  BY <1>1 DEF AnswerOf
<1>5. Answers[c] = {} /\ Answers' = [Answers EXCEPT ![c] = Range(batch[b])]
  BY <1>3, <1>4 DEF Answers
<1>6. Range(batch[b]) \in Batches /\ Batches' = Batches /\ Range(data') = Range(data)
  BY <1>1, <1>2 DEF Batches
<1> QED
  BY <1>2, <1>5, <1>6 DEF Service!Answer, Answers, Batches

\* Every step is a step of the service or none.
LEMMA ServiceNext == PromptInv /\ [PromptNext]_vars => [Service!Next]_(Service!vars)
<1> SUFFICES ASSUME PromptInv, [PromptNext]_vars PROVE Service!Next \/ UNCHANGED Service!vars
  OBVIOUS
<1>0. pc \in [Calls -> PCs] /\ got \in [Calls -> [res : Calls \cup {NoBatch}, err : Calls \cup {NoBatch}]]
  BY DEF PromptInv, Base, DataInv, TypeOK
<1>1. ASSUME NEW c \in Calls, Submit(c) PROVE Service!Next
  BY <1>1, SubmitIsSubmit DEF Service!Next
<1>2. ASSUME NEW c \in Calls, TakeBatch(c) PROVE Service!Next
  BY <1>2, TakeIsRun DEF Service!Next
<1>3. ASSUME NEW c \in Calls, ReadErr(c) \/ PassToken(c) PROVE Service!Next
  BY <1>3, ReturningIsAnswer DEF Service!Next
<1>4. ASSUME NEW c \in Calls,
             AddToGroup(c) \/ EvaluateChannel(c) \/ ReceiveToken(c) \/ ReceiveClosed(c) \/ ReadRes(c)
             \/ ExecReturns(c) \/ WaitPrevious(c) \/ WaitReturns(c) \/ SetRes(c) \/ SetErr(c)
             \/ CloseChannel(c) \/ RenewChannel(c)
      PROVE  UNCHANGED Service!vars
  <2>1. /\ UNCHANGED <<data, batch>> /\ pc[c] \notin {"return", "returned"}
        /\ pc'[c] \notin {"return", "returned"}
        /\ \A d \in Calls : d # c => pc'[d] = pc[d] /\ got'[d] = got[d]
    BY <1>0, <1>4 DEF AddToGroup, EvaluateChannel, ReceiveToken, ReceiveClosed, ReadRes, ExecReturns,
       WaitPrevious, WaitReturns, SetRes, SetErr, CloseChannel, RenewChannel, Goto, shared
  <2> QED
    BY <2>1, ServiceStutters
<1>5. ASSUME NEW c \in Calls, Return(c) \/ ExecPanics(c) \/ WaitPanics(c)
      PROVE  UNCHANGED Service!vars
  <2>1. /\ UNCHANGED <<data, batch, got>>
        /\ \/ pc[c] = "return" /\ pc'[c] = "returned"
           \/ pc[c] \in {"exec", "woken"} /\ pc'[c] = "panicked"
        /\ \A d \in Calls : d # c => pc'[d] = pc[d] \/ (pc[d] = "asleep" /\ pc'[d] = "woken")
    BY <1>5 DEF Return, ExecPanics, WaitPanics, Leave
  <2> QED
    BY <2>1, ServiceStutters
<1>6. CASE UNCHANGED vars
  BY <1>6, ServiceStutters DEF vars, shared, locals
<1> QED
  BY <1>1, <1>2, <1>3, <1>4, <1>5, <1>6 DEF PromptNext, Next, Step, Proceed

\* The first state is the service's.
LEMMA ServiceInit == Init => Service!Init
<1> SUFFICES ASSUME Init PROVE Service!Init
  OBVIOUS
<1>1. /\ Range(data) = {} /\ \A l \in Calls : Range(batch[l]) = {} /\ AnswerOf(l) = {}
  BY DEF Init, Range, AnswerOf
<1>2. Batches = {} /\ Answers = [c \in Calls |-> {}]
  BY <1>1 DEF Batches, Answers
<1> QED
  BY <1>1, <1>2 DEF Service!Init, Batches, Answers

\* With prompt calls the ring implements the batch service.
THEOREM ServiceImplemented == PromptSpec => ImplementsBatchService
<1>1. PromptInv /\ [PromptNext]_vars => [Service!Next]_(Service!vars)
  BY ServiceNext
<1> QED
  BY <1>1, ServiceInit, PromptCorrect, PTL DEF PromptSpec, ImplementsBatchService, Service!Spec

----------------------------------------------------------------------------
(* The loader.  What Load returns is what the leader of its batch has fetched *)
(* for the keys of that batch, when all its calls had begun.                 *)

\* A call has returned the results of a leader that has done with them.
AnswersDone ==
  \A c \in Calls : pc[c] \in {"return", "returned"} => pc[got[c].res] \in {"renew"} \cup Renewed

Executed(l) == pc[l] \in (Took \ {"exec"}) \cup {"return", "returned"} /\ batch[l] # <<>>

\* Rows get no older: those fetched for a batch are as new as its calls.
FetchedInv ==
  /\ LoaderTypeOK
  /\ \A c \in Calls : pc[c] # "idle" => begun[c] <= table[key[c]]
  /\ \A l \in Calls : Executed(l) =>
       /\ DOMAIN fetched[l].rows = {key[d] : d \in Range(batch[l])}
       /\ \A d \in Range(batch[l]) : begun[d] <= fetched[l].rows[key[d]]

LoaderPromptInv == PromptInv /\ AnswersDone /\ FetchedInv

\* Which calls begin, execute and return in the steps that follow on joining a batch.
LEMMA ProceedFrame ==
  ASSUME PromptInv, NEW c \in Calls, Proceed(c)
  PROVE  \A l \in Calls :
           /\ pc'[l] # "idle" => pc[l] # "idle"
           /\ Executed(l)' => Executed(l) /\ batch'[l] = batch[l]
<1>0. /\ pc \in [Calls -> PCs] /\ batch \in [Calls -> Seq(Calls)] /\ LeadersAreMembers
  BY DEF PromptInv, Base, DataInv, TypeOK, MembersInv
<1>1. CASE TakeBatch(c)
  BY <1>0, <1>1 DEF TakeBatch, Goto, Executed, Took
<1>2. CASE AddToGroup(c) \/ EvaluateChannel(c) \/ ReceiveToken(c) \/ ReceiveClosed(c)
           \/ ReadRes(c) \/ ReadErr(c)
  <2>1. /\ batch' = batch /\ pc[c] \in {"add", "chan", "recv"} \cup Reading
        /\ \A d \in Calls : d # c => pc'[d] = pc[d]
    BY <1>0, <1>2 DEF AddToGroup, EvaluateChannel, ReceiveToken, ReceiveClosed, ReadRes, ReadErr,
                      Goto, shared, Reading
  <2>2. batch[c] = <<>>
    BY <1>0, <2>1 DEF LeadersAreMembers, Took, Reading
  <2> QED
    BY <2>1, <2>2 DEF Executed, Reading
<1>3. CASE WaitPrevious(c) \/ WaitReturns(c) \/ SetRes(c) \/ SetErr(c) \/ CloseChannel(c)
           \/ RenewChannel(c) \/ PassToken(c)
  <2>1. /\ batch' = batch /\ pc[c] \in Took \ {"exec"}
        /\ \A d \in Calls : d # c => pc'[d] = pc[d]
    BY <1>0, <1>3 DEF WaitPrevious, WaitReturns, SetRes, SetErr, CloseChannel, RenewChannel,
                      PassToken, Goto, shared, Took
  <2> QED
    BY <2>1 DEF Executed, Took
<1>4. CASE Return(c) \/ ExecPanics(c) \/ WaitPanics(c)
  <2>1. /\ batch' = batch
        /\ \/ pc[c] = "return" /\ pc'[c] = "returned"
           \/ pc[c] \in {"exec", "woken"} /\ pc'[c] = "panicked"
        /\ \A d \in Calls : d # c => pc'[d] = pc[d] \/ (pc[d] = "asleep" /\ pc'[d] = "woken")
    BY <1>4 DEF Return, ExecPanics, WaitPanics, Leave
  <2> QED
    BY <2>1 DEF Executed, Took
<1> QED
  BY <1>1, <1>2, <1>3, <1>4 DEF Proceed

\* Every step keeps the results returned those of leaders that are done.
LEMMA AnswersDoneNext == PromptInv /\ AnswersDone /\ [Next]_vars => AnswersDone'
<1> SUFFICES ASSUME PromptInv, AnswersDone, [Next]_vars PROVE AnswersDone'
  OBVIOUS
<1>0. /\ pc \in [Calls -> PCs]
      /\ got \in [Calls -> [res : Calls \cup {NoBatch}, err : Calls \cup {NoBatch}]]
  BY DEF PromptInv, Base, DataInv, TypeOK
<1>1. \A c \in Calls : pc[c] \in {"return", "returned"} => got[c].res \in Calls
  BY DEF PromptInv, ResultsInv, OwnResult
<1>2. ASSUME NEW c \in Calls, ReadErr(c) \/ PassToken(c) PROVE AnswersDone'
  <2>1. /\ pc'[c] = "return" /\ pc[c] \in {"readerr", "pass"}
        /\ \A d \in Calls : d # c => pc'[d] = pc[d] /\ got'[d] = got[d]
    <3>1. CASE ReadErr(c)
      BY <1>0, <3>1 DEF ReadErr, Goto, shared
    <3>2. CASE PassToken(c)
      BY <1>0, <3>2 DEF PassToken, Goto
    <3> QED
      BY <1>2, <3>1, <3>2
  <2>2. got'[c].res = got[c].res
    BY <1>0, <1>2 DEF ReadErr, PassToken
  <2>3. got[c].res \in Calls /\ pc[got[c].res] \in {"renew"} \cup Renewed
    BY <2>1 DEF PromptInv, ResultsInv, ReadersOfLatest, OwnGot, Reading, Took, Renewed
  <2>4. \A d \in Calls : pc[d] \in {"renew"} \cup Renewed => pc'[d] \in {"renew"} \cup Renewed
    BY <2>1 DEF Renewed
  <2> QED
    BY <1>1, <2>1, <2>2, <2>3, <2>4 DEF AnswersDone
<1>3. SUFFICES \/ \E c \in Calls : ReadErr(c) \/ PassToken(c)
               \/ \A d \in Calls :
                    /\ pc[d] \in {"renew"} \cup Renewed => pc'[d] \in {"renew"} \cup Renewed
                    /\ pc'[d] \in {"return", "returned"} =>
                         pc[d] \in {"return", "returned"} /\ got'[d] = got[d]
  BY <1>1, <1>2, <1>3 DEF AnswersDone
<1>4. ASSUME NEW c \in Calls,
             Submit(c) \/ AddToGroup(c) \/ EvaluateChannel(c) \/ ReceiveToken(c) \/ ReceiveClosed(c)
             \/ ReadRes(c) \/ TakeBatch(c) \/ ExecReturns(c) \/ WaitPrevious(c) \/ WaitReturns(c)
             \/ SetRes(c) \/ SetErr(c) \/ CloseChannel(c) \/ RenewChannel(c)
      PROVE  /\ \A d \in Calls : d # c => pc'[d] = pc[d] /\ got'[d] = got[d]
             /\ pc'[c] \notin {"return", "returned"}
             /\ pc[c] \in {"renew"} \cup Renewed => pc'[c] = "pass"
  <2>1. CASE ReadRes(c) \/ ExecReturns(c)
    BY <1>0, <2>1 DEF ReadRes, ExecReturns, Goto, shared, Renewed
  <2>2. CASE RenewChannel(c)
    BY <1>0, <2>2 DEF RenewChannel, Goto
  <2> QED
    BY <1>0, <1>4, <2>1, <2>2
       DEF Submit, AddToGroup, EvaluateChannel, ReceiveToken, ReceiveClosed, TakeBatch,
           WaitPrevious, WaitReturns, SetRes, SetErr, CloseChannel, Goto, shared, Renewed
<1>5. ASSUME NEW c \in Calls, Return(c) \/ ExecPanics(c) \/ WaitPanics(c)
      PROVE  /\ \A d \in Calls : d # c => pc'[d] = pc[d] \/ (pc[d] = "asleep" /\ pc'[d] = "woken")
             /\ \/ pc[c] = "return" /\ pc'[c] = "returned"
                \/ pc[c] \in {"exec", "woken"} /\ pc'[c] = "panicked"
             /\ got' = got
  BY <1>5 DEF Return, ExecPanics, WaitPanics, Leave
<1>6. CASE UNCHANGED vars
  BY <1>6 DEF vars, locals
<1> QED
  BY <1>4, <1>5, <1>6 DEF Next, Step, Proceed, Renewed

\* At first nothing is fetched.
LEMMA FetchedInit == LoaderInit => FetchedInv
<1> SUFFICES ASSUME LoaderInit PROVE FetchedInv
  OBVIOUS
<1>1. NoRows \in Fetches
  <2>1. NoRows.rows \in [{} -> 0 .. MaxVersion] /\ {} \in SUBSET Keys
    BY DEF NoRows
  <2>2. NoRows.rows \in UNION {[K -> 0 .. MaxVersion] : K \in SUBSET Keys}
    BY <2>1
  <2> QED
    BY <2>2 DEF NoRows, Fetches
<1>2. LoaderTypeOK
  BY <1>1, TypeInit, MaxVersionAssumption DEF LoaderInit, LoaderTypeOK
<1>3. \A c \in Calls : pc[c] = "idle" /\ batch[c] = <<>>
  BY DEF LoaderInit, Init
<1> QED
  BY <1>2, <1>3 DEF FetchedInv, Executed

\* A write makes a row newer.
LEMMA WriteKeeps ==
  ASSUME LoaderPromptInv, NEW k \in Keys, Write(k)
  PROVE  FetchedInv'
<1>1. /\ table[k] < MaxVersion /\ table' = [table EXCEPT ![k] = @ + 1]
      /\ table \in [Keys -> 0 .. MaxVersion] /\ key \in [Calls -> Keys]
      /\ begun \in [Calls -> 0 .. MaxVersion]
      /\ UNCHANGED <<vars, key, begun, fetched>>
  BY DEF Write, loads, LoaderPromptInv, FetchedInv, LoaderTypeOK
<1>2. UNCHANGED <<data, count, chans, full, closed, wgs, res, err, pc, slot, ch, batch, got>>
  BY <1>1 DEF vars, shared, locals
<1>3. table' \in [Keys -> 0 .. MaxVersion] /\ \A j \in Keys : table[j] <= table'[j]
  BY <1>1, MaxVersionAssumption
<1>4. LoaderTypeOK'
  BY <1>1, <1>2, <1>3 DEF LoaderPromptInv, FetchedInv, LoaderTypeOK, TypeOK
<1>5. ASSUME NEW c \in Calls, pc[c] # "idle" PROVE begun[c] <= table'[key[c]]
  <2>1. begun[c] <= table[key[c]] /\ table[key[c]] <= table'[key[c]]
    BY <1>1, <1>3, <1>5 DEF LoaderPromptInv, FetchedInv
  <2>2. begun[c] \in Int /\ table[key[c]] \in Int /\ table'[key[c]] \in Int
    BY <1>1, <1>3
  <2> QED
    BY <2>1, <2>2
<1> QED
  BY <1>1, <1>2, <1>4, <1>5 DEF LoaderPromptInv, FetchedInv, Executed

\* A load begins with the row as it is.
LEMMA LoadKeeps ==
  ASSUME LoaderPromptInv, TypeOK', NEW c \in Calls, Load(c)
  PROVE  FetchedInv'
<1>1. /\ pc[c] = "idle" /\ pc'[c] = "add" /\ \A d \in Calls : d # c => pc'[d] = pc[d]
      /\ batch' = batch /\ \A l \in Calls : c \notin Range(batch[l])
      /\ batch \in [Calls -> Seq(Calls)]
  <2>1. Submit(c) /\ TypeOK /\ OnlySubmitted
    BY DEF Load, LoaderPromptInv, PromptInv, Base, DataInv
  <2> QED
    BY <2>1 DEF Submit, Goto, TypeOK, OnlySubmitted, Range
<1>2. /\ begun' = [begun EXCEPT ![c] = table[key[c]]] /\ UNCHANGED <<table, key, fetched>>
      /\ table \in [Keys -> 0 .. MaxVersion] /\ key \in [Calls -> Keys]
      /\ begun \in [Calls -> 0 .. MaxVersion]
  BY DEF Load, LoaderPromptInv, FetchedInv, LoaderTypeOK
<1>3. LoaderTypeOK'
  BY <1>2 DEF LoaderPromptInv, FetchedInv, LoaderTypeOK
<1>4. \A l \in Calls : Executed(l)' <=> Executed(l)
  BY <1>1 DEF Executed, Took
<1>5. \A l \in Calls : \A d \in Range(batch[l]) : d \in Calls /\ d # c /\ begun'[d] = begun[d]
  BY <1>1, <1>2 DEF Range
<1>6. ASSUME NEW d \in Calls, pc'[d] # "idle" PROVE begun'[d] <= table[key[d]]
  <2>1. CASE d = c
    <3>1. begun'[c] = table[key[c]] /\ table[key[c]] \in Int
      BY <1>2
    <3> QED
      BY <2>1, <3>1
  <2>2. CASE d # c
    BY <1>1, <1>2, <1>6, <2>2 DEF LoaderPromptInv, FetchedInv
  <2> QED
    BY <2>1, <2>2
<1> QED
  BY <1>1, <1>2, <1>3, <1>4, <1>5, <1>6 DEF LoaderPromptInv, FetchedInv

\* Every call of the batch had begun when its rows are fetched.
LEMMA FetchKeeps ==
  ASSUME LoaderPromptInv, TypeOK', NEW c \in Calls, Fetch(c)
  PROVE  FetchedInv'
<1> DEFINE asked == {key[d] : d \in Range(batch[c])}
           rows == [k \in asked |-> table[k]]
<1>1. /\ pc[c] = "exec" /\ pc'[c] = "wait" /\ \A d \in Calls : d # c => pc'[d] = pc[d]
      /\ batch' = batch /\ batch \in [Calls -> Seq(Calls)]
      /\ \A d \in Range(batch[c]) : d \in Calls /\ pc[d] # "idle"
  <2>1. ExecReturns(c) /\ TypeOK /\ OnlySubmitted
    BY DEF Fetch, LoaderPromptInv, PromptInv, Base, DataInv
  <2> QED
    BY SMTT(60), <2>1 DEF ExecReturns, Goto, TypeOK, OnlySubmitted, Range
<1>2. /\ UNCHANGED <<table, key, begun>>
      /\ table \in [Keys -> 0 .. MaxVersion] /\ key \in [Calls -> Keys]
      /\ fetched \in [Calls -> Fetches]
  BY DEF Fetch, loads, LoaderPromptInv, FetchedInv, LoaderTypeOK
<1>3. PICK failed \in BOOLEAN : fetched' = [fetched EXCEPT ![c] = [failed |-> failed, rows |-> rows]]
  BY DEF Fetch
<1>4. asked \in SUBSET Keys /\ rows \in [asked -> 0 .. MaxVersion]
  BY <1>1, <1>2
<1>5. \A d \in Range(batch[c]) : begun[d] <= rows[key[d]]
  <2>1. \A d \in Range(batch[c]) : rows[key[d]] = table[key[d]]
    OBVIOUS
  <2> QED
    BY <1>1, <2>1 DEF LoaderPromptInv, FetchedInv
<1>6. DOMAIN rows = asked
  OBVIOUS
<1> HIDE DEF rows
<1>7. /\ fetched'[c].rows = rows /\ \A l \in Calls : l # c => fetched'[l] = fetched[l]
  BY <1>2, <1>3
<1>8. LoaderTypeOK'
  <2>1. rows \in UNION {[K -> 0 .. MaxVersion] : K \in SUBSET Keys}
    BY <1>4
  <2>2. [failed |-> failed, rows |-> rows] \in Fetches
    BY <2>1 DEF Fetches
  <2>3. fetched' \in [Calls -> Fetches]
    BY <1>2, <1>3, <2>2
  <2> QED
    BY <1>2, <2>3 DEF LoaderPromptInv, FetchedInv, LoaderTypeOK
<1>9. \A l \in Calls : l # c => (Executed(l)' <=> Executed(l))
  BY <1>1 DEF Executed
<1>10. \A l \in Calls : Executed(l)' =>
         /\ DOMAIN fetched'[l].rows = {key[d] : d \in Range(batch[l])}
         /\ \A d \in Range(batch[l]) : begun[d] <= fetched'[l].rows[key[d]]
  BY <1>5, <1>6, <1>7, <1>9 DEF LoaderPromptInv, FetchedInv
<1>11. \A d \in Calls : pc'[d] # "idle" => begun[d] <= table[key[d]]
  BY <1>1 DEF LoaderPromptInv, FetchedInv
<1> QED
  BY <1>1, <1>2, <1>8, <1>10, <1>11 DEF FetchedInv

\* The other steps of Execute fetch nothing.
LEMMA AdvanceKeeps ==
  ASSUME LoaderPromptInv, TypeOK', NEW c \in Calls, Advance(c)
  PROVE  FetchedInv'
<1>1. Proceed(c) /\ UNCHANGED <<table, key, begun, fetched>>
  BY DEF Advance, loads
<1>2. \A l \in Calls : /\ pc'[l] # "idle" => pc[l] # "idle"
                       /\ Executed(l)' => Executed(l) /\ batch'[l] = batch[l]
  BY <1>1, ProceedFrame DEF LoaderPromptInv
<1> QED
  BY <1>1, <1>2 DEF LoaderPromptInv, FetchedInv, LoaderTypeOK

\* Every step of the loader keeps its invariant.
LEMMA LoaderKeeps ==
  LoaderPromptInv /\ [LoaderNext /\ NoStraggler']_loaderVars => LoaderPromptInv'
<1> SUFFICES ASSUME LoaderPromptInv, [LoaderNext /\ NoStraggler']_loaderVars
             PROVE  LoaderPromptInv'
  OBVIOUS
<1>1. [PromptNext]_vars
  <2>1. ASSUME NEW c \in Calls, Load(c) \/ Fetch(c) \/ Advance(c) PROVE Next
    BY <2>1 DEF Load, Fetch, Advance, Next, Step
  <2>2. ASSUME NEW k \in Keys, Write(k) PROVE UNCHANGED vars
    BY <2>2 DEF Write
  <2>3. CASE LoaderNext /\ NoStraggler'
    BY <2>1, <2>2, <2>3 DEF LoaderNext, PromptNext
  <2>4. CASE UNCHANGED loaderVars
    BY <2>4 DEF loaderVars
  <2> QED
    BY <2>3, <2>4
<1>2. PromptInv' /\ AnswersDone' /\ TypeOK'
  <2>1. [Next]_vars
    BY <1>1 DEF PromptNext
  <2> QED
    BY <1>1, <2>1, PromptKeeps, AnswersDoneNext DEF LoaderPromptInv, PromptInv, Base, DataInv
<1>3. FetchedInv'
  <2>1. CASE LoaderNext
    BY <1>2, <2>1, WriteKeeps, LoadKeeps, FetchKeeps, AdvanceKeeps DEF LoaderNext
  <2>2. CASE UNCHANGED loaderVars
    <3>1. UNCHANGED <<data, count, chans, full, closed, wgs, res, err, pc, slot, ch, batch, got,
                      table, key, begun, fetched>>
      BY <2>2 DEF loaderVars, vars, shared, locals, loads
    <3>2. LoaderTypeOK'
      BY <1>2, <3>1 DEF LoaderPromptInv, FetchedInv, LoaderTypeOK
    <3>3. \A l \in Calls : Executed(l)' <=> Executed(l)
      BY <3>1 DEF Executed, Took
    <3> QED
      BY <3>1, <3>2, <3>3 DEF LoaderPromptInv, FetchedInv
  <2> QED
    BY <2>1, <2>2
<1> QED
  BY <1>2, <1>3 DEF LoaderPromptInv

\* With prompt calls, what a batch has fetched is as new as each of its calls.
THEOREM LoaderPromptCorrect == LoaderPromptSpec => []LoaderPromptInv
<1>1. LoaderInit => LoaderPromptInv
  <2>1. LoaderInit => AnswersDone
    BY DEF LoaderInit, Init, AnswersDone
  <2> QED
    BY <2>1, PromptInit, FetchedInit DEF LoaderInit, LoaderPromptInv
<1> QED
  BY <1>1, LoaderKeeps, PTL DEF LoaderPromptSpec

\* The rows a call looks in were fetched for its key, after it had begun.
LEMMA RowsOfOwnKey ==
  ASSUME LoaderPromptInv, NEW c \in Calls, Answered(c)
  PROVE  /\ got[c].err = got[c].res /\ got[c].res \in Calls
         /\ Rows(c) = fetched[got[c].res].rows
         /\ key[c] \in DOMAIN Rows(c) /\ begun[c] <= Rows(c)[key[c]]
<1> DEFINE l == got[c].res
<1>1. got[c].err = l /\ l \in Calls /\ c \in Range(batch[l]) /\ pc[l] \in {"renew"} \cup Renewed
  BY DEF LoaderPromptInv, PromptInv, ResultsInv, OwnResult, AnswersDone, Answered
<1>2. Executed(l)
  <2>1. batch[l] # <<>>
    BY <1>1 DEF Range
  <2> QED
    BY <1>1, <2>1 DEF Executed, Took, Renewed
<1>3. Rows(c) = fetched[l].rows
  BY <1>1, CallsAssumption DEF Rows
<1> QED
  BY <1>1, <1>2, <1>3 DEF LoaderPromptInv, FetchedInv

\* Load finds no value older than its call.
THEOREM FreshAnswerHolds == LoaderPromptSpec => []FreshAnswer
<1>1. LoaderPromptInv => FreshAnswer
  <2> SUFFICES ASSUME LoaderPromptInv, NEW c \in Calls, Answered(c)
               PROVE  Rows(c)[key[c]] >= begun[c]
    BY DEF FreshAnswer
  <2>1. begun[c] <= Rows(c)[key[c]]
    BY RowsOfOwnKey
  <2> QED
    BY <2>1
<1> QED
  BY <1>1, LoaderPromptCorrect, PTL

\* Load finds nothing only where there was nothing, and fails only with its own fetch.
THEOREM LoaderInvHolds == LoaderPromptSpec => []LoaderInv
<1>1. LoaderPromptInv => LoaderInv
  <2> SUFFICES ASSUME LoaderPromptInv PROVE LoaderInv
    OBVIOUS
  <2>1. NotFoundIsAbsent
    BY RowsOfOwnKey DEF NotFoundIsAbsent, LoadFinds
  <2>2. FailureIsOwn
    BY RowsOfOwnKey DEF FailureIsOwn
  <2> QED
    BY <2>1, <2>2 DEF LoaderInv, LoaderPromptInv, FetchedInv
<1> QED
  BY <1>1, LoaderPromptCorrect, PTL
=============================================================================
