----------------------------- MODULE DataLoader ----------------------------
(***************************************************************************)
(* library/dataloader: Load(key) is one call of Execute on a BulkExecute   *)
(* whose exec fetches a map of rows for all the keys of the batch.         *)
(*                                                                         *)
(* The fetch function belongs to the application; it is modelled as a      *)
(* query of a table that other clients keep writing.  A row is represented *)
(* by its version, and versions alternate: a row is absent at even ones.   *)
(***************************************************************************)
EXTENDS BulkExecute

CONSTANTS
  Keys,
  MaxVersion   \* bound on the writes of one row, for model checking

ASSUME MaxVersionAssumption == MaxVersion \in Nat

VARIABLES
  table,     \* table[k]: the version of row k now
  key,       \* key[c]: the argument of Load
  begun,     \* history: the version of key[c]'s row when Load was called
  fetched    \* fetched[l]: what exec returned to the leader l

loads == <<key, begun>>
loaderVars == <<vars, table, loads, fetched>>

Present(version) == version % 2 = 1

\* The fetch has an error, or the versions of the rows asked for.
Fetches == [failed : BOOLEAN, rows : UNION {[K -> 0 .. MaxVersion] : K \in SUBSET Keys}]
NoRows == [failed |-> FALSE, rows |-> <<>>]

LoaderInit ==
  /\ Init
  /\ table = [k \in Keys |-> 0]
  /\ key \in [Calls -> Keys]
  /\ begun = [c \in Calls |-> 0]
  /\ fetched = [c \in Calls |-> NoRows]

\* Another client inserts or deletes row k.
Write(k) ==
  /\ table[k] < MaxVersion
  /\ table' = [table EXCEPT ![k] = @ + 1]
  /\ UNCHANGED <<vars, loads, fetched>>

Load(c) ==
  /\ Submit(c)
  /\ begun' = [begun EXCEPT ![c] = table[key[c]]]
  /\ UNCHANGED <<table, key, fetched>>

\* exec: one query for the keys of the batch, duplicates and all.
Fetch(c) ==
  /\ ExecReturns(c)
  /\ LET asked == {key[d] : d \in Range(batch[c])}
     IN  \E failed \in BOOLEAN :
           fetched' = [fetched EXCEPT ![c] =
             [failed |-> failed, rows |-> [k \in asked |-> table[k]]]]
  /\ UNCHANGED <<table, loads>>

Advance(c) == Proceed(c) /\ UNCHANGED <<table, loads, fetched>>

LoaderNext ==
  \/ \E k \in Keys : Write(k)
  \/ \E c \in Calls : Load(c) \/ Fetch(c) \/ Advance(c)

LoaderPromptSpec == LoaderInit /\ [][LoaderNext /\ NoStraggler']_loaderVars

----------------------------------------------------------------------------
(* What Load makes of the pair Execute returned to it.  The zero values of  *)
(* be.res and be.err are a nil map and a nil error.                          *)

LoadFails(c) == got[c].err # NoBatch /\ fetched[got[c].err].failed

Rows(c) == IF got[c].res = NoBatch THEN <<>> ELSE fetched[got[c].res].rows

LoadFinds(c) ==
  /\ ~LoadFails(c)
  /\ key[c] \in DOMAIN Rows(c)
  /\ Present(Rows(c)[key[c]])

Answered(c) == pc[c] = "returned"

LoaderTypeOK ==
  /\ TypeOK
  /\ table \in [Keys -> 0 .. MaxVersion]
  /\ key \in [Calls -> Keys]
  /\ begun \in [Calls -> 0 .. MaxVersion]
  /\ fetched \in [Calls -> Fetches]

\* A value Load returns is never older than the call: a batch is not a cache,
\* and the result of the batch before is never taken for one's own.
FreshAnswer ==
  \A c \in Calls : Answered(c) /\ LoadFinds(c) => Rows(c)[key[c]] >= begun[c]

\* Load answers "not found" only when its row was absent when it was fetched,
\* never because the rows it looks in were fetched for other keys.
NotFoundIsAbsent ==
  \A c \in Calls : Answered(c) /\ ~LoadFails(c) /\ ~LoadFinds(c) =>
    /\ key[c] \in DOMAIN Rows(c)
    /\ ~Present(Rows(c)[key[c]])

\* Load reports an error only of a fetch for its key: the error of another
\* batch is never returned in its place.
FailureIsOwn ==
  \A c \in Calls : Answered(c) /\ LoadFails(c) =>
    key[c] \in DOMAIN fetched[got[c].err].rows

\* What does not come from the answer itself comes from a fetch for its key.
LoaderInv == LoaderTypeOK /\ NotFoundIsAbsent /\ FailureIsOwn
=============================================================================
