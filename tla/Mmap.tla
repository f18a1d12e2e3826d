-------------------------------- MODULE Mmap --------------------------------
(***************************************************************************)
(* library/mmap: a hash table in two files, written by Save, mapped by     *)
(* Load and read by Get.  Mmap takes the bytes of a key for a number,      *)
(* which is never negative and the same for "a" and "\0a"; the keys of     *)
(* MmapInt are numbers already, of either sign.  The two have the same     *)
(* steps.                                                                  *)
(*                                                                         *)
(* One process saves, again and again, and may die anywhere; another one   *)
(* loads and reads.  The index is a sequence of slots, the data a sequence *)
(* of cells: an entry is a cell for its key and the cells of its value.    *)
(***************************************************************************)
EXTENDS Integers, Sequences, FiniteSets

CONSTANTS
  Keys,
  Number,          \* of every key, its number
  Primes,          \* primeNumbers, ascending
  MaxItemCount,
  MaxSaves         \* bound on the calls of Save

ASSUME NumberAssumption == Number \in [Keys -> Int]

\* New fails if there are too many items for the greatest prime.
IsPrime(p) == p \in Nat \ {0, 1} /\ \A d \in 2 .. p - 1 : p % d # 0
ASSUME PrimesAssumption ==
  /\ Primes \in Seq(Nat) /\ \A i \in DOMAIN Primes : IsPrime(Primes[i])
  /\ MaxItemCount \in Int /\ \E i \in DOMAIN Primes : MaxItemCount <= Primes[i]

VARIABLES
  mod,             \* the slots, as New has set them
  index, data,     \* the files; one that does not exist is empty
  mapped,          \* mapped.index, mapped.data: the lengths mapped, 0 when there is no mapping
  loading,         \* whether Load has mapped the index and is about to map the data
  get,             \* the last call of Get: its stage, its probe, the slot read, the answer
  pc,              \* where Save stands: "idle", "create", "fill", "write data", "write index"
  any,             \* whether itemCount is more than 0: else Save never calls fn
  buf, slots,      \* what Save has in memory
  saves, want      \* history: the number of the last Save, and the keys it has stored

saveVars == <<pc, any, buf, slots, saves, want>>
mmapVars == <<mod, index, data, mapped, loading, get, saveVars>>

----------------------------------------------------------------------------
(* Hashing                                                                 *)

\* The least prime with a quarter of room, or else the least that is enough.
calcMod(n) ==
  LET AtLeast(m) == {i \in DOMAIN Primes : m <= Primes[i]}
      Least(S)   == Primes[CHOOSE i \in S : \A j \in S : i <= j]
  IN  IF AtLeast((n * 5) \div 4) # {} THEN Least(AtLeast((n * 5) \div 4)) ELSE Least(AtLeast(n))

\* Go's % has the sign of the dividend.
Rem(x, m) == IF x >= 0 THEN x % m ELSE -((-x) % m)
h1(k) == Rem(Number[k], mod)
h2NotZero(k) == Rem(Number[k], mod - 1)
h2(k) == Rem(Number[k], mod - 1) + 1
Probe(k, i) == Rem(h1(k) + i * h2(k), mod)

\* Of the probes that end a search, the one that does, if there are any.
First(ends) == {i \in ends : \A j \in ends : i <= j}

\* An item of the Save with number s: its value tells key and Save, with a length
\* that depends on both.
Value(k, s) == IF (k + s) % 2 = 0 THEN <<k, s>> ELSE <<k, s, 0>>

Empty == [from |-> 0, to |-> 0]

----------------------------------------------------------------------------
(* Save                                                                    *)

\* store ends at the first probe that is out of range, free, or the key's already.
At(k, i) == slots[Probe(k, i) + 1]
End(k) == First({i \in 0 .. mod - 1 : Probe(k, i) < 0 \/ At(k, i).to = 0 \/ buf[At(k, i).from + 1] = k})

Search(k) ==
  CASE End(k) = {}                          -> "cannot store"
    [] \E i \in End(k) : Probe(k, i) < 0    -> "panic"
    [] \E i \in End(k) : Probe(k, i) >= 0 /\ At(k, i).to = 0 -> "stored"
    [] OTHER                                -> "duplicate key"

\* os.Create empties a file that exists, for those who have mapped it too.
Untouched == index
Truncated == <<>>
Save(some) ==
  /\ pc = "idle" /\ saves < MaxSaves
  /\ index' = Truncated
  /\ saves' = saves + 1 /\ want' = {}
  /\ any' = some
  /\ pc' = "create"
  /\ UNCHANGED <<mod, data, mapped, loading, get, buf, slots>>

CreateData ==
  /\ pc = "create"
  /\ data' = <<>>
  /\ buf' = <<>> /\ slots' = [i \in 1 .. mod |-> Empty]
  /\ pc' = "fill"
  /\ UNCHANGED <<mod, index, mapped, loading, get, any, saves, want>>

\* fn gives items, any number of them in each of its rounds, and each is stored in
\* memory.
Fill(k) ==
  LET entry == <<k>> \o Value(k, saves)
  IN  /\ pc = "fill" /\ any
      /\ want' = want \cup {k}
      /\ IF Search(k) = "stored"
         THEN /\ buf' = buf \o entry
              /\ \E i \in End(k) :
                   slots' = [slots EXCEPT ![Probe(k, i) + 1] = [from |-> Len(buf), to |-> Len(buf) + Len(entry)]]
              /\ UNCHANGED pc
         ELSE pc' = "idle" /\ UNCHANGED <<buf, slots>>
      /\ UNCHANGED <<mod, index, data, mapped, loading, get, any, saves>>

\* fn has no more items, or the loop has run all its rounds.
Filled ==
  /\ pc = "fill"
  /\ pc' = "write data"
  /\ UNCHANGED <<mod, index, data, mapped, loading, get, any, buf, slots, saves, want>>

WriteData ==
  /\ pc = "write data"
  /\ data' = buf
  /\ pc' = "write index"
  /\ UNCHANGED <<mod, index, mapped, loading, get, any, buf, slots, saves, want>>

\* The index gets longer in writes of some slots each.
WriteIndex ==
  /\ pc = "write index"
  /\ \E n \in Len(index) + 1 .. mod :
       /\ index' = SubSeq(slots, 1, n)
       /\ pc' = IF n = mod THEN "idle" ELSE pc
  /\ UNCHANGED <<mod, data, mapped, loading, get, any, buf, slots, saves, want>>

IndexFirst ==
  /\ pc \in {"write data", "write index"}
  /\ IF pc = "write data" THEN index' = slots /\ UNCHANGED data ELSE data' = buf /\ UNCHANGED index
  /\ pc' = IF pc = "write data" THEN "write index" ELSE "idle"
  /\ UNCHANGED <<mod, mapped, loading, get, any, buf, slots, saves, want>>

\* fn or a write fails, or the process dies: the files stay as they are.
Stop ==
  /\ pc # "idle"
  /\ pc' = "idle"
  /\ UNCHANGED <<mod, index, data, mapped, loading, get, any, buf, slots, saves, want>>

Write == WriteData \/ WriteIndex

----------------------------------------------------------------------------
(* Load and Get, in another process, one call after the other              *)

Busy == get.stage \in {"slot", "data"}

\* An empty file cannot be mapped, and leaves no mapping.
LoadIndex ==
  /\ ~loading /\ ~Busy
  /\ mapped' = [mapped EXCEPT !.index = Len(index)]
  /\ loading' = (index # <<>>)
  /\ UNCHANGED <<mod, index, data, get, saveVars>>

LoadData ==
  /\ loading
  /\ mapped' = [mapped EXCEPT !.data = Len(data)]
  /\ loading' = FALSE
  /\ UNCHANGED <<mod, index, data, get, saveVars>>

\* Past its end a file mapped holds zeros up to the end of its last page: a free slot,
\* and the key that reads as zeros (0, or the empty string).  Where its pages end, and
\* anywhere in a file that is empty, a read is a fault.
SlotAt(n) == IF n \in DOMAIN index THEN index[n] ELSE Empty
CellAt(n) == IF n \in DOMAIN data THEN data[n] ELSE 0

\* Save has written all its files and Load has mapped all of them.
Whole == Len(index) = mod /\ mapped.index = mod /\ mapped.data >= Len(data)

\* The answers: a value, not found, or a fault (a panic or a signal).
Fault     == [kind |-> "fault", value |-> <<>>]
NotFound  == [kind |-> "not found", value |-> <<>>]
Answer(v) == [kind |-> "found", value |-> v]

\* began and whole are history: the last Save when the Get began, and whether the files
\* were whole.
StartGet(k) ==
  /\ ~loading /\ ~Busy
  /\ get' = [stage |-> "slot", key |-> k, i |-> 0, slot |-> Empty, answer |-> NotFound,
             began |-> saves, whole |-> Whole]
  /\ UNCHANGED <<mod, index, data, mapped, loading, saveVars>>

Done(answer) == get' = [get EXCEPT !.stage = "done", !.answer = answer]

ReadSlot ==
  LET n == Probe(get.key, get.i) + 1
  IN  /\ get.stage = "slot"
      /\ \/ n \notin 1 .. mapped.index \cap DOMAIN index /\ Done(Fault)
         \/ n \in 1 .. mapped.index /\ index # <<>> /\ SlotAt(n).to = 0 /\ Done(NotFound)
         \/ /\ n \in 1 .. mapped.index /\ SlotAt(n).to # 0
            /\ get' = [get EXCEPT !.stage = "data", !.slot = SlotAt(n)]
      /\ UNCHANGED <<mod, index, data, mapped, loading, saveVars>>

\* The data may have changed since the slot was read, and its mapping may be shorter
\* than the data.  At the very end of the mapping, or of no mapping at all, no bytes are
\* left: that is no error, and the key read is 0.  Or part of a key is left: it is 0 too,
\* or a fault.
ReadData ==
  LET first    == get.slot.from + 1
      last     == get.slot.to
      There(n) == n <= mapped.data /\ n <= Len(data)
      legal    == first = mapped.data + 1 \/ (first <= mapped.data /\ data # <<>>)
      found    == legal /\ (IF first <= mapped.data THEN CellAt(first) ELSE 0) = get.key
  IN  /\ get.stage = "data"
      /\ \/ ~There(first) /\ Done(Fault)
         \/ found /\ ~There(last) /\ Done(Fault)
         \/ /\ found /\ last <= mapped.data
            /\ Done(Answer([n \in 1 .. last - first |-> CellAt(first + n)]))
         \/ legal /\ ~found /\ get.i + 1 = mod /\ Done(NotFound)
         \/ /\ legal /\ ~found /\ get.i + 1 < mod
            /\ get' = [get EXCEPT !.stage = "slot", !.i = @ + 1]
      /\ UNCHANGED <<mod, index, data, mapped, loading, saveVars>>

MmapInit ==
  /\ mod = calcMod(MaxItemCount)
  /\ index = <<>> /\ data = <<>>
  /\ mapped = [index |-> 0, data |-> 0] /\ loading = FALSE
  /\ get = [stage |-> "done", key |-> CHOOSE k \in Keys : TRUE, i |-> 0, slot |-> Empty, answer |-> Fault,
            began |-> 0, whole |-> FALSE]
  /\ pc = "idle" /\ any = FALSE
  /\ buf = <<>> /\ slots = [i \in 1 .. mod |-> Empty]
  /\ saves = 0 /\ want = {}

MmapNext ==
  \/ \E some \in BOOLEAN : Save(some)
  \/ \E k \in Keys : Fill(k)
  \/ CreateData \/ Filled \/ Write \/ Stop
  \/ LoadIndex \/ LoadData
  \/ \E k \in Keys : StartGet(k)
  \/ ReadSlot \/ ReadData

MmapSpec == MmapInit /\ [][MmapNext]_mmapVars

----------------------------------------------------------------------------
\* A Get during which no Save begins never finds what the last Save has not stored for
\* its key, whatever Saves have run or died since the files were mapped (mmap.go:76 and
\* 81 empty the files in place).  It may miss a key that was stored, but not if Save was
\* through and Load had mapped both files to their ends: then it finds what was stored
\* and nothing else, and a fault is left to the negative keys.
NeverWrong ==
  get.stage = "done" /\ get.began = saves =>
    LET right == IF get.key \in want THEN Answer(Value(get.key, saves)) ELSE NotFound
    IN  /\ get.answer \in {Fault, NotFound, right}
        /\ get.whole => get.answer = right \/ (get.answer = Fault /\ Number[get.key] < 0)

\* No index points past the end of the data, wherever a Save has died: the index is
\* written last (mmap.go:107-111).
IndexWithinData == \A n \in DOMAIN index : index[n].to <= Len(data)

\* A key that is not negative and not yet stored finds a free slot as long as
\* there is one: the probes reach all the slots.
RoomForAll ==
  pc = "fill" /\ Cardinality(want) < mod => \A k \in Keys \ want : Number[k] >= 0 => Search(k) = "stored"
=============================================================================
