---------------------------- MODULE ToolsProofs ----------------------------
(***************************************************************************)
(* Proofs about the tools.  SetCtx, for any functions and any packages:    *)
(* what it finds is the closure of the call graph, and that is all the     *)
(* conversion needs for its result to compile.  Varint, for every width,   *)
(* number and input: the numbers of encodegen's methods find room and are  *)
(* read back.                                                              *)
(***************************************************************************)
EXTENDS SetCtx, Varint, WellFoundedInduction, TLAPS

Types == [Funcs -> [ctx : Kinds, calls : SUBSET Calls]]

TypeOK ==
  /\ times \in {1, 2} /\ read \in Types /\ code \in Types
  /\ phase \in {"search", "convert", "written"} /\ left \subseteq Funcs /\ dbCallFuncMap \subseteq Funcs
  /\ decl \in Funcs /\ visited \subseteq Funcs /\ todo \subseteq Funcs /\ found \in BOOLEAN

----------------------------------------------------------------------------
(* The functions that reach a database call                                *)

LEMMA CalleesAre ==
  ASSUME NEW pkg \in Types, NEW f \in Funcs
  PROVE  Callees(pkg, f) \subseteq Funcs
BY DEF Callees

\* The smallest closed set is closed itself.
LEMMA ReachingClosed ==
  ASSUME NEW pkg
  PROVE  Reaching(pkg) \subseteq Funcs /\ Closed(pkg, Reaching(pkg))
<1>1. Reaching(pkg) \subseteq Funcs
  BY DEF Reaching
<1>2. ASSUME NEW f \in Funcs, CallsSQL(pkg, f) \/ Callees(pkg, f) \cap Reaching(pkg) # {},
             NEW S \in SUBSET Funcs, Closed(pkg, S)
      PROVE  f \in S
  <2>1. Reaching(pkg) \subseteq S
    BY <1>2 DEF Reaching
  <2>2. CallsSQL(pkg, f) \/ Callees(pkg, f) \cap S # {}
    BY <1>2, <2>1
  <2> QED
    BY <1>2, <2>2 DEF Closed
<1>3. ASSUME NEW f \in Funcs, CallsSQL(pkg, f) \/ Callees(pkg, f) \cap Reaching(pkg) # {}
      PROVE  f \in Reaching(pkg)
  BY <1>2, <1>3 DEF Reaching
<1> QED
  BY <1>1, <1>3 DEF Closed

\* Every member of it makes a database call or calls a member: the set of those that
\* do is closed too.
LEMMA ReachingBecause ==
  ASSUME NEW pkg, NEW f \in Reaching(pkg)
  PROVE  CallsSQL(pkg, f) \/ Callees(pkg, f) \cap Reaching(pkg) # {}
<1> DEFINE S == {g \in Funcs : CallsSQL(pkg, g) \/ Callees(pkg, g) \cap Reaching(pkg) # {}}
<1>1. S \subseteq Reaching(pkg)
  BY ReachingClosed DEF Closed
<1>2. \A g \in Funcs : CallsSQL(pkg, g) \/ Callees(pkg, g) \cap S # {} => g \in S
  BY <1>1
<1>3. Closed(pkg, S) /\ S \in SUBSET Funcs
  BY <1>2 DEF Closed
<1>4. f \in S
  <2> HIDE DEF S
  <2> QED BY <1>3 DEF Reaching
<1> QED
  BY <1>4

\* Without a database call nobody reaches one.
LEMMA NoneReach ==
  ASSUME NEW pkg, \A f \in Funcs : ~CallsSQL(pkg, f)
  PROVE  Reaching(pkg) = {}
<1>1. Closed(pkg, {})
  BY DEF Closed
<1> QED
  BY <1>1 DEF Reaching

----------------------------------------------------------------------------
(* The inductive invariant                                                 *)

Busy == visited # {} \/ todo # {}

\* What the search has come to is reached from decl, and it leaves nothing out.
SearchInv ==
  /\ code = read
  /\ ~Busy => \A f \in Funcs \ left : f \in dbCallFuncMap <=> f \in Reaching(read)
  /\ Busy =>
       /\ decl \notin left /\ decl \in visited \cup todo
       /\ \A f \in Funcs \ left : f # decl => (f \in dbCallFuncMap <=> f \in Reaching(read))
       /\ decl \notin dbCallFuncMap
       /\ \A g \in visited : Callees(read, g) \subseteq visited \cup todo
       /\ found <=> \E g \in visited : CallsSQL(read, g)
       /\ decl \notin Reaching(read) => (visited \cup todo) \cap Reaching(read) = {}
  /\ dbCallFuncMap \cap left = {}

\* What a function becomes, whatever has been converted before it.
Result(f) ==
  [ctx   |-> IF read[f].ctx = "none" /\ f # Main /\ \E c \in read[f].calls : Converts(c)
             THEN "context.Context" ELSE read[f].ctx,
   calls |-> {IF ~Converts(c) THEN c
              ELSE [to  |-> IF IsSQL(c) THEN ctxFuncMap[c.to] ELSE c.to, own |-> c.own,
                    arg |-> IF c.arg # "none" THEN "two"
                            ELSE IF f = Main /\ read[f].ctx = "none" /\ ~c.own THEN "opaque" ELSE "known"]
              : c \in read[f].calls}]

ConvertInv ==
  /\ ~Busy
  /\ dbCallFuncMap = Reaching(read)
  /\ \A f \in Funcs : code[f] = IF f \in left THEN read[f] ELSE Result(f)

ToolInv ==
  /\ TypeOK /\ Compiles(read)
  /\ times = 2 => \A f \in Funcs : ~CallsSQL(read, f)
  /\ phase = "search" => SearchInv
  /\ phase # "search" => ConvertInv
  /\ phase = "written" => left = {}

LEMMA ResultType ==
  ASSUME read \in Types, NEW f \in Funcs
  PROVE  Result(f) \in [ctx : Kinds, calls : SUBSET Calls]
<1>1. read[f] \in [ctx : Kinds, calls : SUBSET Calls]
  BY DEF Types
<1>2. ASSUME NEW c \in read[f].calls
      PROVE  (IF ~Converts(c) THEN c
              ELSE [to  |-> IF IsSQL(c) THEN ctxFuncMap[c.to] ELSE c.to, own |-> c.own,
                    arg |-> IF c.arg # "none" THEN "two"
                            ELSE IF f = Main /\ read[f].ctx = "none" /\ ~c.own THEN "opaque" ELSE "known"]) \in Calls
  <2>1. c \in Calls
    BY <1>1
  <2>2. IsSQL(c) => ctxFuncMap[c.to] \in ContextVersions
    BY DEF IsSQL, ctxFuncMap, ContextVersions
  <2> QED
    BY <2>1, <2>2 DEF Calls
<1>3. Result(f).ctx \in Kinds /\ Result(f).calls \subseteq Calls
  BY <1>1, <1>2 DEF Result, Kinds
<1> QED
  BY <1>3 DEF Result

\* The result has no database call without a context.
LEMMA ResultConverted ==
  ASSUME read \in Types, NEW f \in Funcs, NEW c \in Result(f).calls
  PROVE  ~IsSQL(c)
<1>1. PICK d \in read[f].calls : c = IF ~Converts(d) THEN d
              ELSE [to  |-> IF IsSQL(d) THEN ctxFuncMap[d.to] ELSE d.to, own |-> d.own,
                    arg |-> IF d.arg # "none" THEN "two"
                            ELSE IF f = Main /\ read[f].ctx = "none" /\ ~d.own THEN "opaque" ELSE "known"]
  BY DEF Result
<1>2. CASE IsSQL(d)
  <2>1. c.to = ctxFuncMap[d.to]
    BY <1>1, <1>2 DEF Converts
  <2> QED
    BY <1>2, <2>1 DEF IsSQL, ctxFuncMap
<1>3. CASE ~IsSQL(d)
  <2>1. c.to = d.to
    BY <1>1, <1>3
  <2> QED
    BY <1>3, <2>1 DEF IsSQL
<1> QED
  BY <1>2, <1>3

\* Who does not reach the database stays as it is.
LEMMA ResultElse ==
  ASSUME read \in Types, dbCallFuncMap = Reaching(read), NEW f \in Funcs, f \notin Reaching(read)
  PROVE  Result(f) = read[f]
<1>1. read[f] \in [ctx : Kinds, calls : SUBSET Calls]
  BY DEF Types
<1>2. \A c \in read[f].calls : ~Converts(c)
  <2>1. ~CallsSQL(read, f) /\ Callees(read, f) \cap Reaching(read) = {}
    BY ReachingClosed DEF Closed
  <2>2. Reaching(read) \subseteq Funcs
    BY ReachingClosed
  <2> QED
    BY <2>1, <2>2 DEF Converts, CallsSQL, Callees
<1>3. Result(f).ctx = read[f].ctx /\ Result(f).calls = read[f].calls
  BY <1>2 DEF Result
<1> QED
  BY <1>1, <1>3 DEF Result

----------------------------------------------------------------------------
(* The steps                                                               *)

LEMMA InitInv == SetCtxInit => ToolInv
<1> SUFFICES ASSUME SetCtxInit PROVE ToolInv
  OBVIOUS
<1>1. /\ times = 1 /\ read \in Packages /\ code = read /\ phase = "search" /\ left = Funcs /\ dbCallFuncMap = {}
      /\ decl = Main /\ visited = {} /\ todo = {} /\ found = FALSE
  BY DEF SetCtxInit
<1>2. read \in Types /\ Compiles(read)
  BY <1>1, PackagesAssumption DEF Types
<1>3. TypeOK
  BY <1>1, <1>2, FuncsAssumption DEF TypeOK
<1>4. SearchInv
  BY <1>1 DEF SearchInv, Busy
<1> QED
  BY <1>1, <1>2, <1>3, <1>4 DEF ToolInv

LEMMA SearchKeeps ==
  ASSUME ToolInv, NEW f \in Funcs, Search(f)
  PROVE  ToolInv'
<1>1. /\ phase = "search" /\ visited = {} /\ todo = {} /\ f \in left /\ decl' = f /\ todo' = {f} /\ found' = FALSE
      /\ left' = left \ {f} /\ UNCHANGED <<times, read, code, phase, dbCallFuncMap, visited>>
  BY DEF Search
<1>2. SearchInv /\ TypeOK /\ Compiles(read) /\ (times = 2 => \A g \in Funcs : ~CallsSQL(read, g))
  BY <1>1 DEF ToolInv
<1>3. TypeOK'
  BY <1>1, <1>2 DEF TypeOK
<1>4. SearchInv'
  BY <1>1, <1>2 DEF SearchInv, Busy, Reaching, Closed, CallsSQL, Callees
<1> QED
  BY <1>1, <1>2, <1>3, <1>4 DEF ToolInv, Compiles, CallsSQL

LEMMA EnterKeeps ==
  ASSUME ToolInv, NEW f \in Funcs, Enter(f)
  PROVE  ToolInv'
<1>1. /\ f \in todo /\ visited' = visited \cup {f} /\ todo' = (todo \cup Callees(read, f)) \ (visited \cup {f})
      /\ found' = (found \/ CallsSQL(read, f)) /\ UNCHANGED <<times, read, code, phase, left, dbCallFuncMap, decl>>
  BY DEF Enter
<1>2. phase = "search"
  BY <1>1 DEF ToolInv, ConvertInv, Busy, TypeOK
<1>3. SearchInv /\ TypeOK /\ Compiles(read) /\ (times = 2 => \A g \in Funcs : ~CallsSQL(read, g))
  BY <1>2 DEF ToolInv
<1>4. Busy /\ Busy'
  BY <1>1 DEF Busy
<1>5. TypeOK'
  <2>1. Callees(read, f) \subseteq Funcs
    BY <1>3, CalleesAre DEF TypeOK
  <2> QED
    BY <1>1, <1>3, <2>1 DEF TypeOK
<1>6. SearchInv'
  <2>1. /\ decl \notin left /\ decl \in visited \cup todo /\ decl \notin dbCallFuncMap
        /\ \A g \in Funcs \ left : g # decl => (g \in dbCallFuncMap <=> g \in Reaching(read))
        /\ \A g \in visited : Callees(read, g) \subseteq visited \cup todo
        /\ found <=> \E g \in visited : CallsSQL(read, g)
        /\ decl \notin Reaching(read) => (visited \cup todo) \cap Reaching(read) = {}
        /\ code = read /\ dbCallFuncMap \cap left = {}
    BY <1>3, <1>4 DEF SearchInv
  <2>2. visited' \cup todo' = visited \cup todo \cup Callees(read, f)
    BY <1>1
  <2>3. f \notin Reaching(read) => Callees(read, f) \cap Reaching(read) = {}
    BY ReachingClosed DEF Closed
  <2>4. decl \notin Reaching(read) => (visited' \cup todo') \cap Reaching(read) = {}
    BY <1>1, <2>1, <2>2, <2>3
  <2>5. \A g \in visited' : Callees(read, g) \subseteq visited' \cup todo'
    BY <1>1, <2>1, <2>2
  <2>6. found' <=> \E g \in visited' : CallsSQL(read, g)
    BY <1>1, <2>1
  <2>7. Reaching(read)' = Reaching(read) /\ \A g : Callees(read, g)' = Callees(read, g) /\ CallsSQL(read, g)' = CallsSQL(read, g)
    BY <1>1 DEF Reaching, Closed, Callees, CallsSQL
  <2> QED
    BY <1>1, <1>4, <2>1, <2>2, <2>4, <2>5, <2>6, <2>7 DEF SearchInv
<1> QED
  BY <1>1, <1>2, <1>3, <1>5, <1>6 DEF ToolInv, Compiles, CallsSQL

\* When there is nothing left to go through, what has been gone through is closed under
\* calls: if none of it makes a database call, the rest is a closed set without decl.
LEMMA SearchedKeeps ==
  ASSUME ToolInv, Searched
  PROVE  ToolInv'
<1>1. /\ visited # {} /\ todo = {} /\ visited' = {} /\ todo' = {}
      /\ dbCallFuncMap' = (IF found THEN dbCallFuncMap \cup {decl} ELSE dbCallFuncMap)
      /\ UNCHANGED <<times, read, code, phase, left, decl, found>>
  BY DEF Searched
<1>2. phase = "search" /\ Busy /\ ~Busy'
  BY <1>1 DEF ToolInv, ConvertInv, Busy, TypeOK
<1>3. SearchInv /\ TypeOK /\ Compiles(read) /\ (times = 2 => \A g \in Funcs : ~CallsSQL(read, g))
  BY <1>2 DEF ToolInv
<1>4. TypeOK'
  BY <1>1, <1>3 DEF TypeOK
<1>5. /\ decl \notin left /\ decl \in visited /\ decl \notin dbCallFuncMap /\ decl \in Funcs
      /\ \A g \in Funcs \ left : g # decl => (g \in dbCallFuncMap <=> g \in Reaching(read))
      /\ \A g \in visited : Callees(read, g) \subseteq visited
      /\ found <=> \E g \in visited : CallsSQL(read, g)
      /\ decl \notin Reaching(read) => visited \cap Reaching(read) = {}
      /\ code = read /\ dbCallFuncMap \cap left = {} /\ visited \subseteq Funcs
  BY <1>1, <1>2, <1>3 DEF SearchInv, TypeOK
<1>6. found <=> decl \in Reaching(read)
  <2>1. ASSUME found PROVE decl \in Reaching(read)
    BY <1>5, <2>1, ReachingClosed DEF Closed
  <2>2. ASSUME ~found PROVE decl \notin Reaching(read)
    <3>1. Closed(read, Funcs \ visited)
      BY <1>5, <2>2, CalleesAre DEF Closed
    <3> QED
      BY <1>5, <3>1 DEF Reaching
  <2> QED
    BY <2>1, <2>2
<1>7. Reaching(read)' = Reaching(read)
  BY <1>1 DEF Reaching, Closed, Callees, CallsSQL
<1>8. SearchInv'
  BY <1>1, <1>2, <1>5, <1>6, <1>7 DEF SearchInv
<1> QED
  BY <1>1, <1>2, <1>3, <1>4, <1>8 DEF ToolInv, Compiles, CallsSQL

LEMMA AllSearchedKeeps ==
  ASSUME ToolInv, AllSearched
  PROVE  ToolInv'
<1>1. /\ phase = "search" /\ left = {} /\ ~Busy /\ phase' = "convert" /\ left' = Funcs
      /\ UNCHANGED <<times, read, code, dbCallFuncMap, visited, todo, decl, found>>
  BY DEF AllSearched, Busy, searchVars
<1>2. SearchInv /\ TypeOK /\ Compiles(read) /\ (times = 2 => \A g \in Funcs : ~CallsSQL(read, g))
  BY <1>1 DEF ToolInv
<1>3. TypeOK'
  BY <1>1, <1>2 DEF TypeOK
<1>4. dbCallFuncMap = Reaching(read)
  BY <1>1, <1>2, ReachingClosed DEF SearchInv, TypeOK
<1>5. Reaching(read)' = Reaching(read)
  BY <1>1 DEF Reaching, Closed, Callees, CallsSQL
<1>6. ConvertInv'
  BY <1>1, <1>2, <1>4, <1>5 DEF ConvertInv, SearchInv, Busy
<1> QED
  BY <1>1, <1>2, <1>3, <1>6 DEF ToolInv, Compiles, CallsSQL

LEMMA ConvertKeeps ==
  ASSUME ToolInv, NEW f \in Funcs, Convert(f)
  PROVE  ToolInv'
<1>1. /\ phase = "convert" /\ f \in left /\ left' = left \ {f}
      /\ UNCHANGED <<times, read, phase, dbCallFuncMap, visited, todo, decl, found>>
  BY DEF Convert, searchVars
<1>2. ConvertInv /\ TypeOK /\ Compiles(read) /\ (times = 2 => \A g \in Funcs : ~CallsSQL(read, g))
  BY <1>1 DEF ToolInv
<1>3. code[f] = read[f]
  BY <1>1, <1>2 DEF ConvertInv
<1>4. read[f].calls \subseteq Calls
  BY <1>2 DEF TypeOK, Types
<1>5. code' = [code EXCEPT ![f] = Result(f)]
  <2>1. \A c \in read[f].calls :
          Passed(f, c) = IF ~Converts(c) THEN c
                         ELSE [to  |-> IF IsSQL(c) THEN ctxFuncMap[c.to] ELSE c.to, own |-> c.own,
                               arg |-> IF c.arg # "none" THEN "two"
                                       ELSE IF f = Main /\ read[f].ctx = "none" /\ ~c.own THEN "opaque" ELSE "known"]
    <3> SUFFICES ASSUME NEW c \in read[f].calls, Converts(c)
                 PROVE  Passed(f, c) =
                          [to  |-> IF IsSQL(c) THEN ctxFuncMap[c.to] ELSE c.to, own |-> c.own,
                           arg |-> IF c.arg # "none" THEN "two"
                                   ELSE IF f = Main /\ read[f].ctx = "none" /\ ~c.own THEN "opaque" ELSE "known"]
      BY DEF Passed
    <3>1. PICK to, own, arg : c = [to |-> to, own |-> own, arg |-> arg]
      BY <1>4 DEF Calls
    <3>2. Background(f, c) <=> (f = Main /\ read[f].ctx = "none" /\ ~c.own)
      BY <1>3 DEF Background
    <3> QED
      BY <3>1, <3>2 DEF Passed
  <2>2. {Passed(f, c) : c \in code[f].calls} = Result(f).calls
    BY <1>3, <2>1 DEF Result
  <2>3. Result(f) = [ctx |-> IF AddsParameter(f) THEN "context.Context" ELSE code[f].ctx,
                     calls |-> {Passed(f, c) : c \in code[f].calls}]
    BY <1>3, <2>2 DEF Result, AddsParameter, ShouldAddCtxToArg
  <2> QED
    BY <2>3 DEF Convert
<1>6. TypeOK'
  <2>1. Result(f) \in [ctx : Kinds, calls : SUBSET Calls]
    BY <1>2, ResultType DEF TypeOK
  <2>2. code' \in Types
    BY <1>2, <1>5, <2>1 DEF TypeOK, Types
  <2> QED
    BY <1>1, <1>2, <2>2 DEF TypeOK
<1>7. ConvertInv'
  <2>1. \A c : Converts(c)' = Converts(c)
    BY <1>1 DEF Converts
  <2>2. \A g : Result(g)' = Result(g)
    BY ZenonT(120), <1>1, <2>1 DEF Result
  <2>3. Reaching(read)' = Reaching(read)
    BY <1>1 DEF Reaching, Closed, Callees, CallsSQL
  <2>4. \A g \in Funcs : code'[g] = IF g \in left' THEN read[g] ELSE Result(g)
    BY <1>1, <1>2, <1>5 DEF ConvertInv, TypeOK, Types
  <2> QED
    BY <1>1, <1>2, <2>2, <2>3, <2>4 DEF ConvertInv, Busy
<1> QED
  BY <1>1, <1>2, <1>6, <1>7 DEF ToolInv, Compiles, CallsSQL

LEMMA WriteKeeps ==
  ASSUME ToolInv, Write
  PROVE  ToolInv'
<1>1. /\ phase = "convert" /\ left = {} /\ phase' = "written"
      /\ UNCHANGED <<times, read, code, left, dbCallFuncMap, visited, todo, decl, found>>
  BY DEF Write, searchVars
<1>2. ConvertInv /\ TypeOK /\ Compiles(read) /\ (times = 2 => \A g \in Funcs : ~CallsSQL(read, g))
  BY <1>1 DEF ToolInv
<1>3. TypeOK'
  BY <1>1, <1>2 DEF TypeOK
<1>4. ConvertInv'
  <2>1. \A c : Converts(c)' = Converts(c)
    BY <1>1 DEF Converts
  <2>2. \A f : Result(f)' = Result(f)
    BY ZenonT(120), <1>1, <2>1 DEF Result
  <2>3. Reaching(read)' = Reaching(read)
    BY <1>1 DEF Reaching, Closed, Callees, CallsSQL
  <2> QED
    BY <1>1, <1>2, <2>2, <2>3 DEF ConvertInv, Busy
<1> QED
  BY <1>1, <1>2, <1>3, <1>4 DEF ToolInv, Compiles, CallsSQL

LEMMA AgainKeeps ==
  ASSUME ToolInv, Again
  PROVE  ToolInv'
<1>1. /\ phase = "written" /\ times = 1 /\ Compiles(code) /\ times' = 2 /\ read' = code
      /\ phase' = "search" /\ left' = Funcs /\ dbCallFuncMap' = {}
      /\ UNCHANGED <<code, visited, todo, decl, found>>
  BY DEF Again, searchVars
<1>2. ConvertInv /\ TypeOK /\ left = {}
  BY <1>1 DEF ToolInv
<1>3. TypeOK'
  BY <1>1, <1>2 DEF TypeOK
<1>4. \A f \in Funcs : ~CallsSQL(code, f)
  BY <1>2, ResultConverted DEF ConvertInv, TypeOK, CallsSQL
<1>5. SearchInv'
  BY <1>1, <1>2 DEF SearchInv, ConvertInv, Busy
<1>6. Compiles(read)' /\ \A f \in Funcs : ~CallsSQL(read, f)'
  BY <1>1, <1>4 DEF Compiles, CallsSQL
<1> QED
  BY <1>1, <1>3, <1>5, <1>6 DEF ToolInv

\* setctx.go:125: the inductive invariant of the tool.
THEOREM ToolCorrect == SetCtxSpec => []ToolInv
<1>1. SetCtxInit => ToolInv
  BY InitInv
<1>2. ToolInv /\ [SetCtxNext]_setCtxVars => ToolInv'
  <2> SUFFICES ASSUME ToolInv, [SetCtxNext]_setCtxVars PROVE ToolInv'
    OBVIOUS
  <2>1. ASSUME NEW f \in Funcs, Search(f) \/ Enter(f) \/ Convert(f) PROVE ToolInv'
    BY <2>1, SearchKeeps, EnterKeeps, ConvertKeeps
  <2>2. CASE Searched \/ AllSearched \/ Write \/ Again
    BY <2>2, SearchedKeeps, AllSearchedKeeps, WriteKeeps, AgainKeeps
  <2>3. CASE UNCHANGED setCtxVars
    BY <2>3 DEF setCtxVars, searchVars, ToolInv, TypeOK, Compiles, Takes, CallsSQL, SearchInv, ConvertInv, Busy, Result, Converts,
       Reaching, Closed, Callees
  <2> QED
    BY <2>1, <2>2, <2>3 DEF SetCtxNext
<1> QED
  BY <1>1, <1>2, PTL DEF SetCtxSpec

----------------------------------------------------------------------------
(* What the result is                                                      *)

\* Functions that do not reach the database are left as they are, and what is written
\* has no database call without a context (setctx.go:139-297).
THEOREM OnlyWhereNeededHolds == SetCtxSpec => []OnlyWhereNeeded
<1>1. ToolInv => OnlyWhereNeeded
  <2> SUFFICES ASSUME ToolInv, phase = "written" PROVE
        \A f \in Funcs : (f \notin Reaching(read) => code[f] = read[f]) /\ \A c \in code[f].calls : ~IsSQL(c)
    BY DEF OnlyWhereNeeded
  <2>1. read \in Types /\ dbCallFuncMap = Reaching(read) /\ \A f \in Funcs : code[f] = Result(f)
    BY DEF ToolInv, ConvertInv, TypeOK
  <2> QED
    BY <2>1, ResultElse, ResultConverted
<1> QED
  BY <1>1, ToolCorrect, PTL

\* The second run changes nothing: what the first has written makes no call that the
\* tool looks for, so nobody reaches one (setctx.go:109).
THEOREM OnceIsEnoughHolds == SetCtxSpec => []OnceIsEnough
<1>1. ToolInv => OnceIsEnough
  <2> SUFFICES ASSUME ToolInv, times = 2, phase # "search" PROVE code = read
    BY DEF ToolInv, SearchInv, OnceIsEnough
  <2>1. Reaching(read) = {}
    BY NoneReach DEF ToolInv
  <2>2. read \in Types /\ code \in Types /\ ConvertInv
    BY DEF ToolInv, TypeOK
  <2>3. \A f \in Funcs : Result(f) = read[f]
    BY <2>1, <2>2, ResultElse DEF ConvertInv
  <2>4. \A f \in Funcs : code[f] = read[f]
    BY <2>2, <2>3 DEF ConvertInv
  <2> QED
    BY <2>2, <2>4 DEF Types
<1> QED
  BY <1>1, ToolCorrect, PTL

\* In a plain package a function gets a parameter exactly if it reaches the database
\* and has no context.
LEMMA WhoTakesContext ==
  ASSUME read \in Types, Compiles(read), Plain(read), dbCallFuncMap = Reaching(read), NEW g \in Funcs
  PROVE  /\ g \notin Reaching(read) => Result(g).ctx = read[g].ctx
         /\ g \in Reaching(read) /\ g # Main => Result(g).ctx # "none"
<1>1. g \notin Reaching(read) => Result(g).ctx = read[g].ctx
  BY ResultElse
<1>2. ASSUME g \in Reaching(read), g # Main, read[g].ctx = "none" PROVE \E c \in read[g].calls : Converts(c)
  <2>1. CASE CallsSQL(read, g)
    BY <2>1 DEF CallsSQL, Converts
  <2>2. CASE Callees(read, g) \cap Reaching(read) # {}
    <3>1. PICK c \in read[g].calls : c.to \in Reaching(read)
      BY <2>2 DEF Callees
    <3>2. c.arg = "none"
      BY <1>2, <3>1 DEF Plain
    <3> QED
      BY <3>1, <3>2 DEF Converts, HasCtxArg
  <2> QED
    BY <1>2, <2>1, <2>2, ReachingBecause
<1>3. g \in Reaching(read) /\ g # Main => Result(g).ctx # "none"
  BY <1>2 DEF Result
<1> QED
  BY <1>1, <1>3

\* Each call passes as many contexts as its callee takes in the end, in a package whose
\* contexts are in sight (setctx.go:214-297).
THEOREM CallsAgreeHolds == SetCtxSpec => []CallsAgree
<1>1. ToolInv => CallsAgree
  <2> SUFFICES ASSUME ToolInv, phase = "written", Plain(read), NEW f \in Funcs, NEW c \in code[f].calls
               PROVE  Passes(c) = Takes(code, c.to)
    BY DEF CallsAgree, Compiles
  <2>1. /\ read \in Types /\ Compiles(read) /\ dbCallFuncMap = Reaching(read)
        /\ \A g \in Funcs : code[g] = Result(g)
    BY DEF ToolInv, ConvertInv, TypeOK
  <2>0. c \in Result(f).calls
    BY <2>1
  <2>2. PICK d \in read[f].calls :
          c = IF ~Converts(d) THEN d
              ELSE [to  |-> IF IsSQL(d) THEN ctxFuncMap[d.to] ELSE d.to, own |-> d.own,
                    arg |-> IF d.arg # "none" THEN "two"
                            ELSE IF f = Main /\ read[f].ctx = "none" /\ ~d.own THEN "opaque" ELSE "known"]
    BY <2>0 DEF Result
  <2>3. d \in Calls /\ Passes(d) = Takes(read, d.to) /\ d.arg # "opaque" /\ d.to # Main
    BY <2>1 DEF Types, Compiles, Plain
  <2>4. CASE IsSQL(d)
    <3>1. d.to \in {"Query", "Begin"}
      BY <2>4 DEF IsSQL, ctxFuncMap
    <3>2. Takes(read, d.to) = 0
      BY <3>1, FuncsAssumption DEF Takes, ContextVersions
    <3>3. d.arg = "none"
      BY <2>3, <3>2 DEF Passes, Calls
    <3>4. Passes(c) = 1
      BY <2>2, <2>4, <3>3 DEF Converts, Passes
    <3>5. c.to \in ContextVersions
      BY <2>2, <2>4, <3>1 DEF Converts, ctxFuncMap, ContextVersions
    <3> QED
      BY <3>4, <3>5 DEF Takes
  <2>5. CASE ~IsSQL(d) /\ Converts(d)
    <3>1. d.to \in Reaching(read) /\ d.to \in Funcs /\ ~HasCtxArg(d)
      BY <2>1, <2>5, ReachingClosed DEF Converts
    <3>2. d.arg = "none"
      BY <2>3, <3>1 DEF HasCtxArg, Calls
    <3>3. Passes(c) = 1 /\ c.to = d.to
      BY <2>2, <2>5, <3>2 DEF Passes
    <3>4. code[c.to].ctx # "none"
      BY <2>1, <2>3, <3>1, <3>3, WhoTakesContext
    <3> QED
      BY <3>1, <3>3, <3>4 DEF Takes
  <2>6. CASE ~Converts(d)
    <3>1. c = d
      BY <2>2, <2>6
    <3>2. ASSUME d.to \in Funcs PROVE code[d.to].ctx = "none" <=> read[d.to].ctx = "none"
      <4>1. CASE d.to \notin Reaching(read)
        BY <2>1, <3>2, <4>1, WhoTakesContext
      <4>2. CASE d.to \in Reaching(read)
        <5>1. d.arg # "none"
          BY <2>1, <2>6, <4>2 DEF Converts, HasCtxArg
        <5>2. read[d.to].ctx # "none"
          BY <2>3, <3>2, <5>1, FuncsAssumption DEF Passes, Takes, Calls
        <5>3. code[d.to].ctx # "none"
          BY <2>1, <2>3, <3>2, <4>2, WhoTakesContext
        <5> QED
          BY <5>2, <5>3
      <4> QED
        BY <4>1, <4>2
    <3>3. Takes(code, d.to) = Takes(read, d.to)
      BY <3>2 DEF Takes
    <3> QED
      BY <2>3, <3>1, <3>3
  <2> QED
    BY <2>4, <2>5, <2>6
<1> QED
  BY <1>1, ToolCorrect, PTL

----------------------------------------------------------------------------
(* Varint: numbers, by the least one of which something does not hold.     *)

\* A set of natural numbers has a least one.
LEMMA LeastOfNaturals ==
  ASSUME NEW S, S \subseteq Nat, S # {}
  PROVE  \E i \in S : \A j \in S : i <= j
<1>1. PICK i \in S : \A j \in S : <<j, i>> \notin OpToRel(<, Nat)
  BY NatLessThanWellFounded, WFMin
<1>2. \A j \in S : ~(j < i)
  BY <1>1 DEF OpToRel
<1> QED
  BY <1>2

\* A set with every natural number whose smaller ones it has is all of them.
LEMMA AllOfThem ==
  ASSUME NEW S, \A n \in Nat : (\A m \in Nat : m < n => m \in S) => n \in S
  PROVE  Nat \subseteq S
<1> DEFINE Rest == {n \in Nat : n \notin S}
<1> SUFFICES ASSUME Rest # {} PROVE FALSE
  OBVIOUS
<1>1. PICK n \in Rest : \A m \in Rest : n <= m
  <2>1. Rest \subseteq Nat
    OBVIOUS
  <2> HIDE DEF Rest
  <2> QED BY <2>1, LeastOfNaturals
<1>2. \A m \in Nat : m < n => m \in S
  BY <1>1
<1> QED
  BY <1>1, <1>2

----------------------------------------------------------------------------
(* The powers of 2                                                         *)

\* There are powers up to every exponent.
LEMMA PowersExist ==
  ASSUME NEW n \in Nat
  PROVE  \E p : p = [i \in 0 .. n |-> IF i = 0 THEN 1 ELSE 2 * p[i - 1]]
<1> DEFINE UpTo(m, p) == p = [i \in 0 .. m |-> IF i = 0 THEN 1 ELSE 2 * p[i - 1]]
           S == {m \in Nat : \E p : UpTo(m, p)}
<1>1. \A m \in Nat : (\A j \in Nat : j < m => j \in S) => m \in S
  <2> SUFFICES ASSUME NEW m \in Nat, \A j \in Nat : j < m => j \in S PROVE \E p : UpTo(m, p)
    OBVIOUS
  <2>1. CASE m = 0
    <3> DEFINE q == [i \in 0 .. 0 |-> 1]
    <3>1. \A i \in 0 .. 0 : i = 0
      OBVIOUS
    <3>2. q = [i \in 0 .. 0 |-> IF i = 0 THEN 1 ELSE 2 * q[i - 1]]
      <4>1. \A i \in 0 .. 0 : (IF i = 0 THEN 1 ELSE 2 * q[i - 1]) = 1
        BY <3>1
      <4> QED BY <4>1
    <3> HIDE DEF q
    <3>3. UpTo(0, q)
      BY <3>2
    <3> QED BY <2>1, <3>3
  <2>2. CASE m # 0
    <3>1. m - 1 \in S
      <4>1. m - 1 \in Nat /\ m - 1 < m
        BY <2>2
      <4> HIDE DEF S
      <4> QED BY <4>1
    <3>2. PICK p : UpTo(m - 1, p)
      BY <3>1
    <3> DEFINE q == [i \in 0 .. m |-> IF i = m THEN 2 * p[m - 1] ELSE p[i]]
    <3>3. UpTo(m, q)
      BY <2>2, <3>2
    <3> QED BY <3>3
  <2> QED BY <2>1, <2>2
<1>2. Nat \subseteq S
  <2> HIDE DEF S
  <2> QED BY <1>1, AllOfThem
<1> QED
  BY <1>2

LEMMA PowerIsLast ==
  ASSUME NEW n \in Nat
  PROVE  \E p : Power(n) = p[n] /\ \A i \in 0 .. n : p[i] = IF i = 0 THEN 1 ELSE 2 * p[i - 1]
<1> DEFINE power == CHOOSE p : p = [i \in 0 .. n |-> IF i = 0 THEN 1 ELSE 2 * p[i - 1]]
<1>1. power = [i \in 0 .. n |-> IF i = 0 THEN 1 ELSE 2 * power[i - 1]]
  BY PowersExist
<1>2. Power(n) = power[n]
  BY DEF Power
<1> HIDE DEF power
<1> QED
  BY <1>1, <1>2

\* Partial powers of one exponent are those of every other.
LEMMA PowerRecursion ==
  /\ Power(0) = 1
  /\ \A n \in Nat : Power(n) \in Nat /\ Power(n + 1) = 2 * Power(n)
<1>1. Power(0) = 1
  BY PowerIsLast
<1>2. ASSUME NEW n \in Nat PROVE Power(n) \in Nat /\ Power(n + 1) = 2 * Power(n)
  <2>1. PICK p : Power(n) = p[n] /\ \A i \in 0 .. n : p[i] = IF i = 0 THEN 1 ELSE 2 * p[i - 1]
    BY PowerIsLast
  <2>2. PICK q : Power(n + 1) = q[n + 1] /\ \A i \in 0 .. n + 1 : q[i] = IF i = 0 THEN 1 ELSE 2 * q[i - 1]
    BY PowerIsLast
  <2> DEFINE S == {m \in Nat : m <= n => p[m] \in Nat /\ q[m] = p[m]}
  <2>3. Nat \subseteq S
    <3>1. \A m \in Nat : (\A j \in Nat : j < m => j \in S) => m \in S
      <4> SUFFICES ASSUME NEW m \in Nat, \A j \in Nat : j < m => j \in S, m <= n
                   PROVE  p[m] \in Nat /\ q[m] = p[m]
        OBVIOUS
      <4>1. CASE m = 0
        BY <2>1, <2>2, <4>1
      <4>2. CASE m # 0
        <5>1. m - 1 \in Nat /\ m - 1 < m /\ m - 1 <= n
          BY <4>2
        <5>2. m - 1 \in S
          BY <5>1
        <5>3. p[m - 1] \in Nat /\ q[m - 1] = p[m - 1]
          BY <5>1, <5>2
        <5>4. p[m] = 2 * p[m - 1] /\ q[m] = 2 * q[m - 1]
          BY <2>1, <2>2, <4>2
        <5> HIDE DEF S
        <5> QED BY <5>3, <5>4
      <4> QED BY <4>1, <4>2
    <3> HIDE DEF S
    <3> QED BY <3>1, AllOfThem
  <2>4. p[n] \in Nat /\ q[n] = p[n]
    BY <2>3
  <2>5. q[n + 1] = 2 * q[n]
    BY <2>2
  <2> QED
    BY <2>1, <2>2, <2>4, <2>5
<1> QED
  BY <1>1, <1>2

LEMMA PowerSum ==
  ASSUME NEW m \in Nat, NEW n \in Nat
  PROVE  Power(m + n) = Power(m) * Power(n) /\ Power(m) >= 1 /\ (m # 0 => Power(m) >= 2)
<1> DEFINE S == {k \in Nat : Power(m + k) = Power(m) * Power(k)}
           T == {k \in Nat : Power(k) >= 1 /\ (k # 0 => Power(k) >= 2)}
<1>1. \A k \in Nat : (\A j \in Nat : j < k => j \in S) => k \in S
  <2> SUFFICES ASSUME NEW k \in Nat, \A j \in Nat : j < k => j \in S
               PROVE  Power(m + k) = Power(m) * Power(k)
    OBVIOUS
  <2>1. CASE k = 0
    BY <2>1, PowerRecursion
  <2>2. CASE k # 0
    <3>1. k - 1 \in Nat /\ k - 1 \in S
      BY <2>2
    <3>2. Power(m + (k - 1)) = Power(m) * Power(k - 1)
      BY <3>1
    <3>3. Power(k) = 2 * Power(k - 1) /\ Power(m + k) = 2 * Power(m + (k - 1))
      <4>1. (k - 1) + 1 = k /\ (m + (k - 1)) + 1 = m + k /\ m + (k - 1) \in Nat
        BY <3>1
      <4> QED BY <3>1, <4>1, PowerRecursion
    <3>4. Power(m) \in Nat /\ Power(k - 1) \in Nat
      BY <3>1, PowerRecursion
    <3>5. \A a, b \in Nat : 2 * (a * b) = a * (2 * b)
      OBVIOUS
    <3> QED BY <3>2, <3>3, <3>4, <3>5
  <2> QED BY <2>1, <2>2
<1>2. \A k \in Nat : (\A j \in Nat : j < k => j \in T) => k \in T
  <2> SUFFICES ASSUME NEW k \in Nat, \A j \in Nat : j < k => j \in T
               PROVE  Power(k) >= 1 /\ (k # 0 => Power(k) >= 2)
    OBVIOUS
  <2>1. CASE k = 0
    BY <2>1, PowerRecursion
  <2>2. CASE k # 0
    <3>1. k - 1 \in Nat /\ k - 1 \in T
      BY <2>2
    <3>2. Power(k - 1) >= 1 /\ Power(k - 1) \in Nat /\ Power(k) = 2 * Power(k - 1)
      <4>1. (k - 1) + 1 = k
        OBVIOUS
      <4> QED BY <3>1, <4>1, PowerRecursion
    <3> HIDE DEF T
    <3> QED BY <3>2
  <2> QED BY <2>1, <2>2
<1>3. Nat \subseteq S /\ Nat \subseteq T
  <2> HIDE DEF S, T
  <2> QED BY <1>1, <1>2, AllOfThem
<1> QED
  BY <1>3

LEMMA PowerGrows ==
  ASSUME NEW m \in Nat, NEW n \in Nat, m <= n
  PROVE  Power(m) <= Power(n)
<1>1. n - m \in Nat /\ m + (n - m) = n
  OBVIOUS
<1>2. Power(n) = Power(m) * Power(n - m) /\ Power(n - m) >= 1
  BY <1>1, PowerSum
<1>3. Power(m) \in Nat /\ Power(n - m) \in Nat
  BY <1>1, PowerRecursion
<1>4. \A a, b \in Nat : b >= 1 => a <= a * b
  OBVIOUS
<1> QED
  BY <1>2, <1>3, <1>4

LEMMA GroupType == Group \in Nat /\ Group >= 2
BY GAssumption, PowerRecursion, PowerSum DEF Group

\* A number is what remains of it and that many groups.
LEMMA Division ==
  ASSUME NEW x \in Nat, NEW d \in Nat, d >= 1
  PROVE  /\ x \div d \in Nat /\ x % d \in 0 .. d - 1
         /\ x = (x % d) + d * (x \div d)
         /\ \A k \in Nat : x < d * k => x \div d < k
         /\ d >= 2 /\ x >= d => x \div d < x /\ x \div d >= 1
<1>1. x \div d \in Nat /\ x % d \in 0 .. d - 1
  OBVIOUS
<1>2. x = (x % d) + d * (x \div d)
  OBVIOUS
<1>3. \A q, r, e \in Nat : e >= 1 /\ r < e => \A k \in Nat : r + e * q < e * k => q < k
  OBVIOUS
<1>4. \A q, r, e \in Nat : e >= 2 /\ r < e /\ r + e * q >= e => q < r + e * q /\ q >= 1
  OBVIOUS
<1> QED
  BY <1>1, <1>2, <1>3, <1>4

----------------------------------------------------------------------------
\* The number without its lowest group, that group, and the byte that holds it before
\* the bytes of what is left.
Rest(x)        == x \div Group
Low(x)         == x % Group
More(x, bytes) == <<Group + Low(x)>> \o bytes

LEMMA RestSmaller ==
  ASSUME NEW x \in Nat
  PROVE  Rest(x) \in Nat /\ Low(x) \in Nat /\ Low(x) < Group /\ (~(x < Group) => Rest(x) < x /\ Rest(x) >= 1)
BY GroupType, Division DEF Rest, Low

LEMMA RestAndLow ==
  ASSUME NEW x \in Nat
  PROVE  x = Low(x) + Group * Rest(x)
BY GroupType, Division DEF Rest, Low

LEMMA RestBelow ==
  ASSUME NEW x \in Nat, NEW k \in Nat, x < Group * k
  PROVE  Rest(x) < k
BY GroupType, Division DEF Rest, Low

\* What PutUvarint takes the last of.
Puts(x, put) == put = [y \in 0 .. x |-> IF y < Group THEN <<y>> ELSE More(y, put[Rest(y)])]

LEMMA PutsExist ==
  ASSUME NEW x \in Nat
  PROVE  \E put : Puts(x, put)
<1> DEFINE S == {m \in Nat : \E put : Puts(m, put)}
<1>1. \A m \in Nat : (\A j \in Nat : j < m => j \in S) => m \in S
  <2> SUFFICES ASSUME NEW m \in Nat, \A j \in Nat : j < m => j \in S PROVE \E put : Puts(m, put)
    OBVIOUS
  <2>1. CASE m = 0
    <3> DEFINE q == [y \in 0 .. 0 |-> <<y>>]
    <3>1. Puts(0, q)
      BY GroupType DEF Puts
    <3> QED BY <2>1, <3>1
  <2>2. CASE m # 0
    <3>1. m - 1 \in S
      <4>1. m - 1 \in Nat /\ m - 1 < m
        BY <2>2
      <4> HIDE DEF S
      <4> QED BY <4>1
    <3>2. PICK p : Puts(m - 1, p)
      BY <3>1
    <3> DEFINE Of(y, put) == IF y < Group THEN <<y>> ELSE More(y, put[Rest(y)])
               q == [y \in 0 .. m |-> IF y = m THEN Of(m, p) ELSE p[y]]
    <3>3. \A y \in 0 .. m : ~(y < Group) => Rest(y) \in 0 .. m /\ Rest(y) # m
      <4> SUFFICES ASSUME NEW y \in 0 .. m, ~(y < Group) PROVE Rest(y) \in 0 .. m /\ Rest(y) # m
        OBVIOUS
      <4>1. Rest(y) < y /\ Rest(y) \in Nat
        BY RestSmaller
      <4> QED BY <4>1
    <3>4. \A y \in 0 .. m : Of(y, q) = Of(y, p)
      <4>1. \A z \in 0 .. m : z # m => q[z] = p[z]
        <5> HIDE DEF Of
        <5> QED OBVIOUS
      <4> HIDE DEF q
      <4> QED BY <3>3, <4>1
    <3>5. \A y \in 0 .. m - 1 : p[y] = Of(y, p)
      BY <3>2 DEF Puts
    <3>6. q = [y \in 0 .. m |-> Of(y, q)]
      <4>1. q = [y \in 0 .. m |-> Of(y, p)]
        <5> HIDE DEF Of
        <5> QED BY <2>2, <3>5
      <4> HIDE DEF Of, q
      <4> QED BY <3>4, <4>1
    <3> QED BY <3>6 DEF Puts
  <2> QED BY <2>1, <2>2
<1>2. Nat \subseteq S
  <2> HIDE DEF S
  <2> QED BY <1>1, AllOfThem
<1> QED
  BY <1>2

LEMMA PutIsLast ==
  ASSUME NEW x \in Nat
  PROVE  \E put : PutUvarint(x) = put[x] /\
           \A y \in 0 .. x : put[y] = IF y < Group THEN <<y>> ELSE More(y, put[Rest(y)])
<1> DEFINE put == CHOOSE p : Puts(x, p)
<1>1. Puts(x, put)
  BY PutsExist
<1>2. PutUvarint(x) = put[x]
  BY DEF PutUvarint, Puts, More, Rest, Low
<1> HIDE DEF put
<1> QED
  BY <1>1, <1>2 DEF Puts

\* What is written of a number that needs more than one byte is its lowest group and
\* what is written of the rest.
LEMMA PutRecursion ==
  ASSUME NEW x \in Nat
  PROVE  PutUvarint(x) = IF x < Group THEN <<x>> ELSE More(x, PutUvarint(Rest(x)))
<1>1. PICK p : PutUvarint(x) = p[x] /\
           \A y \in 0 .. x : p[y] = IF y < Group THEN <<y>> ELSE More(y, p[Rest(y)])
  BY PutIsLast
<1>2. x \in 0 .. x
  OBVIOUS
<1>3. p[x] = IF x < Group THEN <<x>> ELSE More(x, p[Rest(x)])
  BY <1>1, <1>2
<1>4. CASE x < Group
  BY <1>1, <1>4, <1>3
<1>5. CASE ~(x < Group)
  <2>1. Rest(x) \in Nat /\ Rest(x) < x
    BY <1>5, RestSmaller
  <2>2. PICK q : PutUvarint(Rest(x)) = q[Rest(x)] /\
           \A y \in 0 .. Rest(x) : q[y] = IF y < Group THEN <<y>> ELSE More(y, q[Rest(y)])
    BY <2>1, PutIsLast
  <2> DEFINE S == {y \in Nat : y <= Rest(x) => q[y] = p[y]}
  <2>3. \A y \in Nat : (\A j \in Nat : j < y => j \in S) => y \in S
    <3> SUFFICES ASSUME NEW y \in Nat, \A j \in Nat : j < y => j \in S, y <= Rest(x) PROVE q[y] = p[y]
      OBVIOUS
    <3>1. /\ q[y] = IF y < Group THEN <<y>> ELSE More(y, q[Rest(y)])
          /\ p[y] = IF y < Group THEN <<y>> ELSE More(y, p[Rest(y)])
      BY <1>1, <2>1, <2>2
    <3>2. CASE y < Group
      BY <3>1, <3>2
    <3>3. CASE ~(y < Group)
      <4>1. Rest(y) \in Nat /\ Rest(y) < y
        BY <3>3, RestSmaller
      <4>2. Rest(y) \in S /\ Rest(y) <= Rest(x)
        BY <2>1, <4>1
      <4>3. q[Rest(y)] = p[Rest(y)]
        BY <4>2
      <4> QED BY <3>1, <3>3, <4>3
    <3> QED BY <3>2, <3>3
  <2>4. Rest(x) \in S
    <3> HIDE DEF S
    <3> QED BY <2>1, <2>3, AllOfThem
  <2>5. PutUvarint(Rest(x)) = p[Rest(x)]
    BY <2>1, <2>2, <2>4
  <2>6. p[x] = More(x, p[Rest(x)])
    BY <1>3, <1>5
  <2> QED
    BY <1>1, <1>5, <2>5, <2>6
<1> QED
  BY <1>4, <1>5

\* A byte holds a group and a bit more.
Bytes == 0 .. 2 * Group - 1

LEMMA PutBytes ==
  ASSUME NEW x \in Nat
  PROVE  PutUvarint(x) \in Seq(Bytes) /\ Len(PutUvarint(x)) >= 1
<1> DEFINE S == {y \in Nat : PutUvarint(y) \in Seq(Bytes) /\ Len(PutUvarint(y)) >= 1}
<1>1. \A y \in Nat : (\A j \in Nat : j < y => j \in S) => y \in S
  <2> SUFFICES ASSUME NEW y \in Nat, \A j \in Nat : j < y => j \in S
               PROVE  PutUvarint(y) \in Seq(Bytes) /\ Len(PutUvarint(y)) >= 1
    OBVIOUS
  <2>1. CASE y < Group
    <3>1. y \in Bytes
      BY <2>1, GroupType DEF Bytes
    <3>2. PutUvarint(y) = <<y>>
      BY <2>1, PutRecursion
    <3> QED BY <3>1, <3>2
  <2>2. CASE ~(y < Group)
    <3> DEFINE b == Group + Low(y)
    <3>1. Rest(y) \in Nat /\ Rest(y) < y /\ b \in Bytes
      <4>1. Rest(y) \in Nat /\ Rest(y) < y /\ Low(y) \in Nat /\ Low(y) < Group
        BY <2>2, RestSmaller
      <4>2. \A g, l \in Nat : l < g => g + l \in 0 .. 2 * g - 1
        OBVIOUS
      <4> QED BY <4>1, <4>2, GroupType DEF Bytes
    <3>2. PutUvarint(Rest(y)) \in Seq(Bytes) /\ Len(PutUvarint(Rest(y))) >= 1
      BY <3>1
    <3>3. PutUvarint(y) = <<b>> \o PutUvarint(Rest(y))
      BY <2>2, PutRecursion DEF More
    <3> HIDE DEF b
    <3> QED BY <3>1, <3>2, <3>3
  <2> QED BY <2>1, <2>2
<1>2. Nat \subseteq S
  <2> HIDE DEF S
  <2> QED BY <1>1, AllOfThem
<1> QED
  BY <1>2

----------------------------------------------------------------------------
\* The room that MaxSize reserves for a number of so many bits.
LEMMA UvarintFits ==
  ASSUME NEW bits \in Nat \ {0}, NEW x \in Nat, x < Power(bits)
  PROVE  Len(PutUvarint(x)) <= MaxVarintLen(bits)
<1> DEFINE S == {y \in Nat : \A b \in Nat \ {0} : y < Power(b) => Len(PutUvarint(y)) <= MaxVarintLen(b)}
<1>1. \A y \in Nat : (\A j \in Nat : j < y => j \in S) => y \in S
  <2> SUFFICES ASSUME NEW y \in Nat, \A j \in Nat : j < y => j \in S, NEW b \in Nat \ {0}, y < Power(b)
               PROVE  Len(PutUvarint(y)) <= MaxVarintLen(b)
    OBVIOUS
  <2>0. G \in Nat /\ G >= 1
    BY GAssumption
  <2>1. CASE y < Group
    <3>1. Len(PutUvarint(y)) = 1
      <4>1. PutUvarint(y) = <<y>>
        BY <2>1, PutRecursion
      <4> QED BY <4>1
    <3>2. MaxVarintLen(b) >= 1
      <4>1. b + G - 1 \in Nat /\ b + G - 1 >= G
        BY <2>0
      <4>2. \A n, d \in Nat : d >= 1 /\ n >= d => n \div d >= 1
        <5> SUFFICES ASSUME NEW n \in Nat, NEW d \in Nat, d >= 1, n >= d PROVE n \div d >= 1
          OBVIOUS
        <5>1. n \div d \in Nat /\ n % d \in 0 .. d - 1 /\ n = (n % d) + d * (n \div d)
          BY Division
        <5>2. CASE n \div d = 0
          <6>1. d * (n \div d) = 0
            BY <5>2
          <6> QED BY <5>1, <6>1
        <5> QED BY <5>1, <5>2
      <4> QED BY <2>0, <4>1, <4>2 DEF MaxVarintLen
    <3> QED BY <3>1, <3>2
  <2>2. CASE ~(y < Group)
    <3> DEFINE c == b - G
    <3>1. Rest(y) \in Nat /\ Rest(y) < y
      BY <2>2, RestSmaller
    <3>2. b > G
      <4>1. CASE b <= G
        <5>1. Power(b) <= Power(G) /\ Power(b) \in Nat
          BY <4>1, <2>0, PowerGrows, PowerRecursion
        <5> QED BY <5>1, <2>2, GroupType DEF Group
      <4> QED BY <4>1, <2>0
    <3>3. c \in Nat \ {0} /\ G + c = b
      BY <3>2, <2>0
    <3>4. Rest(y) < Power(c)
      <4> HIDE DEF c
      <4>1. Power(b) = Group * Power(c) /\ Power(c) \in Nat
        BY <2>0, <3>3, PowerSum, PowerRecursion DEF Group
      <4> QED BY <4>1, RestBelow
    <3>5. Len(PutUvarint(Rest(y))) <= MaxVarintLen(c)
      <4> HIDE DEF c
      <4> QED BY <3>1, <3>3, <3>4
    <3>6. Len(PutUvarint(y)) = 1 + Len(PutUvarint(Rest(y))) /\ Len(PutUvarint(Rest(y))) \in Nat
      <4>1. PutUvarint(y) = <<Group + Low(y)>> \o PutUvarint(Rest(y))
        BY <2>2, PutRecursion DEF More
      <4>2. PutUvarint(Rest(y)) \in Seq(Bytes)
        BY <3>1, PutBytes
      <4> QED BY <4>1, <4>2
    <3>7. MaxVarintLen(b) = 1 + MaxVarintLen(c) /\ MaxVarintLen(c) \in Nat
      <4>1. \A n, d \in Nat : d >= 1 => (n + d) \div d = 1 + (n \div d)
        OBVIOUS
      <4>2. c + G - 1 \in Nat /\ (c + G - 1) + G = b + G - 1
        BY <2>0, <3>3
      <4>3. (c + G - 1) \div G \in Nat
        BY <2>0, <4>2, Division
      <4> QED BY <4>1, <4>2, <4>3, <2>0 DEF MaxVarintLen
    <3> HIDE DEF c
    <3> QED BY <3>5, <3>6, <3>7
  <2> QED BY <2>1, <2>2
<1>2. Nat \subseteq S
  <2> HIDE DEF S
  <2> QED BY <1>1, AllOfThem
<1> QED
  BY <1>2

----------------------------------------------------------------------------
\* What Uvarint reads at every position, from the end of the bytes on.
Joined(b, rest) == <<b - Group + Group * rest[1], rest[2]>>
ReadAt(in, i, rest) ==
  IF i > Len(in) THEN <<0, 0>> ELSE IF in[i] < Group THEN <<in[i], i + 1>> ELSE Joined(in[i], rest)
Reads(in, get) == get = [i \in 1 .. Len(in) + 1 |-> ReadAt(in, i, get[i + 1])]

LEMMA ReadsExist ==
  ASSUME NEW in \in Seq(Int)
  PROVE  \E get : Reads(in, get)
<1> DEFINE L == Len(in)
           From(m, get) == get = [i \in m .. L + 1 |-> ReadAt(in, i, get[i + 1])]
           S == {k \in Nat : k <= L => \E get : From(L + 1 - k, get)}
<1>0. L \in Nat
  OBVIOUS
<1> HIDE DEF L
<1>1. \A k \in Nat : (\A j \in Nat : j < k => j \in S) => k \in S
  <2> SUFFICES ASSUME NEW k \in Nat, \A j \in Nat : j < k => j \in S, k <= L
               PROVE  \E get : From(L + 1 - k, get)
    OBVIOUS
  <2>1. CASE k = 0
    <3> DEFINE q == [i \in L + 1 .. L + 1 |-> <<0, 0>>]
    <3>1. \A i \in L + 1 .. L + 1 : \A rest : ReadAt(in, i, rest) = <<0, 0>>
      BY <1>0 DEF ReadAt, L
    <3>2. From(L + 1, q)
      BY <3>1
    <3>3. L + 1 - k = L + 1
      BY <1>0, <2>1
    <3> QED BY <3>2, <3>3
  <2>2. CASE k # 0
    <3> DEFINE m == L + 1 - k
    <3>1. k - 1 \in Nat /\ k - 1 < k /\ k - 1 <= L /\ m \in 1 .. L /\ L + 1 - (k - 1) = m + 1
      BY <1>0, <2>2
    <3>2. k - 1 \in S
      BY <3>1
    <3>3. \E get : From(m + 1, get)
      BY <3>1, <3>2
    <3> HIDE DEF m, S
    <3>4. PICK p : p = [i \in m + 1 .. L + 1 |-> ReadAt(in, i, p[i + 1])]
      BY <3>3
    <3> DEFINE q == [i \in m .. L + 1 |-> IF i = m THEN ReadAt(in, m, p[m + 1]) ELSE p[i]]
    <3>5. \A i \in m .. L + 1 : q[i] = ReadAt(in, i, p[i + 1])
      BY <1>0, <3>1, <3>4
    <3>6. \A i \in m .. L + 1 : ReadAt(in, i, q[i + 1]) = ReadAt(in, i, p[i + 1])
      <4> SUFFICES ASSUME NEW i \in m .. L + 1 PROVE ReadAt(in, i, q[i + 1]) = ReadAt(in, i, p[i + 1])
        OBVIOUS
      <4>1. CASE i = L + 1
        BY <1>0, <4>1 DEF ReadAt, L
      <4>2. CASE i # L + 1
        <5>1. i + 1 \in m .. L + 1 /\ i + 1 # m
          BY <1>0, <3>1, <4>2
        <5> QED BY <5>1
      <4> QED BY <4>1, <4>2
    <3>7. q = [i \in m .. L + 1 |-> ReadAt(in, i, q[i + 1])]
      <4>1. q = [i \in m .. L + 1 |-> ReadAt(in, i, p[i + 1])]
        BY <1>0, <3>1, <3>4
      <4> HIDE DEF q
      <4> QED BY <3>6, <4>1
    <3> HIDE DEF q
    <3> QED BY <3>7 DEF m
  <2> QED BY <2>1, <2>2
<1>2. L \in S
  <2> HIDE DEF S
  <2> QED BY <1>0, <1>1, AllOfThem
<1>3. L + 1 - L = 1
  BY <1>0
<1> QED
  BY <1>0, <1>2, <1>3 DEF Reads, L

LEMMA UvarintIs ==
  ASSUME NEW in \in Seq(Int)
  PROVE  \E get : /\ \A n : Uvarint(in, n) = IF get[n][2] = 0 THEN <<0, n>> ELSE get[n]
                  /\ \A i \in 1 .. Len(in) + 1 : get[i] = ReadAt(in, i, get[i + 1])
<1> DEFINE get == CHOOSE g : Reads(in, g)
<1>1. Reads(in, get)
  BY ReadsExist
<1>2. \A n : Uvarint(in, n) = IF get[n][2] = 0 THEN <<0, n>> ELSE get[n]
  BY DEF Uvarint, Reads, ReadAt, Joined
<1> HIDE DEF get
<1> QED
  BY <1>1, <1>2 DEF Reads

\* The bytes stand in the input from position n on.
StandsAt(in, n, bytes) ==
  /\ n \in Nat \ {0} /\ n + Len(bytes) <= Len(in) + 1
  /\ \A i \in 1 .. Len(bytes) : in[n + i - 1] = bytes[i]

LEMMA UvarintReadsBack ==
  ASSUME NEW in \in Seq(Int), NEW n, NEW x \in Nat, StandsAt(in, n, PutUvarint(x))
  PROVE  Uvarint(in, n) = <<x, n + Len(PutUvarint(x))>>
<1>1. PICK get : /\ \A k : Uvarint(in, k) = IF get[k][2] = 0 THEN <<0, k>> ELSE get[k]
                 /\ \A i \in 1 .. Len(in) + 1 : get[i] = ReadAt(in, i, get[i + 1])
  BY UvarintIs
<1> DEFINE S == {y \in Nat : \A k : StandsAt(in, k, PutUvarint(y)) => get[k] = <<y, k + Len(PutUvarint(y))>>}
<1>2. \A y \in Nat : (\A j \in Nat : j < y => j \in S) => y \in S
  <2> SUFFICES ASSUME NEW y \in Nat, \A j \in Nat : j < y => j \in S, NEW k, StandsAt(in, k, PutUvarint(y))
               PROVE  get[k] = <<y, k + Len(PutUvarint(y))>>
    OBVIOUS
  <2>0. Len(in) \in Nat /\ k \in Nat \ {0}
    BY DEF StandsAt
  <2>1. CASE y < Group
    <3>1. PutUvarint(y) = <<y>>
      BY <2>1, PutRecursion
    <3>2. Len(PutUvarint(y)) = 1 /\ PutUvarint(y)[1] = y
      BY <3>1
    <3>3. k \in 1 .. Len(in) /\ in[k] = y
      <4>1. k + 1 <= Len(in) + 1 /\ in[k + 1 - 1] = y
        BY <3>2 DEF StandsAt
      <4>2. k + 1 - 1 = k
        BY <2>0
      <4> QED BY <2>0, <4>1, <4>2
    <3>4. get[k] = ReadAt(in, k, get[k + 1])
      BY <1>1, <2>0, <3>3
    <3>5. ~(k > Len(in))
      BY <2>0, <3>3
    <3> QED
      BY <2>1, <3>2, <3>3, <3>4, <3>5 DEF ReadAt
  <2>2. CASE ~(y < Group)
    <3> DEFINE bytes == PutUvarint(y)
               rest  == PutUvarint(Rest(y))
    <3>1. Rest(y) \in Nat /\ Rest(y) < y /\ Low(y) \in Nat /\ Low(y) < Group /\ Group \in Nat
      BY <2>2, RestSmaller, GroupType
    <3>2. bytes = <<Group + Low(y)>> \o rest
      BY <2>2, PutRecursion DEF More
    <3>3. rest \in Seq(Bytes)
      BY <3>1, PutBytes
    <3>4. /\ Len(rest) \in Nat /\ Len(bytes) = 1 + Len(rest) /\ bytes[1] = Group + Low(y)
          /\ \A i \in 1 .. Len(rest) : bytes[i + 1] = rest[i]
      <4> HIDE DEF bytes, rest
      <4> QED BY <3>2, <3>3
    <3>5. /\ k + Len(bytes) <= Len(in) + 1
          /\ \A i \in 1 .. Len(bytes) : in[k + i - 1] = bytes[i]
      BY DEF StandsAt
    <3> HIDE DEF bytes, rest
    <3>6. k \in 1 .. Len(in) /\ in[k] = Group + Low(y)
      <4>1. 1 \in 1 .. Len(bytes) /\ k + 1 - 1 = k
        BY <2>0, <3>4
      <4>2. in[k] = bytes[1]
        BY <3>5, <4>1
      <4> QED BY <2>0, <3>4, <3>5, <4>2
    <3>7. StandsAt(in, k + 1, rest)
      <4>1. \A i \in 1 .. Len(rest) : in[(k + 1) + i - 1] = rest[i]
        <5> SUFFICES ASSUME NEW i \in 1 .. Len(rest) PROVE in[(k + 1) + i - 1] = rest[i]
          OBVIOUS
        <5>1. i + 1 \in 1 .. Len(bytes) /\ (k + 1) + i - 1 = k + (i + 1) - 1
          BY <2>0, <3>4
        <5> QED BY <3>4, <3>5, <5>1
      <4>2. k + 1 \in Nat \ {0} /\ (k + 1) + Len(rest) <= Len(in) + 1
        BY <2>0, <3>4, <3>5
      <4> QED BY <4>1, <4>2 DEF StandsAt
    <3>8. get[k + 1] = <<Rest(y), (k + 1) + Len(rest)>>
      <4>1. Rest(y) \in S
        BY <3>1
      <4> QED BY <3>7, <4>1 DEF rest
    <3>9. get[k] = Joined(in[k], get[k + 1])
      <4>1. get[k] = ReadAt(in, k, get[k + 1])
        BY <1>1, <2>0, <3>6
      <4>2. ~(k > Len(in)) /\ ~(in[k] < Group)
        BY <2>0, <3>1, <3>6
      <4> QED BY <4>1, <4>2 DEF ReadAt
    <3>10. get[k] = <<Low(y) + Group * Rest(y), k + Len(bytes)>>
      <4>1. get[k] = <<(Group + Low(y)) - Group + Group * Rest(y), (k + 1) + Len(rest)>>
        BY <3>6, <3>8, <3>9 DEF Joined
      <4>2. (Group + Low(y)) - Group = Low(y) /\ (k + 1) + Len(rest) = k + Len(bytes)
        BY <2>0, <3>1, <3>4
      <4> QED BY <4>1, <4>2
    <3> QED
      BY <3>10, RestAndLow DEF bytes
  <2> QED BY <2>1, <2>2
<1>3. x \in S
  <2> HIDE DEF S
  <2> QED BY <1>2, AllOfThem
<1>4. get[n] = <<x, n + Len(PutUvarint(x))>>
  BY <1>3
<1>5. n + Len(PutUvarint(x)) # 0
  BY PutBytes DEF StandsAt
<1>6. get[n][2] # 0
  BY <1>4, <1>5
<1>7. Uvarint(in, n) = IF get[n][2] = 0 THEN <<0, n>> ELSE get[n]
  BY <1>1
<1> QED
  BY <1>4, <1>6, <1>7

----------------------------------------------------------------------------
LEMMA ZigZagBack ==
  ASSUME NEW x \in Int
  PROVE  /\ ZigZag(x) \in Nat
         /\ (IF ZigZag(x) % 2 = 0 THEN ZigZag(x) \div 2 ELSE -((ZigZag(x) + 1) \div 2)) = x
<1>1. CASE x >= 0
  BY <1>1 DEF ZigZag
<1>2. CASE ~(x >= 0)
  BY <1>2 DEF ZigZag
<1> QED
  BY <1>1, <1>2

\* The room of MaxVarintLen16 and the like suffices for every integer of that width,
\* which is what MaxSize reserves for numbers, and for the lengths of strings, slices
\* and maps.
THEOREM VarintFits ==
  \A bits \in Nat \ {0} :
    /\ \A x \in Nat : x < Power(bits) => Len(PutUvarint(x)) <= MaxVarintLen(bits)
    /\ \A x \in Int : -Power(bits - 1) <= x /\ x < Power(bits - 1) => Len(PutVarint(x)) <= MaxVarintLen(bits)
<1> SUFFICES ASSUME NEW bits \in Nat \ {0}, NEW x \in Int, -Power(bits - 1) <= x, x < Power(bits - 1)
             PROVE  Len(PutVarint(x)) <= MaxVarintLen(bits)
  BY UvarintFits
<1>1. bits - 1 \in Nat /\ (bits - 1) + 1 = bits
  OBVIOUS
<1>2. Power(bits - 1) \in Nat /\ Power(bits) = 2 * Power(bits - 1)
  BY <1>1, PowerRecursion
<1>3. ZigZag(x) \in Nat /\ ZigZag(x) < Power(bits)
  <2>1. ZigZag(x) < 2 * Power(bits - 1)
    BY <1>2 DEF ZigZag
  <2> QED BY <1>2, <2>1, ZigZagBack
<1> QED
  BY <1>3, UvarintFits DEF PutVarint

\* Whatever stands before and after it, a number that was written is read back, and
\* reading goes on where it ended: the fields of a value do not get out of step.
THEOREM VarintReadsBack ==
  \A in \in Seq(Int), n \in Nat \ {0} :
    /\ \A x \in Nat : StandsAt(in, n, PutUvarint(x)) => Uvarint(in, n) = <<x, n + Len(PutUvarint(x))>>
    /\ \A x \in Int : StandsAt(in, n, PutVarint(x)) => Varint(in, n) = <<x, n + Len(PutVarint(x))>>
<1> SUFFICES ASSUME NEW in \in Seq(Int), NEW n \in Nat \ {0}, NEW x \in Int, StandsAt(in, n, PutVarint(x))
             PROVE  Varint(in, n) = <<x, n + Len(PutVarint(x))>>
  BY UvarintReadsBack
<1>1. ZigZag(x) \in Nat
  BY ZigZagBack
<1>2. Uvarint(in, n) = <<ZigZag(x), n + Len(PutVarint(x))>>
  BY <1>1, UvarintReadsBack DEF PutVarint
<1>3. Uvarint(in, n)[1] = ZigZag(x) /\ Uvarint(in, n)[2] = n + Len(PutVarint(x))
  BY <1>2
<1> QED
  BY <1>3, ZigZagBack DEF Varint
=============================================================================
