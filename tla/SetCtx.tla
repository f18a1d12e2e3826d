------------------------------- MODULE SetCtx -------------------------------
(***************************************************************************)
(* tool/setctx: gives the database calls of a package their context        *)
(* versions, and a context to every function on the way to such a call.    *)
(* It finds those functions, going through the bodies that each of them    *)
(* leads to; then it converts all functions, in place.  A body gone        *)
(* through, and a function converted, is a step.                           *)
(*                                                                         *)
(* A package gives every function the kind of its context parameter (an    *)
(* echo.Context and an *http.Request are contexts too) and its calls.  A   *)
(* call is [to, own, arg]: what it calls, whether it stands in a function  *)
(* literal with a context of its own, and its context argument: "none",    *)
(* "known" when hasCtxArg sees the type of the argument, "opaque" when it  *)
(* does not (context.Background(), a field of a struct), "two" once it has *)
(* got another one.                                                        *)
(***************************************************************************)
EXTENDS Naturals, FiniteSets

CONSTANTS
  Funcs,    \* the functions of the package
  Main,     \* main, the one that never gets a parameter
  Packages  \* the packages that the tool is first run on

\* The methods of database/sql and sqlx with a context version; those for which
\* there is no name to derive are set from the start.
ByParameter == [Query |-> "QueryContext", QueryContext |-> "QueryContext", Begin |-> "BeginTx"]
ctxFuncMap == [Query |-> "QueryContext", Begin |-> "BeginTx"]
ContextVersions == {"QueryContext", "BeginTx"}

IsSQL(call) == call.to \in DOMAIN ctxFuncMap

Kinds == {"none", "context.Context", "echo.Context", "http.Request"}
Calls == [to : Funcs \cup {"Query", "Begin"} \cup ContextVersions, own : BOOLEAN,
          arg : {"none", "known", "opaque", "two"}]

\* A package that compiles passes as many contexts as are taken; no other is loaded.
Passes(c)      == CASE c.arg = "none" -> 0 [] c.arg = "two" -> 2 [] OTHER -> 1
Takes(pkg, to) == IF to \in ContextVersions \/ (to \in Funcs /\ pkg[to].ctx # "none") THEN 1 ELSE 0
Compiles(pkg)  == \A f \in Funcs : \A c \in pkg[f].calls : Passes(c) = Takes(pkg, c.to)

ASSUME FuncsAssumption == Main \in Funcs /\ Funcs \cap ({"Query", "Begin"} \cup ContextVersions) = {}
ASSUME PackagesAssumption ==
  \A pkg \in Packages : pkg \in [Funcs -> [ctx : Kinds, calls : SUBSET Calls]] /\ Compiles(pkg)

VARIABLES
  times,          \* the runs of the tool so far, with this one
  read,           \* the package as this run has loaded it
  code,           \* and as it is now
  phase,          \* "search", "convert" or "written"
  left,           \* the functions that the loop over them has yet to take
  dbCallFuncMap,  \* those that reach a database call
  decl, visited, todo, found  \* the search from a function

searchVars == <<decl, visited, todo, found>>
setCtxVars == <<times, read, code, phase, left, dbCallFuncMap, searchVars>>

SetCtxInit ==
  /\ times = 1 /\ read \in Packages /\ code = read
  /\ phase = "search" /\ left = Funcs /\ dbCallFuncMap = {}
  /\ decl = Main /\ visited = {} /\ todo = {} /\ found = FALSE

----------------------------------------------------------------------------
(* The functions that reach a database call                                *)

\* The declarations that the calls of a body lead to: none through an interface or a
\* variable.
NoCallees(pkg, f) == {}
Callees(pkg, f)   == {c.to : c \in pkg[f].calls} \cap Funcs
CallsSQL(pkg, f)  == \E c \in pkg[f].calls : IsSQL(c)

Search(f) ==
  /\ phase = "search" /\ visited = {} /\ todo = {} /\ f \in left
  /\ decl' = f /\ todo' = {f} /\ found' = FALSE
  /\ left' = left \ {f}
  /\ UNCHANGED <<times, read, code, phase, dbCallFuncMap, visited>>

\* findSQLCall goes through a body, into no callee twice.
Enter(f) ==
  /\ f \in todo
  /\ visited' = visited \cup {f}
  /\ todo' = (todo \cup Callees(read, f)) \ visited'
  /\ found' = (found \/ CallsSQL(read, f))
  /\ UNCHANGED <<times, read, code, phase, left, dbCallFuncMap, decl>>

Searched ==
  /\ visited # {} /\ todo = {}
  /\ dbCallFuncMap' = IF found THEN dbCallFuncMap \cup {decl} ELSE dbCallFuncMap
  /\ visited' = {}
  /\ UNCHANGED <<times, read, code, phase, left, decl, todo, found>>

AllSearched ==
  /\ phase = "search" /\ left = {} /\ visited = {} /\ todo = {}
  /\ phase' = "convert" /\ left' = Funcs
  /\ UNCHANGED <<times, read, code, dbCallFuncMap, searchVars>>

----------------------------------------------------------------------------
(* The conversion                                                          *)

\* The arguments whose types the tool finds.  There are others that it panics at, in the
\* middle of the files it writes: a call of a builtin, of a conversion or of a function
\* of another file, and a variable of type error.  Runs that end so are not modelled.
HasCtxArg(c) == c.arg \in {"known", "two"}

Converts(c) == IsSQL(c) \/ (c.to \in dbCallFuncMap /\ ~HasCtxArg(c))

AnyCall(f)           == code[f].calls # {}
ShouldAddCtxToArg(f) == \E c \in code[f].calls : Converts(c)
AddsParameter(f)     == code[f].ctx = "none" /\ f # Main /\ ShouldAddCtxToArg(f)

\* What a converted call passes: the context of the literal or of the function,
\* which in a main without one is context.Background().
Background(f, c) == f = Main /\ code[f].ctx = "none" /\ ~c.own
Passed(f, c) ==
  IF ~Converts(c) THEN c
  ELSE [c EXCEPT !.to  = IF IsSQL(c) THEN ctxFuncMap[@] ELSE @,
                 !.arg = IF @ # "none" THEN "two" ELSE IF Background(f, c) THEN "opaque" ELSE "known"]

Convert(f) ==
  /\ phase = "convert" /\ f \in left
  /\ code' = [code EXCEPT ![f] = [ctx   |-> IF AddsParameter(f) THEN "context.Context" ELSE @.ctx,
                                  calls |-> {Passed(f, c) : c \in @.calls}]]
  /\ left' = left \ {f}
  /\ UNCHANGED <<times, read, phase, dbCallFuncMap, searchVars>>

Write ==
  /\ phase = "convert" /\ left = {}
  /\ phase' = "written"
  /\ UNCHANGED <<times, read, code, left, dbCallFuncMap, searchVars>>

\* The tool is run again, on what it has written.
Again ==
  /\ phase = "written" /\ times = 1 /\ Compiles(code)
  /\ times' = 2 /\ read' = code
  /\ phase' = "search" /\ left' = Funcs /\ dbCallFuncMap' = {}
  /\ UNCHANGED <<code, searchVars>>

SetCtxNext ==
  \/ \E f \in Funcs : Search(f) \/ Enter(f) \/ Convert(f)
  \/ Searched \/ AllSearched \/ Write \/ Again

SetCtxSpec == SetCtxInit /\ [][SetCtxNext]_setCtxVars

----------------------------------------------------------------------------
(* What the result must be                                                 *)

\* No argument hides its type, who has no context passes none on, and nobody calls
\* main.
Plain(pkg) ==
  \A f \in Funcs : \A c \in pkg[f].calls :
    c.arg # "opaque" /\ (pkg[f].ctx = "none" => c.arg = "none") /\ c.to # Main

\* In a package whose contexts are in sight the functions that are found to reach the
\* database (over any number of calls, through recursion) are given a context
\* parameter, and each call passes exactly what its callee then takes.
CallsAgree == phase = "written" /\ Plain(read) => Compiles(code)

\* The functions from which a database call is reached, as the smallest set that
\* holds whoever makes one and whoever calls a member.
Closed(pkg, S)  == \A f \in Funcs : CallsSQL(pkg, f) \/ Callees(pkg, f) \cap S # {} => f \in S
Reaching(pkg)   == {f \in Funcs : \A S \in SUBSET Funcs : Closed(pkg, S) => f \in S}

\* Functions that do not reach the database are left as they are, and no function
\* calls the database without a context any more.
OnlyWhereNeeded ==
  phase = "written" =>
    \A f \in Funcs :
      /\ f \notin Reaching(read) => code[f] = read[f]
      /\ \A c \in code[f].calls : ~IsSQL(c)

\* Run on its own output as it is, the tool changes nothing (the names it has given are not
\* names that it looks for, setctx.go:109), so no call gets a second context.
OnceIsEnough == times = 2 => code = read
=============================================================================
