------------------------------- MODULE Trace -------------------------------
(***************************************************************************)
(* library/trace: requests, SQL and HTTP calls are measured into three     *)
(* lists and the queries sampled into a fourth; StartTrace empties the     *)
(* lists and, later, a goroutine reads them for the report.  Every measure *)
(* is appended by a goroutine of its own, which runs when it likes.        *)
(*                                                                         *)
(* A list is a slice: its length and the array behind it.  An append loads *)
(* the length and fills the next cell, and then stores the length; appends *)
(* to a measure list hold its mutex meanwhile, appends to queries do not,  *)
(* and neither do StartTrace and the report.  The arrays are never         *)
(* outgrown here: New makes them long, but that of queries (30).  Of an    *)
(* array only the cells that were ever filled are modelled, and a cell     *)
(* holds the number of the goroutine that has filled it.                   *)
(***************************************************************************)
EXTENDS Naturals, Sequences

CONSTANTS
  Queries,     \* the queries' texts, with ""
  MaxMeasures, \* bound on the goroutines that append a measure
  MaxSampled,  \* bound on those that sample a query
  MaxTraces    \* bound on the calls of StartTrace, one after the other

Measures == {"rms", "sms", "hms"}
Lists    == Measures \cup {"queries"}

VARIABLES
  len, cells,  \* of the lists
  holder,      \* who holds the mutex of a measure list; 0 nobody
  sampled,     \* the queries seen
  go,          \* the goroutines in the order of their start
  starting,    \* the resets StartTrace has yet to make; <<>> when it does not run
  traces,      \* the calls of StartTrace so far
  timers,      \* of every trace, the goroutine that reports
  calm,        \* history: whether no bindedQuery has run while StartTrace last did
  torn         \* history: the lists that were appended to when StartTrace last reset them, or,
               \* for queries, by two at once since

listVars  == <<len, cells, holder, sampled>>
traceVars == <<starting, traces, timers, calm, torn>>
vars      == <<listVars, go, traceVars>>

Init ==
  /\ len = [l \in Lists |-> 0] /\ cells = [l \in Lists |-> <<>>]
  /\ holder = [l \in Lists |-> 0] /\ sampled = {}
  /\ go = <<>>
  /\ starting = <<>> /\ traces = 0 /\ timers = <<>>
  /\ calm = TRUE /\ torn = {}

----------------------------------------------------------------------------
(* What any number of requests do; the measures' contents are in TraceStats *)

\* A goroutine that appends a measure, or samples a query, with the trace it belongs
\* to: 0 when StartTrace was running.
Began == IF starting = <<>> THEN traces ELSE 0
Measure(list)    == [list |-> list, query |-> "", len |-> 0, pc |-> "append", trace |-> Began]
Sampling(query)  == [list |-> "queries", query |-> query, len |-> 0, pc |-> "look", trace |-> Began]

Spawn(gs) ==
  /\ go' = go \o gs
  /\ LET sampling == SelectSeq(go', LAMBDA g : g.list = "queries")
     IN  Len(sampling) <= MaxSampled /\ Len(go') - Len(sampling) <= MaxMeasures
  /\ calm' = (calm /\ ~(starting # <<>> /\ \E i \in DOMAIN gs : gs[i].list = "queries"))
  /\ UNCHANGED <<listVars, starting, traces, timers, torn>>

\* A call of the database is logged, and its query sampled unless the call only
\* prepares or closes a statement.
Log(query, sample) == Spawn(IF sample THEN <<Measure("sms"), Sampling(query)>> ELSE <<Measure("sms")>>)

\* The stop of SubStart is a measure among those of the database.
Stop == Spawn(<<Measure("sms")>>)

RoundTrip == Spawn(<<Measure("hms")>>)

\* The handler of a traced route returns, with an error or without; one that panics
\* goes unmeasured.
Return == Spawn(<<Measure("rms")>>)

----------------------------------------------------------------------------
(* Goroutines that append                                                  *)

At(g, pc) == g \in DOMAIN go /\ go[g].pc = pc
Appending(list) == \E g \in DOMAIN go : go[g].list = list /\ go[g].pc = "store"

\* bindedQuery looks under the read lock, and again under the write lock.
Look(g) ==
  /\ At(g, "look")
  /\ go' = [go EXCEPT ![g].pc = IF go[g].query \in sampled THEN "done" ELSE "sample"]
  /\ UNCHANGED <<listVars, traceVars>>

NotAgain(g) == FALSE
Again(g) == go[g].query \in sampled
Sample(g) ==
  /\ At(g, "sample")
  /\ sampled' = sampled \cup {go[g].query}
  /\ go' = [go EXCEPT ![g].pc = IF Again(g) \/ go[g].query = "" THEN "done" ELSE "append"]
  /\ UNCHANGED <<len, cells, holder, traceVars>>

\* An array, as far as it has been filled, with cell n filled by g.
WithCell(array, n, g) ==
  [i \in 1 .. (IF n > Len(array) THEN n ELSE Len(array)) |-> IF i = n THEN g ELSE array[i]]

Unlocked(list) == FALSE
Locked(list) == list \in Measures
Append1(g) ==
  LET l == go[g].list
  IN  /\ At(g, "append")
      /\ Locked(l) => holder[l] = 0
      /\ holder' = [holder EXCEPT ![l] = IF Locked(l) THEN g ELSE 0]
      /\ cells' = [cells EXCEPT ![l] = WithCell(@, len[l] + 1, g)]
      /\ go' = [go EXCEPT ![g].pc = "store", ![g].len = len[l]]
      /\ torn' = IF l = "queries" /\ Appending(l) THEN torn \cup {l} ELSE torn
      /\ UNCHANGED <<len, sampled, starting, traces, timers, calm>>

Store(g) ==
  LET l == go[g].list
  IN  /\ At(g, "store")
      /\ len' = [len EXCEPT ![l] = go[g].len + 1]
      /\ holder' = [holder EXCEPT ![l] = 0]
      /\ go' = [go EXCEPT ![g].pc = "done"]
      /\ UNCHANGED <<cells, sampled, traceVars>>

----------------------------------------------------------------------------
(* StartTrace and the report                                               *)

StillSampling == \E g \in DOMAIN go : go[g].list = "queries" /\ go[g].pc # "done"

StartTrace ==
  /\ starting = <<>> /\ traces < MaxTraces
  /\ starting' = <<"rms", "sms", "hms", "queries", "sampled">>
  /\ traces' = traces + 1
  /\ timers' = Append(timers, [stage |-> "none", old |-> {g \in DOMAIN go : go[g].pc = "done"},
                               due |-> {}, len |-> len, read |-> [l \in Lists |-> <<>>], again |-> <<>>])
  /\ calm' = ~StillSampling
  /\ torn' = {}
  /\ UNCHANGED <<listVars, go>>

Kept(list) == len[list]
Emptied(list) == 0
Reset ==
  /\ starting # <<>>
  /\ IF Head(starting) = "sampled" THEN sampled' = {} /\ UNCHANGED <<len, torn>>
     ELSE LET l == Head(starting)
          IN  /\ len' = [len EXCEPT ![l] = Emptied(l)]
              /\ torn' = IF Appending(l) THEN torn \cup {l} ELSE torn
              /\ UNCHANGED sampled
  /\ starting' = Tail(starting)
  /\ timers' = IF Len(starting) > 1 THEN timers ELSE [timers EXCEPT ![traces].stage = "rms"]
  /\ UNCHANGED <<cells, holder, go, traces, calm>>

\* The timer has gone off, and loads the lengths one by one.
After(stage) == [rms |-> "sms", sms |-> "hms", hms |-> "read"][stage]
Load(t) ==
  LET l == timers[t].stage
  IN  /\ l \in Measures
      /\ timers' = [timers EXCEPT
           ![t].len[l] = len[l],
           ![t].due = IF l = "rms" THEN {g \in DOMAIN go : go[g].pc = "done"} ELSE @,
           ![t].stage = After(l)]
      /\ UNCHANGED <<listVars, go, starting, traces, calm, torn>>

First(list, n) == SubSeq(cells[list], 1, n)

Read(t) ==
  /\ timers[t].stage = "read"
  /\ timers' = [timers EXCEPT
       ![t].read = [l \in Lists |-> IF l \in Measures THEN First(l, timers[t].len[l]) ELSE <<>>],
       ![t].stage = "again"]
  /\ UNCHANGED <<listVars, go, starting, traces, calm, torn>>

\* The part of the report about SQL alone reads its list anew.
ReadAgain(t) ==
  /\ timers[t].stage = "again"
  /\ timers' = [timers EXCEPT ![t].again = First("sms", len["sms"]), ![t].stage = "explain"]
  /\ UNCHANGED <<listVars, go, starting, traces, calm, torn>>

Explain(t) ==
  /\ timers[t].stage = "explain"
  /\ timers' = [timers EXCEPT ![t].read["queries"] = First("queries", len["queries"]), ![t].stage = "done"]
  /\ UNCHANGED <<listVars, go, starting, traces, calm, torn>>

----------------------------------------------------------------------------
Step ==
  \/ \E query \in Queries, sample \in BOOLEAN : Log(query, sample)
  \/ Stop \/ RoundTrip \/ Return
  \/ \E g \in DOMAIN go : Look(g) \/ Sample(g) \/ Append1(g) \/ Store(g)
  \/ StartTrace \/ Reset
  \/ \E t \in DOMAIN timers : Load(t) \/ Read(t) \/ ReadAgain(t) \/ Explain(t)

\* Bound: nothing of interest comes after the last report.
Over == traces = MaxTraces /\ timers[traces].stage = "done"
Next == ~Over /\ Step

Spec == Init /\ [][Next]_vars

----------------------------------------------------------------------------
\* The cells a report has read of a list, as the goroutines that filled them.
Reported(t, list) == {timers[t].read[list][i] : i \in DOMAIN timers[t].read[list]}

\* Whether no other trace has begun since trace t has.
Latest(t) == t = traces /\ starting = <<>>

\* A measure taken in a trace and appended before the report is in the report,
\* unless another trace begins meanwhile: appends hold the mutex (trace.go:76), and
\* one that straddles the reset does not take it away either.  The part about SQL
\* has them too.
NothingMissed ==
  \A t \in DOMAIN timers : timers[t].stage = "done" /\ Latest(t) =>
    \A g \in timers[t].due : go[g].trace = t /\ go[g].list \in Measures =>
      /\ g \in Reported(t, go[g].list)
      /\ go[g].list = "sms" => \E i \in DOMAIN timers[t].again : timers[t].again[i] = g

\* What was appended before StartTrace is not in the report, unless an append was
\* under way at the reset (trace.go:52), which brings them back.
NothingOld ==
  \A t \in DOMAIN timers : timers[t].stage = "done" /\ Latest(t) =>
    \A l \in Lists \ torn : Reported(t, l) \cap timers[t].old = {}

\* A query is explained once, however many calls log it at once, if none was being
\* sampled while StartTrace reset queries and sampled (trace.go:55).
ExplainedOnce ==
  \A t \in DOMAIN timers : timers[t].stage = "done" /\ Latest(t) /\ calm =>
    LET explained == timers[t].read["queries"]
    IN  \A i, j \in DOMAIN explained : i # j => go[explained[i]].query # go[explained[j]].query

\* And a query is explained if all its sampling was over when the report began, if
\* moreover no two queries were appended at once, without a lock (sql.go:127).
AllExplained ==
  \A t \in DOMAIN timers : timers[t].stage = "done" /\ Latest(t) /\ calm /\ "queries" \notin torn =>
    \A query \in Queries \ {""} :
      LET logged == {g \in DOMAIN go : go[g].list = "queries" /\ go[g].query = query}
      IN  logged \subseteq timers[t].due /\ (\E g \in logged : go[g].trace = t) =>
            \E g \in Reported(t, "queries") : go[g].query = query

\* Each query that was logged is explained, and once.
Explained == ExplainedOnce /\ AllExplained
=============================================================================
