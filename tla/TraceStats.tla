----------------------------- MODULE TraceStats -----------------------------
(***************************************************************************)
(* library/trace: the numbers of a report.  Three loops over the measures  *)
(* count the SQL and HTTP calls by path and query (or URL), and the        *)
(* requests by path; the rows follow, and at last the part about SQL alone *)
(* counts its calls by query.  Every iteration is a step.                  *)
(*                                                                         *)
(* A map of maps is a function of pairs here, and a map that is gone       *)
(* through, in any order, is left without what it has been gone through    *)
(* for.  The mean and the calls per request are quotients of the numbers   *)
(* kept; the sorting of the rows is left out.                              *)
(***************************************************************************)
EXTENDS Naturals, Sequences, FiniteSets

CONSTANTS
  Paths, Texts,  \* the paths of requests, and the texts of queries and URLs
  Reports        \* the measures that reports are made of: rms, sms and hms

Taken == [path : Paths, query : Texts, duration : Nat]
ASSUME ReportsAssumption == Reports \subseteq [{"rms", "sms", "hms"} -> Seq(Taken)]

VARIABLES
  measures,  \* what the report is made of
  stage,     \* the loop that runs
  pos,       \* how many measures it has been through
  stats,     \* of every loop, its map
  rows       \* the rows of the requests

statsVars == <<measures, stage, pos, stats, rows>>

Loops == {"sql", "http", "requests", "all"}
ListOf(loop) == measures[[sql |-> "sms", http |-> "hms", requests |-> "rms", all |-> "sms"][loop]]
Next1(loop)  == [sql |-> "http", http |-> "requests", requests |-> "rows", all |-> "done"][loop]

StatsInit ==
  /\ measures \in Reports
  /\ stage = "sql" /\ pos = 0
  /\ stats = [l \in Loops |-> <<>>]
  /\ rows = <<>>

----------------------------------------------------------------------------
(* Counting                                                                *)

Key(loop, m) ==
  CASE loop \in {"sql", "http"} -> <<m.path, m.query>>
    [] loop = "requests"        -> m.path
    [] OTHER                    -> m.query

Unset == [count |-> 0, min |-> 0, max |-> 0, total |-> 0]

\* A least duration of 0 counts as none.
LowerOnly(min, d) == IF d < min THEN d ELSE min
Lower(min, d) == IF d < min \/ min = 0 THEN d ELSE min
Add(s, d) ==
  [count |-> s.count + 1, min |-> Lower(s.min, d), max |-> IF d > s.max THEN d ELSE s.max, total |-> s.total + d]

Entered(map, k, d) ==
  LET s == IF k \in DOMAIN map THEN map[k] ELSE Unset
  IN  [j \in DOMAIN map \cup {k} |-> IF j = k THEN Add(s, d) ELSE map[j]]

Count(loop) ==
  /\ stage = loop
  /\ IF pos < Len(ListOf(loop))
     THEN LET m == ListOf(loop)[pos + 1]
          IN  /\ stats' = [stats EXCEPT ![loop] = Entered(@, Key(loop, m), m.duration)]
              /\ pos' = pos + 1
              /\ UNCHANGED stage
     ELSE stage' = Next1(loop) /\ pos' = 0 /\ UNCHANGED stats
  /\ UNCHANGED <<measures, rows>>

----------------------------------------------------------------------------
(* The rows                                                                *)

PathsOf(map) == {k[1] : k \in DOMAIN map}
Part(map, p) == [q \in {k[2] : k \in {j \in DOMAIN map : j[1] = p}} |-> map[<<p, q>>]]

\* Going through a map, or delete.
Past(map, p)       == [k \in {j \in DOMAIN map : j[1] # p} |-> map[k]]
NotDeleted(map, p) == map
Deleted(map, p)    == Past(map, p)

Row(p, stat, sql, http) == [path |-> p, stat |-> stat, sql |-> sql, http |-> http]

Gone(loop) == DOMAIN stats[loop] = {}

\* The row of a path with requests takes the calls under the path.
RequestRow(p) ==
  /\ stage = "rows" /\ p \in DOMAIN stats["requests"]
  /\ rows' = Append(rows, Row(p, stats["requests"][p], Part(stats["sql"], p), Part(stats["http"], p)))
  /\ stats' = [stats EXCEPT !["requests"] = [j \in DOMAIN @ \ {p} |-> @[j]],
                            !["sql"] = Deleted(@, p), !["http"] = Deleted(@, p)]
  /\ UNCHANGED <<measures, stage, pos>>

\* What is left has a row for every path, under the name of "unknown": first the SQL
\* calls, then the HTTP calls.
SQLRow(p) ==
  /\ stage = "rows" /\ Gone("requests") /\ p \in PathsOf(stats["sql"])
  /\ rows' = Append(rows, Row("unknown", Unset, Part(stats["sql"], p), <<>>))
  /\ stats' = [stats EXCEPT !["sql"] = Past(@, p)]
  /\ UNCHANGED <<measures, stage, pos>>

HTTPRow(p) ==
  /\ stage = "rows" /\ Gone("requests") /\ Gone("sql") /\ p \in PathsOf(stats["http"])
  /\ rows' = Append(rows, Row("unknown", Unset, <<>>, Part(stats["http"], p)))
  /\ stats' = [stats EXCEPT !["http"] = Past(@, p)]
  /\ UNCHANGED <<measures, stage, pos>>

RowsMade ==
  /\ stage = "rows" /\ Gone("requests") /\ Gone("sql") /\ Gone("http")
  /\ stage' = "all"
  /\ UNCHANGED <<measures, pos, stats, rows>>

StatsNext ==
  \/ \E l \in Loops : Count(l)
  \/ \E p \in Paths : RequestRow(p) \/ SQLRow(p) \/ HTTPRow(p)
  \/ RowsMade

StatsSpec == StatsInit /\ [][StatsNext]_statsVars

----------------------------------------------------------------------------
(* What the numbers must be                                                *)

Sum(d) ==
  LET upTo[i \in 0 .. Len(d)] == IF i = 0 THEN 0 ELSE upTo[i - 1] + d[i]
  IN  upTo[Len(d)]

\* The measures of a list with a key, and what s must be if it stands for some.
Having(loop, k) == {i \in DOMAIN ListOf(loop) : Key(loop, ListOf(loop)[i]) = k}
Durations(ms, is) == {ms[i].duration : i \in is}
Right(s, ms, is) ==
  /\ s.count = Cardinality(is)
  /\ s.total = Sum([i \in DOMAIN ms |-> IF i \in is THEN ms[i].duration ELSE 0])
  /\ {s.min, s.max} \subseteq Durations(ms, is)
  /\ \A d \in Durations(ms, is) : d <= s.max /\ (0 \notin Durations(ms, is) => s.min <= d)
RightFor(s, loop, k) == Right(s, ListOf(loop), Having(loop, k))

\* Every number of the report is that of the measures it stands for; only a least
\* duration of 0 may be hidden by a longer one (trace.go:381).
StatsRight ==
  /\ \A i \in DOMAIN rows : rows[i].path # "unknown" =>
       /\ RightFor(rows[i].stat, "requests", rows[i].path)
       /\ \A q \in DOMAIN rows[i].sql : RightFor(rows[i].sql[q], "sql", <<rows[i].path, q>>)
       /\ \A q \in DOMAIN rows[i].http : RightFor(rows[i].http[q], "http", <<rows[i].path, q>>)
  /\ stage = "done" => \A q \in DOMAIN stats["all"] : RightFor(stats["all"][q], "all", q)

\* The rows under the requests, those of unknown paths included, add up to the part
\* about SQL alone (trace.go:276): every call is counted in one row.
CountIn(row, q) == IF q \in DOMAIN row.sql THEN row.sql[q].count ELSE 0
TotalIn(row, q) == IF q \in DOMAIN row.sql THEN row.sql[q].total ELSE 0
RowsAddUp ==
  stage = "done" => \A q \in DOMAIN stats["all"] :
    /\ Sum([i \in DOMAIN rows |-> CountIn(rows[i], q)]) = stats["all"][q].count
    /\ Sum([i \in DOMAIN rows |-> TotalIn(rows[i], q)]) = stats["all"][q].total
=============================================================================
