------------------------------ MODULE MCTrace ------------------------------
(***************************************************************************)
(* The tracer at work, or its report of some measures: the two parts are   *)
(* independent, and a behaviour is one of either.                          *)
(***************************************************************************)
EXTENDS Trace, TraceStats

VARIABLE part

\* Requests of two paths, calls under one of them or none: a few of each.
Seqs(S, max) == UNION {[1 .. k -> S] : k \in 0 .. max}
Some(paths, texts, durations) == [path : paths, query : texts, duration : durations]
MCReports ==
  {[rms |-> rms, sms |-> sms, hms |-> hms] :
     rms \in Seqs(Some({"a", "b"}, {""}, {0, 1, 2}), 2),
     sms \in Seqs(Some({"a", ""}, {"q", "r"}, {0, 1, 2}), 2),
     hms \in Seqs(Some({"a", "b"}, {"u"}, {1}), 1)}

\* A report of nothing is no part of a behaviour of the tracer.
None == [l \in Measures |-> <<>>]
MCInit == part \in {"trace", "report"} /\ Init /\ StatsInit /\ (part = "trace" => measures = None)
MCNext ==
  /\ UNCHANGED part
  /\ \/ part = "trace" /\ Next /\ UNCHANGED statsVars
     \/ part = "report" /\ StatsNext /\ UNCHANGED vars
MCSpec == MCInit /\ [][MCNext]_<<part, vars, statsVars>>
=============================================================================
