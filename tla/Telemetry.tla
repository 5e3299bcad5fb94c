----------------------------- MODULE Telemetry -----------------------------
(***************************************************************************)
(* run_instrumented (infra/runtime.py) in several request threads: the     *)
(* global tracer, the trace around the pipeline, and the five metrics      *)
(* updated after it (infra/metrics.py), while Prometheus fetches pages.    *)
(*                                                                         *)
(* The pipeline itself is the subject of module Pipeline; here it raises   *)
(* or returns one of Outcomes.  A latency is given as the number of the    *)
(* first bucket it falls into, so that both histograms observe a Nat.      *)
(***************************************************************************)
EXTENDS Integers, Sequences, FiniteSets

CONSTANTS
  Runs,
  Outcomes,         \* what a run that returns may have come to
  Classes           \* classes of the findings in Outcomes

Registry == << "runs", "iterations", "latency", "last_risk", "findings" >>
Metrics == {Registry[i] : i \in DOMAIN Registry}

(* Buckets of each histogram, the last one is +Inf.                        *)
Buckets == [iterations |-> 1..6, latency |-> 1..9]
Histograms == DOMAIN Buckets

Outcome == [approved : BOOLEAN, iterations : 1..5, latency : 1..9,
            risk : 0..10, findings : Seq(Classes)]

ASSUME OutcomesAssumption == Outcomes \subseteq Outcome

VARIABLES
  keys,         \* LANGFUSE_PUBLIC_KEY and LANGFUSE_SECRET_KEY are set
  default,      \* the global _default
  pc,           \* where run_instrumented is
  tracer,       \* tracer[r]: what get_tracer returned
  trace,        \* trace[r]: the with-block
  outcome,      \* outcome[r]: << >>, or << the result >>
  at,           \* at[r]: the update of Updates(outcome[r]) that comes next
  holders,      \* holders[m]: the runs inside "with self._lock" of metric m
  seen,         \* seen[r]: the old value inc() has read
  value,        \* value[m]: what metric m stores
  page          \* the last metric render() put on its page, with its values

tracing == << keys, default, tracer, trace >>
telemetryVars == << tracing, pc, outcome, at, holders, seen, value, page >>

EmptyPage == [number |-> 0, metric |-> 0]

Places == {"idle", "creating", "tracing", "pipeline", "counting", "returned",
           "raised"}

TelemetryInit ==
  /\ keys \in BOOLEAN
  /\ default = "none"
  /\ pc = [r \in Runs |-> "idle"]
  /\ tracer = [r \in Runs |-> "none"]
  /\ trace = [r \in Runs |-> "none"]
  /\ outcome = [r \in Runs |-> << >>]
  /\ at = [r \in Runs |-> 1]
  /\ holders = [m \in Metrics |-> {}]
  /\ seen = [r \in Runs |-> 0]
  /\ value = [runs |-> [approved \in BOOLEAN |-> 0],
              iterations |-> [bucket |-> [i \in Buckets.iterations |-> 0], sum |-> 0, count |-> 0],
              latency |-> [bucket |-> [i \in Buckets.latency |-> 0], sum |-> 0, count |-> 0],
              last_risk |-> 0,
              findings |-> [class \in Classes |-> 0]]
  /\ page = EmptyPage

RunGoes(r, place) == pc' = [pc EXCEPT ![r] = place]
-----------------------------------------------------------------------------
(* The tracer.                                                             *)

(* get_tracer looks at _default without a lock; another thread may set it  *)
(* before this one does.                                                   *)
GetTracer(r) ==
  /\ pc[r] = "idle"
  /\ tracer' = [tracer EXCEPT ![r] = default]
  /\ RunGoes(r, IF default = "none" THEN "creating" ELSE "tracing")
  /\ UNCHANGED << keys, default, trace, outcome, at, holders, seen, value, page >>

(* Langfuse if there are keys and its constructor does not raise.          *)
CreateTracer(r) ==
  /\ pc[r] = "creating"
  /\ \E made \in {"stub"} \cup (IF keys THEN {"langfuse"} ELSE {}) :
       /\ default' = made
       /\ tracer' = [tracer EXCEPT ![r] = made]
  /\ RunGoes(r, "tracing")
  /\ UNCHANGED << keys, trace, outcome, at, holders, seen, value, page >>

OpenTrace(r) ==
  /\ pc[r] = "tracing"
  /\ trace' = [trace EXCEPT ![r] = "open"]
  /\ RunGoes(r, "pipeline")
  /\ UNCHANGED << keys, default, tracer, outcome, at, holders, seen, value, page >>

(* LangfuseTracer.trace lets an exception of the SDK through.              *)
TraceRaises(r) ==
  /\ pc[r] = "tracing"
  /\ tracer[r] = "langfuse"
  /\ RunGoes(r, "raised")
  /\ UNCHANGED << tracing, outcome, at, holders, seen, value, page >>
-----------------------------------------------------------------------------
(* The pipeline.                                                           *)

PipelineReturns(r) ==
  /\ pc[r] = "pipeline"
  /\ \E o \in Outcomes : outcome' = [outcome EXCEPT ![r] = << o >>]
  /\ RunGoes(r, "counting")
  /\ UNCHANGED << tracing, at, holders, seen, value, page >>

(* The with-block is left with the exception.                              *)
Exited == "ended"

PipelineRaises(r) ==
  /\ pc[r] = "pipeline"
  /\ trace' = [trace EXCEPT ![r] = Exited]
  /\ RunGoes(r, "raised")
  /\ UNCHANGED << keys, default, tracer, outcome, at, holders, seen, value, page >>
-----------------------------------------------------------------------------
(* The metrics.                                                            *)

(* The updates a run makes, in order: one of every metric, and one of      *)
(* findings for each finding of each iteration.                            *)
Updates(o) ==
  << [metric |-> "runs", arg |-> o.approved],
     [metric |-> "iterations", arg |-> o.iterations],
     [metric |-> "latency", arg |-> o.latency],
     [metric |-> "last_risk", arg |-> o.risk] >>
  \o [i \in DOMAIN o.findings |-> [metric |-> "findings", arg |-> o.findings[i]]]

Counting(r) == pc[r] = "counting" /\ at[r] \in DOMAIN Updates(outcome[r][1])
Update(r) == Updates(outcome[r][1])[at[r]]

NoMetricLock(m) == TRUE
MetricLockFree(m) == holders[m] = {}
RenderLockFree(m) == MetricLockFree(m)

(* Counter.inc first reads the old value; Histogram.observe first goes     *)
(* through the buckets.  A series nobody has touched yet counts as 0.      *)
RaiseBuckets(h, arg) ==
  [h EXCEPT !.bucket = [i \in DOMAIN h.bucket |->
                          IF arg <= i THEN h.bucket[i] + 1 ELSE h.bucket[i]]]

Enter(r) ==
  /\ Counting(r)
  /\ LET m == Update(r).metric  arg == Update(r).arg
     IN  /\ r \notin holders[m]
         /\ MetricLockFree(m)
         /\ holders' = [holders EXCEPT ![m] = @ \cup {r}]
         /\ IF m \in Histograms
            THEN /\ value' = [value EXCEPT ![m] = RaiseBuckets(@, arg)]
                 /\ seen' = seen
            ELSE /\ seen' = [seen EXCEPT ![r] =
                               IF m = "last_risk" THEN 0 ELSE value[m][arg]]
                 /\ value' = value
  /\ UNCHANGED << tracing, pc, outcome, at, page >>

Stored(r, m, arg) ==
  IF m \in Histograms
  THEN [value[m] EXCEPT !.sum = @ + arg, !.count = @ + 1]
  ELSE IF m = "last_risk" THEN arg ELSE [value[m] EXCEPT ![arg] = seen[r] + 1]

Leave(r) ==
  /\ Counting(r)
  /\ LET m == Update(r).metric
     IN  /\ r \in holders[m]
         /\ value' = [value EXCEPT ![m] = Stored(r, m, Update(r).arg)]
         /\ holders' = [holders EXCEPT ![m] = @ \ {r}]
  /\ at' = [at EXCEPT ![r] = @ + 1]
  /\ seen' = [seen EXCEPT ![r] = 0]
  /\ UNCHANGED << tracing, pc, outcome, page >>

(* update and score of the trace swallow what the SDK raises.              *)
ClosingUnguarded(r) ==
  {"returned"} \cup (IF tracer[r] = "langfuse" THEN {"raised"} ELSE {})
Closing(r) == {"returned"}

CloseTrace(r) ==
  /\ pc[r] = "counting"
  /\ ~Counting(r)
  /\ \E place \in Closing(r) : RunGoes(r, place)
  /\ trace' = [trace EXCEPT ![r] = "ended"]
  /\ UNCHANGED << keys, default, tracer, outcome, at, holders, seen, value, page >>

Run(r) ==
  \/ CreateTracer(r) \/ OpenTrace(r) \/ TraceRaises(r)
  \/ PipelineReturns(r) \/ PipelineRaises(r)
  \/ Enter(r) \/ Leave(r) \/ CloseTrace(r)
-----------------------------------------------------------------------------
(* render(): each metric under its own lock, in the order of the registry. *)

RenderMetric ==
  /\ page.number < Len(Registry)
  /\ LET next == page.number + 1
     IN  /\ RenderLockFree(Registry[next])
         /\ page' = [number |-> next, metric |-> value[Registry[next]]]
  /\ UNCHANGED << tracing, pc, outcome, at, holders, seen, value >>

(* The page is sent; the next one begins.                                  *)
SendPage ==
  /\ page.number = Len(Registry)
  /\ page' = EmptyPage
  /\ UNCHANGED << tracing, pc, outcome, at, holders, seen, value >>

TelemetryNext ==
  \/ \E r \in Runs : GetTracer(r) \/ Run(r)
  \/ RenderMetric \/ SendPage

TelemetrySpec == TelemetryInit /\ [][TelemetryNext]_telemetryVars

(* A run goes on once it has begun, and the lock of a metric goes to one   *)
(* that waits for it.  Nobody need fetch a page.                           *)
TelemetryFairSpec == TelemetrySpec /\ \A r \in Runs : WF_telemetryVars(Run(r))
-----------------------------------------------------------------------------
HistogramOf(m) == [bucket : [Buckets[m] -> Nat], sum : Nat, count : Nat]

TelemetryTypeOK ==
  /\ keys \in BOOLEAN
  /\ default \in {"none", "stub", "langfuse"}
  /\ pc \in [Runs -> Places]
  /\ tracer \in [Runs -> {"none", "stub", "langfuse"}]
  /\ trace \in [Runs -> {"none", "open", "ended"}]
  /\ \A r \in Runs : outcome[r] = << >> \/ outcome[r][1] \in Outcomes
  /\ at \in [Runs -> Nat \ {0}]
  /\ seen \in [Runs -> Nat]
  /\ \A m \in Metrics : holders[m] \subseteq Runs /\ Cardinality(holders[m]) <= 1
  /\ value.runs \in [BOOLEAN -> Nat]
  /\ \A m \in Histograms : value[m] \in HistogramOf(m)
  /\ value.last_risk \in 0..10
  /\ value.findings \in [Classes -> Nat]
  /\ page.number \in 0..Len(Registry)

(* The updates of metric m that have been made, as << run, position >>.    *)
Made(m) ==
  {u \in UNION {{r} \X (1..(at[r] - 1)) : r \in Runs} :
     Updates(outcome[u[1]][1])[u[2]].metric = m}

Arg(u) == Updates(outcome[u[1]][1])[u[2]].arg

(* No update of two runs at once is lost: what a metric stores, when       *)
(* nobody is inside, is exactly what the runs have put into it             *)
(* (metrics.py:64-67, 124-135).                                            *)
UpdatesAreNotLost ==
  \A m \in Metrics : holders[m] = {} =>
    CASE m \in {"runs", "findings"} ->
           \A label \in DOMAIN value[m] :
             value[m][label] = Cardinality({u \in Made(m) : Arg(u) = label})
      [] m \in Histograms ->
           /\ value[m].count = Cardinality(Made(m))
           /\ \A i \in Buckets[m] :
                value[m].bucket[i] = Cardinality({u \in Made(m) : Arg(u) <= i})
      [] OTHER ->
           Made(m) # {} => value[m] \in {Arg(u) : u \in Made(m)}

(* A histogram on a page is one state of it: the buckets are cumulative    *)
(* and the last holds all observations, as Prometheus' quantiles assume    *)
(* (metrics.py:168-178 against 131-135).                                   *)
HistogramsAreWhole ==
  (page.number > 0 /\ Registry[page.number] \in Histograms) =>
    LET h == page.metric
        last == Cardinality(DOMAIN h.bucket)
    IN  /\ \A i \in 1..(last - 1) : h.bucket[i] <= h.bucket[i + 1]
        /\ h.bucket[last] = h.count
        /\ h.sum >= h.count

(* What a metric stores and what a page shows of it is what happened.      *)
MetricsAreExact == TelemetryTypeOK /\ UpdatesAreNotLost /\ HistogramsAreWhole

(* A run is counted whole if its caller gets a result, and not at all if   *)
(* the caller gets an exception; its trace is not left open either way     *)
(* (runtime.py:43-98).                                                     *)
CountedIffReturned ==
  \A r \in Runs :
    /\ pc[r] = "raised" => at[r] = 1
    /\ pc[r] = "returned" => at[r] = Len(Updates(outcome[r][1])) + 1
    /\ pc[r] \in {"raised", "returned"} => trace[r] # "open"
-----------------------------------------------------------------------------
(* What the comment says of the tracing SDK (tracing.py:143): it is never  *)
(* the reason for a run to fail.                                           *)
TracingIsHarmless == \A r \in Runs : pc[r] = "raised" => trace[r] # "none"
=============================================================================
