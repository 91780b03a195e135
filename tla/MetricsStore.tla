---------------------------- MODULE MetricsStore ----------------------------
(***************************************************************************)
(* The run log of the agent metrics (summaries.jsonl), which every ended   *)
(* session appends a line to, the memo of its parsed content that is keyed *)
(* on the file's modification time and size, and the three views that the  *)
(* observability page polls: a row per terminal, the totals, the heatmap.  *)
(* The clock of the computer may be set back, so that a later line of the  *)
(* log may have earlier times.                                             *)
(***************************************************************************)
EXTENDS Naturals, Sequences, FiniteSets, SequencesExt, FiniteSetsExt

CONSTANTS
    LogTerminals, \* the terminals that runs are of
    MaxStamp,     \* bound: times
    MaxWrites     \* bound: lines appended to the log

ASSUME MetricsAssumption == MaxWrites \in Nat /\ MaxStamp \in Nat

VARIABLES
    log,    \* the parsable lines of summaries.jsonl
    torn,   \* a crash has left a line without its end
    stat,   \* the file's modification time and size, as statSync has them
    cache   \* summariesCache

metricsVars == <<log, torn, stat, cache>>
-----------------------------------------------------------------------------
Stamps == 1..MaxStamp
Outcomes == {"success", "error"}
Runs == [terminal : LogTerminals, start : Stamps, end : Stamps, outcome : Outcomes]
Absent == [mtime |-> 0, size |-> 0]
NoMemo == [some |-> FALSE, key |-> Absent, runs |-> <<>>]

MetricsInit ==
    /\ log = <<>> /\ torn = FALSE /\ stat = Absent /\ cache = NoMemo

\* Two lines may be appended within one tick of the modification time.
Grown(s) == {[mtime |-> m, size |-> s.size + 1] : m \in {s.mtime, s.mtime + 1}}

\* onSessionEnd: the line is lost when it continues one that is torn.
RunEnds(run) ==
    /\ stat.size < MaxWrites /\ run.start <= run.end /\ stat' \in Grown(stat)
    /\ log' = IF torn THEN log ELSE Append(log, run)
    /\ torn' = FALSE /\ UNCHANGED cache

\* The process dies, with its cache, while it appends a line.
CrashWhileAppending ==
    /\ stat.size < MaxWrites /\ stat' \in Grown(stat)
    /\ torn' = TRUE /\ cache' = NoMemo /\ UNCHANGED log

\* Mutant: the key is the modification time.
KeyOfTime(s) == [mtime |-> s.mtime, size |-> 0]

KeyOf(s) == s

\* loadAllSummaries
Load ==
    IF cache.some /\ cache.key = KeyOf(stat) THEN cache
    ELSE [some |-> TRUE, key |-> KeyOf(stat), runs |-> log]

\* Any of the routes /api/metrics/aggregate, heatmap and summaries.
Read == cache' = Load /\ UNCHANGED <<log, torn, stat>>

-----------------------------------------------------------------------------
(* The views of the runs that have been loaded.                            *)

\* The runs of K, in their order: a filter, as a fold.
Filtered(runs, K) ==
    FoldLeft(LAMBDA kept, run : IF run \in K THEN Append(kept, run) ELSE kept, <<>>, runs)

\* readSummaries with "since"
Since(runs, since) == Filtered(runs, {r \in Runs : r.start >= since})

LatestOf(row, run) == IF run.start >= row.latest THEN run.start ELSE row.latest

\* aggregateByTerminal: what is summed up, and what the latest run says.
RowOf(run) ==
    [outcome |-> run.outcome, latest |-> run.start, start |-> run.start, end |-> run.end,
     lasted |-> run.end - run.start]

Merged(row, run) ==
    [outcome |-> IF run.start >= row.latest THEN run.outcome ELSE row.outcome,
     latest |-> LatestOf(row, run),
     start |-> IF run.start < row.start THEN run.start ELSE row.start,
     end |-> IF run.end > row.end THEN run.end ELSE row.end,
     lasted |-> row.lasted + (run.end - run.start)]

WithRun(rows, run) ==
    [t \in DOMAIN rows \cup {run.terminal} |->
       IF t # run.terminal THEN rows[t]
       ELSE IF t \in DOMAIN rows THEN Merged(rows[t], run) ELSE RowOf(run)]

AggregateByTerminal(runs) == FoldLeft(WithRun, <<>>, runs)

\* readAggregate: the counts, and the same of each group of runs; an average
\* duration is kept as the sum it is worth.
NoStats == [runs |-> 0, success |-> 0, error |-> 0, lasted |-> 0]

Counted(stats, run) ==
    [runs |-> stats.runs + 1,
     success |-> stats.success + (IF run.outcome = "success" THEN 1 ELSE 0),
     error |-> stats.error + (IF run.outcome = "error" THEN 1 ELSE 0),
     lasted |-> stats.lasted + (run.end - run.start)]

ReadAggregate(runs) == FoldLeft(Counted, NoStats, runs)

ByGroup(runs) ==
    [t \in {r.terminal : r \in ToSet(runs)} |->
       ReadAggregate(Filtered(runs, {r \in Runs : r.terminal = t}))]

\* readHeatmap, with an hour for each time: runs by their start, error runs, and
\* the error_detected events of any run, errors[t] of them at t.
Heatmap(runs, errors, cutoff) ==
    LET starts(t) == {i \in DOMAIN runs : runs[i].start = t}
    IN [t \in {u \in Stamps : u >= cutoff /\ (starts(u) # {} \/ errors[u] > 0)} |->
          [runs |-> Cardinality(starts(t)),
           errors |-> Cardinality({i \in starts(t) : runs[i].outcome = "error"}) + errors[t]]]

-----------------------------------------------------------------------------
MetricsNext ==
    \/ \E run \in Runs : RunEnds(run)
    \/ CrashWhileAppending \/ Read

MetricsSpec == MetricsInit /\ [][MetricsNext]_metricsVars

-----------------------------------------------------------------------------
\* Types of the log.
MetricsTypeOK ==
    /\ log \in Seq(Runs) /\ Len(log) <= stat.size /\ stat.mtime \in 0..MaxWrites
    /\ cache.some \in BOOLEAN /\ torn \in BOOLEAN

\* createAgentMetricsStore "any write to the log changes mtime/size and busts
\* the cache": under the key of the file as it is, the memo holds its content,
\* however quickly lines follow each other and whatever a crash has torn.
MemoIsCurrent == cache.some /\ cache.key = KeyOf(stat) => cache.runs = log

\* aggregateByTerminal "Cumulative fields are summed across runs; identity and
\* outcome fields come from the most recent run; the run window spans the
\* earliest start to the latest end": for every filter by time, and in whatever
\* order the clock has dated the runs of the log.
RowsCollapseRuns ==
    \A since \in Stamps :
       LET runs == Since(log, since)
           rows == AggregateByTerminal(runs)
           of(t) == {i \in DOMAIN runs : runs[i].terminal = t}
       IN \A t \in LogTerminals :
            /\ t \in DOMAIN rows <=> of(t) # {}
            /\ of(t) # {} =>
                 /\ \E i \in of(t) :
                      /\ \A j \in of(t) : runs[j].start < runs[i].start
                                          \/ (runs[j].start = runs[i].start /\ j <= i)
                      /\ rows[t].outcome = runs[i].outcome
                 /\ rows[t].lasted = ByGroup(runs)[t].lasted
                 /\ \A i \in of(t) : rows[t].start <= runs[i].start /\ runs[i].end <= rows[t].end

\* What the hours of the heatmap come to.
OverHours(f) == MapThenSumSet(LAMBDA t : f[t], Stamps)

\* The heatmap over all days and the totals, of one and the same log, agree on
\* the runs, and on the errors but for those that event files add.
ViewsAgree ==
    \A errors \in [Stamps -> {0, 2}] :
       LET map == Heatmap(log, errors, 1)
           hour(t) == IF t \in DOMAIN map THEN map[t] ELSE [runs |-> 0, errors |-> 0]
       IN /\ OverHours([t \in Stamps |-> hour(t).runs]) = ReadAggregate(log).runs
          /\ OverHours([t \in Stamps |-> hour(t).errors])
                 = ReadAggregate(log).error + OverHours(errors)

\* The run log: the memo is current, and the three views agree with the log.
MetricsSafe == MetricsTypeOK /\ MemoIsCurrent /\ RowsCollapseRuns /\ ViewsAgree
=============================================================================
