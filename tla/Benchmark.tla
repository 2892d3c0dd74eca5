------------------------------ MODULE Benchmark ------------------------------
(***************************************************************************)
(* The benchmark program, backend/src/main.cpp: what its options choose,   *)
(* the preparation, the rounds of the warm-up and of the run, the threads  *)
(* of a round and how they add their results up in variables they share    *)
(* with each other, and the statistics of a round (utils/percentile.h).    *)
(* What the queries do to the database and the cache is CacheAside's; here *)
(* each has a latency and is a hit or not.                                 *)
(*                                                                         *)
(* Sums of doubles (throughput, used time) are the sets of what was added, *)
(* a round and a thread.  Hit rates are fractions, and percentiles are     *)
(* computed exactly; in the code both are doubles.                         *)
(***************************************************************************)
EXTENDS Integers, FiniteSets, Functions, Sequences, SequencesExt

CONSTANTS
  Thread,
  MAX_RECORDS,
  MaxQuery,    \* currentMaxQueries, --maxquery
  RunTimes,    \* bound: the number after --run
  Latency,     \* latencies of a query
  UInt,        \* an unsigned int is a number below this
  MaxWarmups   \* bound: rounds of the warm-up

ASSUME BoundsAssumption ==
  /\ IsFiniteSet(Thread) /\ Thread # {} /\ MAX_RECORDS \in Nat \ {0} /\ MaxQuery \in Nat \ {0}
  /\ RunTimes \in Nat /\ MaxWarmups \in Nat
  /\ UInt \in Nat /\ Latency \subseteq 0 .. UInt - 1

VARIABLES
  opts,    \* [prepare, warmup, run, times]: do_prepare, do_warmup, do_run, run_times
  main,    \* the main thread: control state, round, run_times, the two hit rates
  thread,  \* per thread of the round: control state, what it read, its results
  total,   \* what the threads add up
  iterate, sequential_startidx,
  log      \* what is told of a round of the run, until the next

vars == <<opts, main, thread, total, iterate, sequential_startidx, log>>

-----------------------------------------------------------------------------
(***************************************************************************)
(* Options.                                                                *)
(***************************************************************************)
Args == {"--prepare", "--warmup", "--run"}

Defaults == [prepare |-> TRUE, warmup |-> FALSE, run |-> TRUE, times |-> 0]

\* number is what run_times is after --run: the number that follows it, or what it
\* was when none follows.  Numbers below 0 are rounds without end, beyond RunTimes: -1
\* becomes INT_MAX, another is counted down.
Option(o, arg, number) ==
  CASE arg = "--prepare" -> [o EXCEPT !.warmup = FALSE, !.run = FALSE]
    [] arg = "--warmup"  -> [o EXCEPT !.prepare = FALSE, !.warmup = TRUE]
    [] arg = "--run"     -> [o EXCEPT !.prepare = FALSE, !.times = number]

-----------------------------------------------------------------------------
(***************************************************************************)
(* Statistics.                                                             *)
(***************************************************************************)
\* The position in the latencies as they came.
PercentileUnsorted(latencies, p) ==
  IF latencies = <<>> THEN 0
  ELSE latencies[(p * (Len(latencies) - 1)) \div 100 + 1]

\* std::sort: the values in one of the orders in which they ascend.
Sorted(latencies) ==
  LET D     == DOMAIN latencies
      order == CHOOSE o \in [D -> D] :
                 /\ IsInjective(o)
                 /\ \A i, j \in D : i < j => latencies[o[i]] <= latencies[o[j]]
  IN [i \in D |-> latencies[order[i]]]

\* percentile, p in hundredths: between the two neighbours of the position, cut
\* to a whole number.
Percentile(latencies, p) ==
  LET sorted == Sorted(latencies)
      index  == p * (Len(sorted) - 1)
      lower  == sorted[index \div 100 + 1]
      upper  == sorted[(index + 99) \div 100 + 1]
  IN IF latencies = <<>> THEN 0
     ELSE lower + ((upper - lower) * (index % 100)) \div 100

\* average: an unsigned int adds up.
Average(latencies) ==
  IF latencies = <<>> THEN 0
  ELSE FoldLeft(LAMBDA sum, value : (sum + value) % UInt, 0, latencies) \div Len(latencies)

\* A hit rate of -1; and whether two hit rates are more than 0.005 apart.
NoRate == [hits |-> 0, records |-> 0]

Apart(a, b) ==
  LET d == a.hits * b.records - b.hits * a.records
  IN 200 * (IF d < 0 THEN -d ELSE d) > a.records * b.records

-----------------------------------------------------------------------------
Off     == [at |-> "off", sweep |-> FALSE, start |-> 0, seen |-> {}, hits |-> 0,
            latencies |-> <<>>]
NoLog   == [rate |-> NoRate, throughput |-> {}, usedtime |-> {}, average |-> 0,
            percentile |-> [p \in {99, 95, 50} |-> 0]]
Nothing == [throughput |-> {}, usedtime |-> {}, hits |-> 0, records |-> 0, latencies |-> <<>>]

Init ==
  /\ opts = Defaults
  /\ main = [at |-> "options", round |-> 0, times |-> 0, lasthitrate |-> NoRate,
             hitrate |-> NoRate]
  /\ thread = [t \in Thread |-> Off]
  /\ total = Nothing
  /\ iterate = TRUE
  /\ sequential_startidx = 0
  /\ log = NoLog

Rest == UNCHANGED <<opts, total, iterate, sequential_startidx, log>>

\* argv, one option after the other.
ReadOption ==
  /\ main.at = "options"
  /\ \E arg \in Args, number \in 0 .. RunTimes : opts' = Option(opts, arg, number)
  /\ UNCHANGED <<main, thread, total, iterate, sequential_startidx, log>>

\* --help ends the program, whatever came before it.
Help ==
  /\ main.at = "options"
  /\ main' = [main EXCEPT !.at = "end"]
  /\ UNCHANGED thread /\ Rest

\* do_prepare: nobody looks at what create_database and load_database return.
Begin ==
  /\ main.at = "options"
  /\ main' = [main EXCEPT !.at = IF opts.warmup THEN "warmup" ELSE "run", !.times = opts.times]
  /\ UNCHANGED thread /\ Rest

\* The threads of a round are started.
Started == thread' = [t \in Thread |-> [Off EXCEPT !.at = "begin"]]

Joined == \A t \in Thread : thread[t].at = "done"

-----------------------------------------------------------------------------
(***************************************************************************)
(* The warm-up: rounds until the hit rate stays as it is.                  *)
(***************************************************************************)
WarmAgain == main.lasthitrate = NoRate \/ Apart(main.hitrate, main.lasthitrate)

StartWarmup ==
  /\ main.at = "warmup" /\ WarmAgain
  /\ main.round < MaxWarmups
  /\ main' = [main EXCEPT !.at = "warming", !.round = @ + 1, !.lasthitrate = main.hitrate]
  /\ Started /\ Rest

FinishWarmup ==
  /\ main.at = "warming" /\ Joined
  /\ main' = [main EXCEPT !.at = "warmup",
                          !.hitrate = [hits |-> total.hits, records |-> total.records]]
  /\ total' = [total EXCEPT !.hits = 0, !.records = 0]
  /\ UNCHANGED <<opts, thread, iterate, sequential_startidx, log>>

EndWarmup ==
  /\ main.at = "warmup" /\ ~WarmAgain
  /\ main' = [main EXCEPT !.at = "run", !.round = 0, !.lasthitrate = NoRate, !.hitrate = NoRate]
  /\ thread' = [t \in Thread |-> Off]
  /\ Rest

-----------------------------------------------------------------------------
(***************************************************************************)
(* The run: run_times rounds.                                              *)
(***************************************************************************)
StartRun ==
  /\ main.at = "run" /\ opts.run /\ main.times > 0
  /\ main' = [main EXCEPT !.at = "running", !.round = @ + 1, !.times = @ - 1]
  /\ log' = NoLog
  /\ Started
  /\ UNCHANGED <<opts, total, iterate, sequential_startidx>>

\* Only the counts and the latencies are set back.
ResetButDoubles == [Nothing EXCEPT !.throughput = total.throughput]

Reset == Nothing

\* Join, clean_up, statistics and logs; then everything is set back.
FinishRun ==
  /\ main.at = "running" /\ Joined
  /\ log' = [rate       |-> [hits |-> total.hits, records |-> total.records],
             throughput |-> total.throughput,
             usedtime   |-> total.usedtime,
             average    |-> Average(total.latencies),
             percentile |-> [p \in {99, 95, 50} |-> Percentile(total.latencies, p)]]
  /\ total' = Reset
  /\ sequential_startidx' = (sequential_startidx + MaxQuery) % MAX_RECORDS
  /\ main' = [main EXCEPT !.at = "run"]
  /\ UNCHANGED <<opts, thread, iterate>>

End ==
  /\ main.at = "run" /\ (~opts.run \/ main.times = 0)
  /\ main' = [main EXCEPT !.at = "end"]
  /\ UNCHANGED thread /\ Rest

-----------------------------------------------------------------------------
(***************************************************************************)
(* The threads of a round.                                                 *)
(***************************************************************************)
At(t, at) == thread[t].at = at /\ main.at \in {"warming", "running"}
Become(t, b) == thread' = [thread EXCEPT ![t] = b]
Warming == main.at = "warming"

\* records_executed at the end: a sweep reads every record once.
Records(t) == IF thread[t].sweep THEN MAX_RECORDS ELSE MaxQuery

\* The constructors: the first round of the warm-up is a sweep for every thread
\* that comes before the first one has set iterate back.
BeginQueries(t) ==
  /\ At(t, "begin")
  /\ Become(t, [thread[t] EXCEPT !.at = "run", !.sweep = Warming /\ iterate,
                                 !.start = sequential_startidx])
  /\ UNCHANGED main /\ Rest

\* Benchmark::run.  Of the warm-up nobody looks at the latencies.
Queries(t) ==
  /\ At(t, "run")
  /\ \E hits \in 0 .. Records(t),
        latencies \in IF Warming THEN {<<>>} ELSE [1 .. Records(t) -> Latency] :
       Become(t, [thread[t] EXCEPT !.at = IF Warming THEN "counts" ELSE "loadThroughput",
                                   !.hits = hits, !.latencies = latencies])
  /\ UNCHANGED main /\ Rest

\* A query fails, and nothing catches what run throws: std::terminate.
Terminate(t) ==
  /\ At(t, "run")
  /\ main' = [main EXCEPT !.at = "terminated"]
  /\ UNCHANGED thread /\ Rest

\* x = x + result: an atomic load and an atomic store.
Load(t, from, x, to) ==
  /\ At(t, from)
  /\ Become(t, [thread[t] EXCEPT !.at = to, !.seen = total[x]])
  /\ UNCHANGED main /\ Rest

Store(t, from, x, to) ==
  /\ At(t, from)
  /\ total' = [total EXCEPT ![x] = thread[t].seen \cup {<<main.round, t>>}]
  /\ Become(t, [thread[t] EXCEPT !.at = to, !.seen = {}])
  /\ UNCHANGED <<opts, main, iterate, sequential_startidx, log>>

AddThroughput(t) ==
  \/ Load(t, "loadThroughput", "throughput", "storeThroughput")
  \/ Store(t, "storeThroughput", "throughput", "loadUsedtime")

AddUsedtime(t) ==
  \/ Load(t, "loadUsedtime", "usedtime", "storeUsedtime")
  \/ Store(t, "storeUsedtime", "usedtime", "counts")

\* The records are set and not added up.
AddCountsOfQueries(t) ==
  /\ At(t, "counts")
  /\ total' = [total EXCEPT !.hits = @ + thread[t].hits, !.records = MaxQuery]
  /\ Become(t, [thread[t] EXCEPT !.at = IF Warming THEN "loadStart" ELSE "latencies"])
  /\ UNCHANGED <<opts, main, iterate, sequential_startidx, log>>

\* Two atomic +=; nobody reads the two before the threads are joined.
AddCounts(t) ==
  /\ At(t, "counts")
  /\ total' = [total EXCEPT !.hits = @ + thread[t].hits, !.records = @ + Records(t)]
  /\ Become(t, [thread[t] EXCEPT !.at = IF Warming THEN "loadStart" ELSE "latencies"])
  /\ UNCHANGED <<opts, main, iterate, sequential_startidx, log>>

\* Under total_latencies_mutex.
AddLatencies(t) ==
  /\ At(t, "latencies")
  /\ total' = [total EXCEPT !.latencies = @ \o thread[t].latencies]
  /\ Become(t, [thread[t] EXCEPT !.at = "done"])
  /\ UNCHANGED <<opts, main, iterate, sequential_startidx, log>>

\* The warm-up's threads move the start on, each with a read and a write that
\* nothing protects, and a sweep is not made again.
LoadStart(t) ==
  /\ At(t, "loadStart")
  /\ Become(t, [thread[t] EXCEPT !.at = "storeStart", !.start = sequential_startidx])
  /\ UNCHANGED main /\ Rest

\* iterate stays.
StoreStartAndIterate(t) ==
  /\ At(t, "storeStart")
  /\ sequential_startidx' = (thread[t].start + Records(t)) % MAX_RECORDS
  /\ Become(t, [thread[t] EXCEPT !.at = "done"])
  /\ UNCHANGED <<opts, main, total, iterate, log>>

StoreStart(t) ==
  /\ At(t, "storeStart")
  /\ sequential_startidx' = (thread[t].start + Records(t)) % MAX_RECORDS
  /\ iterate' = (iterate /\ ~thread[t].sweep)
  /\ Become(t, [thread[t] EXCEPT !.at = "done"])
  /\ UNCHANGED <<opts, main, total, log>>

Next ==
  \/ ReadOption \/ Help \/ Begin \/ StartWarmup \/ FinishWarmup \/ EndWarmup
  \/ StartRun \/ FinishRun \/ End
  \/ \E t \in Thread :
       \/ BeginQueries(t) \/ Queries(t) \/ Terminate(t)
       \/ AddThroughput(t) \/ AddUsedtime(t) \/ AddCounts(t) \/ AddLatencies(t)
       \/ LoadStart(t) \/ StoreStart(t)

Spec == Init /\ [][Next]_vars
-----------------------------------------------------------------------------
Told == main.at \in {"run", "end"} /\ main.round > 0

TypeOK ==
  /\ opts \in [prepare : BOOLEAN, warmup : BOOLEAN, run : BOOLEAN, times : 0 .. RunTimes]
  /\ main.at \in {"options", "warmup", "warming", "run", "running", "end", "terminated"}
  /\ main.times \in 0 .. RunTimes /\ main.round \in 0 .. MaxWarmups + RunTimes
  /\ \A t \in Thread :
       /\ thread[t].at \in {"off", "begin", "run", "loadThroughput", "storeThroughput",
                            "loadUsedtime", "storeUsedtime", "counts", "latencies",
                            "loadStart", "storeStart", "done"}
       /\ thread[t].start \in 0 .. MAX_RECORDS - 1
       /\ thread[t].seen \subseteq Nat \X Thread
  /\ total.records \in Nat /\ total.hits \in 0 .. total.records
  /\ total.latencies \in Seq(Latency)
  /\ iterate \in BOOLEAN
  /\ sequential_startidx \in 0 .. MAX_RECORDS - 1

\* What is told of a round is of its threads and of no round before: every record
\* and every hit, and the throughput and the time of at least one thread - not of
\* all, since they are added up by a load and a store (main.cpp:200-209, 278-283).
LogOfRound ==
  Told => /\ log.rate = [hits    |-> SumFunction([t \in Thread |-> thread[t].hits]),
                         records |-> SumFunction([t \in Thread |-> Records(t)])]
          /\ \A sum \in {log.throughput, log.usedtime} :
               sum # {} /\ sum \subseteq {main.round} \X Thread

\* Of the latencies of a round's threads, how many satisfy a condition.
Count(P(_)) ==
  SumFunction([t \in Thread |->
    Cardinality({i \in DOMAIN thread[t].latencies : P(thread[t].latencies[i])})])

\* A percentile has its rank among all the latencies of the round, in whatever
\* order the threads have come to append them; the average is the latencies'
\* as long as their sum is an unsigned int (percentile.h:6-40, main.cpp:205-208).
StatisticsSound ==
  Told =>
    LET n   == Count(LAMBDA l : TRUE)
        sum == SumFunction([t \in Thread |-> SumFunction(thread[t].latencies)])
    IN /\ \A p \in {99, 95, 50} :
            LET v == log.percentile[p]
            IN /\ 100 * (Count(LAMBDA l : l <= v) - 1) >= p * (n - 1) - 99
               /\ 100 * (n - Count(LAMBDA l : l >= v)) <= p * (n - 1) + 99
       /\ sum < UInt => n * log.average <= sum /\ sum < n * (log.average + 1)

\* The warm-up sweeps the records in its first round, by one thread at least, and
\* never again, although iterate is shared without a lock (main.cpp:135-149).
SweptFirst ==
  [][FinishWarmup => (main.round = 1 <=> \E t \in Thread : thread[t].sweep)]_vars

\* main.cpp:84 "if no options are provided, both preparation and benchmark will be
\* run": a program that ends and was given no option has made a round.
RunsByDefault == [][End /\ opts = Defaults => main.round > 0]_vars
=============================================================================
